------------------------------ MODULE BootProofs ------------------------------
(***************************************************************************)
(* Proofs about the way to a running kernel.                               *)
(* About Startup and MemoryInit, for any memory map, any ACPI tables and   *)
(* any numbers of pages: which pages memory_init lists, and that kentry    *)
(* ends the way it does for the reason there is.                           *)
(* About the loader's reads: of VolumeRead, for any volumes, any sizes of  *)
(* sectors and cache blocks and any number of calls and faults, and of     *)
(* Tftp, for any sizes of files and packets.                               *)
(***************************************************************************)
EXTENDS Startup, TLAPS

CONSTANTS Volumes, MaxReads, MaxCount, Mtu, MaxRemote
VARIABLES vol, vcache, vread, vreads, net, remote, netHeld

Reader == INSTANCE VolumeRead
Net == INSTANCE Tftp

-------------------------------------------------------------------------------
(* Division, remainder and multiples *)

\* Multiplication keeps the order.
LEMMA MulMono == ASSUME NEW m \in Nat, NEW a \in Nat, NEW b \in Nat, a <= b PROVE a * m <= b * m
<1>1. b * m = a * m + (b - a) * m
  OBVIOUS
<1>2. (b - a) * m >= 0
  OBVIOUS
<1> QED
  BY <1>1, <1>2

\* A product of naturals, and the next one.
LEMMA MulSucc == ASSUME NEW m \in Nat, NEW a \in Nat PROVE (a + 1) * m = a * m + m /\ a * m \in Nat
OBVIOUS

\* The order of multiples is the order of their quotients.
LEMMA MulOrder == ASSUME NEW m \in Nat \ {0}, NEW a \in Nat, NEW b \in Nat, a * m < b * m PROVE a + 1 <= b
<1> SUFFICES ASSUME b <= a PROVE FALSE
  OBVIOUS
<1>1. b * m <= a * m
  BY MulMono
<1> QED
  BY <1>1, MulSucc

\* Quotient and remainder, as memory_init takes them of a base.
LEMMA DivMod ==
  ASSUME NEW m \in Nat \ {0}, NEW a \in Nat
  PROVE  a \div m \in Nat /\ a % m \in Nat /\ a % m < m /\ a = (a \div m) * m + (a % m)
<1>1. a \div m \in Int /\ a \div m >= 0
  OBVIOUS
<1>2. a % m \in Int /\ a % m >= 0
  OBVIOUS
<1>3. a % m < m
  OBVIOUS
<1>4. a = m * (a \div m) + (a % m)
  OBVIOUS
<1>5. m * (a \div m) = (a \div m) * m
  BY <1>1
<1> QED
  BY <1>1, <1>2, <1>3, <1>4, <1>5

\* A multiple is what leaves no remainder.
LEMMA Multiple == ASSUME NEW m \in Nat \ {0}, NEW q \in Nat PROVE (q * m) % m = 0
<1> DEFINE d == (q * m) \div m
           r == (q * m) % m
<1>1. q * m \in Nat
  BY MulSucc
<1>2. d \in Nat /\ r \in Nat /\ r < m /\ q * m = d * m + r
  BY <1>1, DivMod
<1> SUFFICES r = 0
  OBVIOUS
<1> HIDE DEF d, r
<1>3. CASE d = q
  BY <1>1, <1>2, <1>3
<1>4. CASE d + 1 <= q
  <2>1. (d + 1) * m <= q * m
    BY <1>2, <1>4, MulMono
  <2> QED
    BY <1>1, <1>2, <2>1, MulSucc
<1>5. CASE q + 1 <= d
  <2>1. (q + 1) * m <= d * m
    BY <1>2, <1>5, MulMono
  <2> QED
    BY <1>1, <1>2, <2>1, MulSucc
<1> QED
  BY <1>2, <1>3, <1>4, <1>5

\* An aligned address is a multiple of the page size.
LEMMA Quotient == ASSUME NEW m \in Nat \ {0}, NEW a \in Nat, a % m = 0 PROVE \E e \in Nat : a = e * m
<1>1. a \div m \in Nat /\ a = (a \div m) * m + (a % m)
  BY DivMod
<1>2. (a \div m) * m \in Nat
  BY <1>1, MulSucc
<1>3. a = (a \div m) * m
  BY <1>1, <1>2
<1> QED
  BY <1>1, <1>3

\* A multiple lies below an address exactly if its factor is below the quotient.
LEMMA DivBound ==
  ASSUME NEW m \in Nat \ {0}, NEW x \in Nat, NEW q \in Nat
  PROVE  q * m <= x <=> q <= x \div m
<1> DEFINE d == x \div m
           r == x % m
<1>1. d \in Nat /\ r \in Nat /\ r < m /\ x = d * m + r
  BY DivMod
<1> HIDE DEF d, r
<1>2. d * m \in Nat /\ q * m \in Nat /\ (d + 1) * m = d * m + m /\ d + 1 \in Nat
  BY <1>1, MulSucc
<1>3. ASSUME q * m <= x PROVE q <= d
  <2>1. q * m < (d + 1) * m
    BY <1>1, <1>2, <1>3
  <2>2. q + 1 <= d + 1
    BY <1>2, <2>1, MulOrder
  <2> QED
    BY <1>1, <2>2
<1>4. ASSUME q <= d PROVE q * m <= x
  BY <1>1, <1>2, <1>4, MulMono
<1> QED
  BY <1>3, <1>4 DEF d

\* A product of sizes is a size.
LEMMA Positive ==
  ASSUME NEW x \in Nat \ {0}, NEW r \in Nat \ {0}
  PROVE  x * r \in Nat \ {0}
OBVIOUS

-------------------------------------------------------------------------------
(* memory_init *)

\* What SizeAssumption says of the products.
LEMMA PageSizes ==
  /\ FOUR \in Nat \ {0} /\ KIB \in Nat \ {0} /\ PAGE_SIZE \in Nat \ {0} /\ KIB * KIB \in Nat
  /\ LOW_MEMORY \in Nat /\ MAX_PAGES \in Nat
BY SizeAssumption, Positive DEF PAGE_SIZE

\* AlignOffset leads to a page boundary from b up.
LEMMA Aligned ==
  ASSUME NEW b \in Nat
  PROVE  /\ AlignOffset(b) \in Nat
         /\ \E f \in Nat : b + AlignOffset(b) = f * PAGE_SIZE
<1> DEFINE d == b \div PAGE_SIZE
           r == b % PAGE_SIZE
<1>0. PAGE_SIZE \in Nat \ {0}
  BY PageSizes
<1>1. d \in Nat /\ r \in Nat /\ r < PAGE_SIZE /\ b = d * PAGE_SIZE + r
  BY <1>0, DivMod
<1>2. AlignOffset(b) = IF r = 0 THEN 0 ELSE PAGE_SIZE - r
  BY DEF AlignOffset
<1> HIDE DEF d, r
<1>3. d * PAGE_SIZE \in Nat /\ (d + 1) * PAGE_SIZE = d * PAGE_SIZE + PAGE_SIZE
  BY <1>0, <1>1, MulSucc
<1>4. CASE r = 0
  <2>1. b + AlignOffset(b) = d * PAGE_SIZE /\ AlignOffset(b) \in Nat
    BY <1>1, <1>2, <1>3, <1>4
  <2> QED
    BY <1>1, <2>1
<1>5. CASE r # 0
  <2>1. b + AlignOffset(b) = (d + 1) * PAGE_SIZE /\ AlignOffset(b) \in Nat /\ d + 1 \in Nat
    BY <1>0, <1>1, <1>2, <1>3, <1>5
  <2> QED
    BY <2>1
<1> QED
  BY <1>4, <1>5

\* What length / KiB(4) comes to: no page of it ends behind KIB * KIB times the length, and
\* one whole page makes it KIB * KIB at least.
LEMMA Counted ==
  ASSUME NEW x \in Nat
  PROVE  /\ PageCount(x) \in Nat
         /\ PageCount(x) * PAGE_SIZE <= x * (KIB * KIB)
         /\ x >= PAGE_SIZE => PageCount(x) >= KIB * KIB
<1> DEFINE d == x \div FOUR
<1>0. FOUR \in Nat \ {0} /\ KIB \in Nat \ {0} /\ KIB * KIB \in Nat
  BY PageSizes
<1>1. d \in Nat /\ x % FOUR \in Nat /\ x = d * FOUR + (x % FOUR)
  BY <1>0, DivMod
<1>2. PageCount(x) = d * KIB
  BY DEF PageCount
<1>3. KIB * FOUR <= x <=> KIB <= d
  BY <1>0, DivBound
<1> HIDE DEF d
<1>4. d * FOUR \in Nat /\ d * KIB \in Nat
  BY <1>0, <1>1, MulSucc
<1>5. d * FOUR <= x
  BY <1>1, <1>4
<1>6. (d * FOUR) * (KIB * KIB) <= x * (KIB * KIB)
  BY <1>0, <1>4, <1>5, MulMono
<1>7. (d * KIB) * (FOUR * KIB) = (d * FOUR) * (KIB * KIB)
  BY <1>0, <1>1
<1>8. FOUR * KIB = KIB * FOUR
  BY <1>0
<1>9. KIB <= d => KIB * KIB <= d * KIB
  BY <1>0, <1>1, MulMono
<1> QED
  BY <1>2, <1>3, <1>4, <1>6, <1>7, <1>8, <1>9 DEF PAGE_SIZE

\* The types of the memory map and of memory_init's counters.
LEMMA MapTypes ==
  ASSUME TypeOK
  PROVE  /\ Len(memmap) \in Nat /\ Len(page_list) \in Nat /\ n \in Nat
         /\ PAGE_SIZE \in Nat \ {0} /\ LOW_MEMORY \in Nat /\ MAX_PAGES \in Nat
         /\ \A k \in 1 .. Len(memmap) : memmap[k].base \in Nat /\ memmap[k].length \in Nat
         /\ p * PAGE_SIZE \in Nat /\ phys_addr \in Nat
<1>1. memmap \in Seq(Region)
  BY MemmapAssumption DEF TypeOK
<1>2. Len(memmap) \in Nat /\ \A k \in 1 .. Len(memmap) : memmap[k] \in Region
  BY <1>1
<1>3. Len(page_list) \in Nat /\ n \in Nat
  BY <1>2 DEF TypeOK
<1>4. p * PAGE_SIZE \in Nat
  BY PageSizes, MulSucc DEF TypeOK
<1> QED
  BY <1>2, <1>3, <1>4, PageSizes DEF Region, phys_addr, TypeOK

\* The inner loop in numbers: the entry's offset and remaining length, and the address it is
\* at, which is a multiple of the page size like the end of low memory.
LEMMA LoopNumbers ==
  ASSUME TypeOK, LoopInv, pc = "page"
  PROVE  \E off \in Nat, x \in Nat, c \in Nat, g \in Nat :
           /\ off = AlignOffset(memmap[n].base) /\ memmap[n].length = off + x
           /\ base = memmap[n].base + off /\ page_count = PageCount(x)
           /\ phys_addr = c * PAGE_SIZE /\ LOW_MEMORY = g * PAGE_SIZE
           /\ n \in 1 .. Len(memmap)
<1>1. /\ n \in 1 .. Len(memmap) /\ p \in Nat /\ base \in Nat
      /\ base = memmap[n].base + AlignOffset(memmap[n].base)
      /\ memmap[n].length >= AlignOffset(memmap[n].base)
      /\ page_count = PageCount(memmap[n].length - AlignOffset(memmap[n].base))
  BY MapTypes DEF TypeOK, LoopInv, Entry
<1>2. memmap[n].base \in Nat /\ memmap[n].length \in Nat
  BY <1>1, MapTypes
<1>3. AlignOffset(memmap[n].base) \in Nat
  BY <1>2, Aligned, Zenon
<1>4. PICK x \in Nat : x = memmap[n].length - AlignOffset(memmap[n].base)
  BY <1>1, <1>2, <1>3
<1>5. memmap[n].length = AlignOffset(memmap[n].base) + x
  BY <1>2, <1>3, <1>4
<1>6. PICK f \in Nat : base = f * PAGE_SIZE
  BY <1>1, <1>2, Aligned, Zenon
<1>7. PICK g \in Nat : LOW_MEMORY = g * PAGE_SIZE
  BY PageSizes, Quotient, SizeAssumption, Zenon
<1>8. phys_addr = (f + p) * PAGE_SIZE /\ f + p \in Nat
  BY <1>1, <1>6, PageSizes DEF phys_addr
<1> QED
  BY <1>1, <1>3, <1>4, <1>5, <1>7, <1>8, Zenon

\* The next address the inner loop comes to; one below 1 MiB does not pass it.
LEMMA Advance ==
  ASSUME TypeOK, LoopInv, AddPage
  PROVE  /\ phys_addr' = phys_addr + PAGE_SIZE
         /\ phys_addr < LOW_MEMORY => phys_addr + PAGE_SIZE <= LOW_MEMORY
<1>0. p \in Nat /\ base \in Nat /\ PAGE_SIZE \in Nat \ {0} /\ pc = "page"
  BY PageSizes DEF TypeOK, AddPage
<1>1. (p + 1) * PAGE_SIZE = p * PAGE_SIZE + PAGE_SIZE /\ p * PAGE_SIZE \in Nat
  BY <1>0, MulSucc
<1>2. phys_addr' = phys_addr + PAGE_SIZE
  BY <1>0, <1>1 DEF AddPage, phys_addr
<1>3. PICK c \in Nat, g \in Nat : phys_addr = c * PAGE_SIZE /\ LOW_MEMORY = g * PAGE_SIZE
  BY <1>0, LoopNumbers
<1>4. ASSUME phys_addr < LOW_MEMORY PROVE phys_addr + PAGE_SIZE <= LOW_MEMORY
  <2>1. c + 1 <= g
    BY <1>0, <1>3, <1>4, MulOrder
  <2>2. (c + 1) * PAGE_SIZE <= g * PAGE_SIZE
    BY <1>0, <2>1, MulMono
  <2> QED
    BY <1>0, <1>3, <2>2, MulSucc
<1> QED
  BY <1>2, <1>4

\* AddPage lists the address, or leaves the list alone below 1 MiB.
LEMMA Listed ==
  ASSUME TypeOK, AddPage
  PROVE  IF phys_addr < LOW_MEMORY THEN page_list' = page_list
         ELSE /\ Len(page_list') = Len(page_list) + 1
              /\ \A k \in 1 .. Len(page_list) : page_list'[k] = page_list[k]
              /\ page_list'[Len(page_list) + 1] = phys_addr
<1>1. CASE phys_addr < LOW_MEMORY
  BY <1>1 DEF AddPage
<1>2. CASE ~(phys_addr < LOW_MEMORY)
  <2>1. page_list' = Append(page_list, phys_addr) /\ page_list \in Seq(Nat) /\ phys_addr \in Nat
    BY <1>2, MapTypes DEF AddPage, TypeOK
  <2> QED
    BY <1>2, <2>1
<1> QED
  BY <1>1, <1>2

\* The types, and the bound of the inner loop: nothing is stored past the end of the list.
LEMMA MemoryTypeStep == ASSUME TypeOK, LoopInv, Next PROVE TypeOK' /\ LoopInv'
<1>0. /\ Len(memmap) \in Nat /\ Len(page_list) \in Nat /\ MAX_PAGES \in Nat /\ phys_addr \in Nat
      /\ n \in Nat /\ p \in Nat /\ page_count \in Nat
  BY MapTypes DEF TypeOK
<1>1. CASE SkipEntry
  BY <1>0, <1>1 DEF SkipEntry, TypeOK, LoopInv
<1>2. CASE UsableEntry
  <2>1. n \in 1 .. Len(memmap) /\ PAGE_SIZE \in Nat \ {0}
    BY <1>0, <1>2, PageSizes DEF UsableEntry, TypeOK
  <2>2. Entry.base \in Nat /\ Entry.length \in Nat
    BY <2>1, MapTypes DEF Entry
  <2>3. AlignOffset(Entry.base) \in Nat /\ Entry.length >= AlignOffset(Entry.base) /\ Entry.type = "usable"
    BY <1>2, <2>2, Aligned, Zenon DEF UsableEntry, HasPages
  <2>4. PICK x \in Nat : x = Entry.length - AlignOffset(Entry.base)
    BY <2>2, <2>3
  <2>5. base' \in Nat /\ page_count' \in Nat
    <3>1. PageCount(x) \in Nat
      BY Counted
    <3>2. base' = Entry.base + AlignOffset(Entry.base) /\ page_count' = PageCount(x)
      BY <1>2, <2>4 DEF UsableEntry
    <3> QED
      BY <2>2, <2>3, <3>1, <3>2
  <2>6. Entry' = Entry
    BY <1>2 DEF UsableEntry, Entry
  <2>7. LoopInv'
    BY <1>2, <2>1, <2>3, <2>5, <2>6 DEF UsableEntry, LoopInv, AlignOffset, PageCount
  <2> QED
    BY <1>2, <2>5, <2>7 DEF UsableEntry, TypeOK
<1>3. CASE AddPage
  <2>1. page_list' \in Seq(Nat) /\ Len(page_list') <= MAX_PAGES
    <3>1. page_list \in Seq(Nat) /\ Len(page_list) < MAX_PAGES
      BY <1>3 DEF AddPage, TypeOK
    <3>2. /\ Append(page_list, phys_addr) \in Seq(Nat)
          /\ Len(Append(page_list, phys_addr)) = Len(page_list) + 1
      BY <1>0, <3>1
    <3>3. page_list' = page_list \/ page_list' = Append(page_list, phys_addr)
      BY <1>3 DEF AddPage
    <3> QED
      BY <1>0, <3>1, <3>2, <3>3
  <2>2. LoopInv'
    BY <1>0, <1>3 DEF AddPage, LoopInv, Entry, AlignOffset, PageCount
  <2> QED
    BY <1>0, <1>3, <2>1, <2>2 DEF AddPage, TypeOK
<1>4. CASE ListFull
  BY <1>0, <1>4 DEF ListFull, TypeOK, LoopInv
<1>5. CASE EntryDone
  BY <1>0, <1>5 DEF EntryDone, TypeOK, LoopInv
<1>6. CASE MapDone
  BY <1>0, <1>6 DEF MapDone, TypeOK, LoopInv
<1> QED
  BY <1>1, <1>2, <1>3, <1>4, <1>5, <1>6 DEF Next

\* Definitions over the memory map alone keep their value while memory_init runs.
LEMMA MapKept ==
  ASSUME UNCHANGED memmap
  PROVE  /\ \A k : HoldsPage(k)' <=> HoldsPage(k)
         /\ \A k, a : Reaches(k, a)' <=> Reaches(k, a)
         /\ WholePages' <=> WholePages
         /\ \A k : (FirstUsable(k)' <=> FirstUsable(k)) /\ Start(k)' = Start(k)
BY DEF HoldsPage, Reaches, WholePages, FirstUsable, Start, Higher, AlignOffset

\* The end of an entry with a page: the loop has passed enough of them to fill the list.
LEMMA EntryFills ==
  ASSUME TypeOK, LoopInv, FillInv, EntryDone, HoldsPage(n)
  PROVE  Len(page_list) >= MAX_PAGES
<1> DEFINE L == Len(page_list)
           h == Higher(base, LOW_MEMORY)
<1>0. /\ pc = "page" /\ p \in Nat /\ base \in Nat /\ p = page_count /\ phys_addr = base + p * PAGE_SIZE
      /\ phys_addr <= h + L * PAGE_SIZE
  BY DEF EntryDone, TypeOK, LoopInv, FillInv, phys_addr
<1>1. PICK off \in Nat, x \in Nat : /\ off = AlignOffset(memmap[n].base) /\ memmap[n].length = off + x
                                    /\ page_count = PageCount(x)
  BY <1>0, LoopNumbers
<1>2. PAGE_SIZE \in Nat \ {0} /\ LOW_MEMORY \in Nat /\ MAX_PAGES \in Nat /\ KIB * KIB \in Nat /\ L \in Nat
  BY PageSizes, MapTypes
<1>3. x >= PAGE_SIZE
  BY <1>1, <1>2 DEF HoldsPage
<1>4. p >= KIB * KIB
  BY <1>0, <1>1, <1>3, Counted
<1>5. (KIB * KIB) * PAGE_SIZE <= p * PAGE_SIZE
  BY <1>0, <1>2, <1>4, MulMono
<1>6. h \in Nat /\ h <= base + LOW_MEMORY
  BY <1>0, <1>2 DEF Higher
<1> HIDE DEF L, h
<1>7. /\ L * PAGE_SIZE \in Nat /\ (L + 1) * PAGE_SIZE = L * PAGE_SIZE + PAGE_SIZE
      /\ MAX_PAGES * PAGE_SIZE \in Nat /\ p * PAGE_SIZE \in Nat /\ (KIB * KIB) * PAGE_SIZE \in Nat
  BY <1>0, <1>2, MulSucc
<1>8. MAX_PAGES * PAGE_SIZE + LOW_MEMORY <= (KIB * KIB) * PAGE_SIZE
  BY SizeAssumption
<1>9. MAX_PAGES * PAGE_SIZE <= L * PAGE_SIZE
  BY <1>0, <1>2, <1>5, <1>6, <1>7, <1>8
<1>10. ASSUME L + 1 <= MAX_PAGES PROVE FALSE
  <2>1. (L + 1) * PAGE_SIZE <= MAX_PAGES * PAGE_SIZE
    BY <1>2, <1>10, MulMono
  <2> QED
    BY <1>2, <1>7, <1>9, <2>1
<1> QED
  BY <1>2, <1>10 DEF L

\* Every step of memory_init keeps count of what the list must hold.
LEMMA FillStep == ASSUME TypeOK, LoopInv, FillInv, Next PROVE FillInv'
<1>0. /\ Len(memmap) \in Nat /\ Len(page_list) \in Nat /\ MAX_PAGES \in Nat /\ n \in Nat /\ p \in Nat
      /\ PAGE_SIZE \in Nat \ {0} /\ LOW_MEMORY \in Nat /\ base \in Nat /\ phys_addr \in Nat
      /\ \A k \in 1 .. Len(memmap) : memmap[k].base \in Nat /\ memmap[k].length \in Nat
  BY MapTypes DEF TypeOK
<1>1. CASE SkipEntry
  <2>1. n \in 1 .. Len(memmap) /\ ~(Len(page_list) > MAX_PAGES)
    BY <1>0, <1>1 DEF SkipEntry, TypeOK
  <2>2. AlignOffset(memmap[n].base) \in Nat
    BY <1>0, <2>1, Aligned, Zenon
  <2>3. ~HoldsPage(n)
    BY <1>0, <1>1, <2>1, <2>2 DEF SkipEntry, HasPages, HoldsPage, Entry
  <2>4. \A k \in 1 .. Len(memmap) : HoldsPage(k) /\ k < n + 1 => Len(page_list) >= MAX_PAGES
    BY <1>0, <2>3 DEF FillInv
  <2> QED
    BY <1>1, <2>4, MapKept DEF SkipEntry, FillInv
<1>2. CASE UsableEntry
  <2>1. base' \in Nat /\ p' = 0
    BY <1>2, MemoryTypeStep DEF Next, TypeOK, UsableEntry
  <2>2. phys_addr' = base' /\ Higher(base', LOW_MEMORY) >= base' /\ Higher(base', LOW_MEMORY) \in Nat
    <3>1. phys_addr' = base' + 0 * PAGE_SIZE /\ 0 * PAGE_SIZE = 0
      BY <1>0, <2>1 DEF phys_addr
    <3>2. phys_addr' = base'
      BY <2>1, <3>1
    <3>3. Higher(base', LOW_MEMORY) >= base' /\ Higher(base', LOW_MEMORY) \in Nat
      BY <1>0, <2>1 DEF Higher
    <3> QED
      BY <3>2, <3>3
  <2>3. Len(page_list) * PAGE_SIZE \in Nat
    BY <1>0, MulSucc
  <2>4. (phys_addr <= Higher(base, LOW_MEMORY) + Len(page_list) * PAGE_SIZE)'
    BY <1>2, <2>1, <2>2, <2>3 DEF UsableEntry, Higher
  <2> QED
    BY <1>2, <2>4, MapKept DEF UsableEntry, FillInv
<1>3. CASE AddPage
  <2>1. /\ phys_addr' = phys_addr + PAGE_SIZE
        /\ phys_addr < LOW_MEMORY => phys_addr + PAGE_SIZE <= LOW_MEMORY
    BY <1>3, Advance
  <2>2. phys_addr <= Higher(base, LOW_MEMORY) + Len(page_list) * PAGE_SIZE
    BY <1>3 DEF FillInv, AddPage
  <2>3. Higher(base, LOW_MEMORY) \in Nat /\ LOW_MEMORY <= Higher(base, LOW_MEMORY) /\ base' = base
    BY <1>0, <1>3 DEF Higher, AddPage
  <2>4. Len(page_list) * PAGE_SIZE \in Nat /\ (Len(page_list) + 1) * PAGE_SIZE = Len(page_list) * PAGE_SIZE + PAGE_SIZE
    BY <1>0, MulSucc
  <2>5. \/ phys_addr < LOW_MEMORY /\ Len(page_list') = Len(page_list)
        \/ Len(page_list') = Len(page_list) + 1
    BY <1>3, Listed
  <2>6. phys_addr' <= Higher(base, LOW_MEMORY) + Len(page_list') * PAGE_SIZE
    <3>1. CASE phys_addr < LOW_MEMORY /\ Len(page_list') = Len(page_list)
      BY <1>0, <2>1, <2>3, <2>4, <3>1
    <3>2. CASE Len(page_list') = Len(page_list) + 1
      <4>1. Len(page_list') * PAGE_SIZE = Len(page_list) * PAGE_SIZE + PAGE_SIZE
        BY <2>4, <3>2
      <4>2. phys_addr + PAGE_SIZE <= Higher(base, LOW_MEMORY) + (Len(page_list) * PAGE_SIZE + PAGE_SIZE)
        BY <1>0, <2>2, <2>3, <2>4
      <4> QED
        BY <2>1, <4>1, <4>2
    <3> QED
      BY <2>5, <3>1, <3>2
  <2>7. Len(page_list) < MAX_PAGES /\ memmap' = memmap /\ n' = n
    BY <1>3 DEF AddPage
  <2>8. Len(page_list') >= Len(page_list) /\ Len(page_list') \in Nat
    BY <1>0, <2>5
  <2>9. (\A k \in 1 .. Len(memmap) : HoldsPage(k) /\ k < n => Len(page_list) >= MAX_PAGES)'
    BY <1>0, <2>7, <2>8, MapKept DEF FillInv
  <2> QED
    BY <2>3, <2>6, <2>9 DEF FillInv, Higher
<1>4. CASE ListFull
  BY <1>4, MapKept DEF ListFull, FillInv
<1>5. CASE EntryDone
  <2>1. HoldsPage(n) => Len(page_list) >= MAX_PAGES
    BY <1>5, EntryFills
  <2>2. \A k \in 1 .. Len(memmap) : HoldsPage(k) /\ k < n + 1 => Len(page_list) >= MAX_PAGES
    BY <1>0, <2>1 DEF FillInv
  <2> QED
    BY <1>5, <2>2, MapKept DEF EntryDone, FillInv
<1>6. CASE MapDone
  BY <1>6, MapKept DEF MapDone, FillInv
<1> QED
  BY <1>1, <1>2, <1>3, <1>4, <1>5, <1>6 DEF Next

\* The address the inner loop is at lies in the stretch it covers.
LEMMA Reached ==
  ASSUME TypeOK, LoopInv, AddPage
  PROVE  n \in 1 .. Len(memmap) /\ Reaches(n, phys_addr) /\ phys_addr % PAGE_SIZE = 0
<1>0. pc = "page" /\ p \in Nat /\ base \in Nat /\ p < page_count /\ page_count \in Nat /\ memmap[n].type = "usable"
  BY DEF AddPage, TypeOK, LoopInv, Entry
<1>1. PICK off \in Nat, x \in Nat, c \in Nat :
        /\ off = AlignOffset(memmap[n].base) /\ memmap[n].length = off + x
        /\ base = memmap[n].base + off /\ page_count = PageCount(x)
        /\ phys_addr = c * PAGE_SIZE /\ n \in 1 .. Len(memmap)
  BY <1>0, LoopNumbers
<1>2. PAGE_SIZE \in Nat \ {0} /\ KIB * KIB \in Nat /\ memmap[n].base \in Nat
  BY <1>1, PageSizes, MapTypes
<1>3. page_count * PAGE_SIZE <= x * (KIB * KIB) /\ (p + 1) * PAGE_SIZE <= page_count * PAGE_SIZE
  <2>1. page_count * PAGE_SIZE <= x * (KIB * KIB)
    BY <1>1, Counted
  <2>2. p + 1 \in Nat /\ p + 1 <= page_count
    BY <1>0
  <2> QED
    BY <1>0, <1>2, <2>1, <2>2, MulMono
<1>4. /\ p * PAGE_SIZE \in Nat /\ (p + 1) * PAGE_SIZE = p * PAGE_SIZE + PAGE_SIZE
      /\ page_count * PAGE_SIZE \in Nat /\ x * (KIB * KIB) \in Nat
  BY <1>0, <1>1, <1>2, MulSucc
<1>5. memmap[n].base <= phys_addr /\ phys_addr + PAGE_SIZE <= memmap[n].base + off + x * (KIB * KIB)
  <2> DEFINE b == memmap[n].base
             u == p * PAGE_SIZE
             v == x * (KIB * KIB)
  <2>1. b \in Nat /\ u \in Nat /\ v \in Nat /\ u + PAGE_SIZE <= v
    BY <1>2, <1>3, <1>4
  <2>2. phys_addr = b + off + u
    <3>1. phys_addr = base + u /\ base = b + off
      BY <1>1 DEF phys_addr
    <3> QED
      BY <3>1
  <2> HIDE DEF b, u, v
  <2>3. b <= phys_addr /\ phys_addr + PAGE_SIZE <= b + off + v
    <3>1. off \in Nat /\ PAGE_SIZE \in Nat
      BY <1>2
    <3> QED
      BY <2>1, <2>2, <3>1
  <2> QED
    BY <2>3 DEF b, v
<1>6. x = memmap[n].length - AlignOffset(memmap[n].base)
  BY <1>1
<1>7. phys_addr % PAGE_SIZE = 0
  BY <1>1, <1>2, Multiple
<1> QED
  BY <1>0, <1>1, <1>5, <1>6, <1>7 DEF Reaches

\* Every step of memory_init lists only such addresses.
LEMMA BehindStep == ASSUME TypeOK, LoopInv, BehindUsable, Next PROVE BehindUsable'
<1>1. ASSUME UNCHANGED <<memmap, page_list>> PROVE BehindUsable'
  BY <1>1, MapKept DEF BehindUsable
<1>2. CASE AddPage /\ ~(phys_addr < LOW_MEMORY)
  <2>0. Len(page_list) \in Nat /\ phys_addr \in Nat /\ LOW_MEMORY \in Nat /\ memmap' = memmap
    BY <1>2, MapTypes DEF AddPage
  <2>1. /\ Len(page_list') = Len(page_list) + 1
        /\ \A k \in 1 .. Len(page_list) : page_list'[k] = page_list[k]
        /\ page_list'[Len(page_list) + 1] = phys_addr
    BY <1>2, Listed
  <2>2. n \in 1 .. Len(memmap) /\ Reaches(n, phys_addr) /\ phys_addr % PAGE_SIZE = 0 /\ phys_addr >= LOW_MEMORY
    BY <1>2, <2>0, Reached
  <2>3. ASSUME NEW k \in 1 .. Len(page_list')
        PROVE  /\ page_list'[k] % PAGE_SIZE = 0 /\ page_list'[k] >= LOW_MEMORY
               /\ \E j \in 1 .. Len(memmap) : Reaches(j, page_list'[k])
    <3>1. CASE k \in 1 .. Len(page_list)
      BY <2>1, <3>1 DEF BehindUsable
    <3>2. CASE k = Len(page_list) + 1
      BY <2>1, <2>2, <3>2
    <3> QED
      BY <2>0, <2>1, <3>1, <3>2
  <2> QED
    BY <2>0, <2>3, MapKept DEF BehindUsable
<1>3. CASE AddPage /\ phys_addr < LOW_MEMORY
  BY <1>1, <1>3 DEF AddPage
<1> QED
  BY <1>1, <1>2, <1>3 DEF Next, SkipEntry, UsableEntry, ListFull, EntryDone, MapDone

\* The first usable region of a map of whole pages holds a page, and the loops come to it
\* before they come to any other.
LEMMA FirstFills ==
  ASSUME TypeOK, LoopInv, FillInv, WholePages, NEW f \in 1 .. Len(memmap), FirstUsable(f)
  PROVE  /\ AlignOffset(memmap[f].base) = 0 /\ HoldsPage(f) /\ Start(f) \in Nat
         /\ memmap[f].base \in Nat /\ memmap[f].base <= Start(f) /\ LOW_MEMORY <= Start(f)
         /\ Start(f) = memmap[f].base \/ Start(f) = LOW_MEMORY
         /\ n > f => Len(page_list) >= MAX_PAGES
         /\ n <= Len(memmap) /\ memmap[n].type = "usable" => n >= f
<1>0. /\ memmap[f].base \in Nat /\ memmap[f].length \in Nat /\ PAGE_SIZE \in Nat \ {0} /\ LOW_MEMORY \in Nat
      /\ n \in Nat /\ n >= 1
  BY MapTypes DEF TypeOK
<1>1. memmap[f].base % PAGE_SIZE = 0 /\ memmap[f].length >= PAGE_SIZE /\ memmap[f].type = "usable"
  BY DEF WholePages, FirstUsable
<1>2. AlignOffset(memmap[f].base) = 0
  BY <1>1 DEF AlignOffset
<1>3. HoldsPage(f)
  BY <1>0, <1>1, <1>2 DEF HoldsPage
<1>4. n > f => Len(page_list) >= MAX_PAGES
  BY <1>0, <1>3 DEF FillInv
<1>5. n < f => memmap[n].type # "usable"
  BY <1>0 DEF FirstUsable
<1>6. /\ Start(f) \in Nat /\ memmap[f].base <= Start(f) /\ LOW_MEMORY <= Start(f)
      /\ Start(f) = memmap[f].base \/ Start(f) = LOW_MEMORY
  BY <1>0 DEF Start, Higher
<1> QED
  BY <1>0, <1>2, <1>3, <1>4, <1>5, <1>6

\* A page is listed: it is the next one of the run.
LEMMA RunAdd ==
  ASSUME TypeOK, LoopInv, FillInv, OneRun, RunInv, AddPage,
         WholePages, NEW f \in 1 .. Len(memmap), FirstUsable(f)
  PROVE  /\ n = f
         /\ \A k \in 1 .. Len(page_list') : page_list'[k] = Start(f) + (k - 1) * PAGE_SIZE
         /\ \/ Len(page_list') = 0 /\ phys_addr' <= Start(f)
            \/ phys_addr' = Start(f) + Len(page_list') * PAGE_SIZE
<1> DEFINE L == Len(page_list)
           S == Start(f)
<1>0. /\ L \in Nat /\ PAGE_SIZE \in Nat \ {0} /\ LOW_MEMORY \in Nat /\ phys_addr \in Nat /\ n \in Nat
      /\ MAX_PAGES \in Nat /\ Len(memmap) \in Nat /\ p * PAGE_SIZE \in Nat /\ base \in Nat
      /\ L < MAX_PAGES /\ pc = "page" /\ n <= Len(memmap) /\ memmap[n].type = "usable"
      /\ base = memmap[n].base + AlignOffset(memmap[n].base)
  BY MapTypes DEF AddPage, LoopInv, Entry, TypeOK
<1>1. /\ AlignOffset(memmap[f].base) = 0 /\ S \in Nat /\ memmap[f].base \in Nat /\ LOW_MEMORY <= S
      /\ S = memmap[f].base \/ S = LOW_MEMORY
      /\ n > f => L >= MAX_PAGES
      /\ n <= Len(memmap) /\ memmap[n].type = "usable" => n >= f
  BY FirstFills
<1>2. n = f
  BY <1>0, <1>1
<1>3. phys_addr >= memmap[f].base
  BY <1>0, <1>1, <1>2 DEF phys_addr
<1>4. /\ phys_addr' = phys_addr + PAGE_SIZE
      /\ phys_addr < LOW_MEMORY => phys_addr + PAGE_SIZE <= LOW_MEMORY
  BY Advance
<1>5. \/ L = 0 /\ phys_addr <= S
      \/ phys_addr = S + L * PAGE_SIZE
  BY <1>0, <1>2 DEF RunInv
<1>6. \A k \in 1 .. L : page_list[k] = S + (k - 1) * PAGE_SIZE
  BY DEF OneRun
<1>7. L * PAGE_SIZE \in Nat /\ (L + 1) * PAGE_SIZE = L * PAGE_SIZE + PAGE_SIZE /\ 0 * PAGE_SIZE = 0
  BY <1>0, MulSucc
<1>8. CASE phys_addr < LOW_MEMORY
  <2>1. page_list' = page_list
    BY <1>8, Listed
  <2>2. L = 0
    BY <1>0, <1>1, <1>5, <1>7, <1>8
  <2>3. phys_addr' <= S
    BY <1>0, <1>1, <1>4, <1>8
  <2> QED
    BY <1>2, <1>6, <2>1, <2>2, <2>3
<1>9. CASE ~(phys_addr < LOW_MEMORY)
  <2>1. /\ Len(page_list') = L + 1
        /\ \A k \in 1 .. L : page_list'[k] = page_list[k]
        /\ page_list'[L + 1] = phys_addr
    BY <1>9, Listed
  <2>2. phys_addr = S + L * PAGE_SIZE
    BY <1>0, <1>1, <1>3, <1>5, <1>7, <1>9
  <2> HIDE DEF L, S
  <2>3. ASSUME NEW k \in 1 .. L + 1 PROVE page_list'[k] = S + (k - 1) * PAGE_SIZE
    <3>1. CASE k \in 1 .. L
      BY <1>6, <2>1, <3>1
    <3>2. CASE k = L + 1
      <4>1. k - 1 = L
        BY <1>0, <3>2
      <4> QED
        BY <2>1, <2>2, <3>2, <4>1
    <3> QED
      BY <1>0, <3>1, <3>2
  <2>4. phys_addr' = S + (L + 1) * PAGE_SIZE
    BY <1>0, <1>1, <1>4, <1>7, <2>2
  <2> QED
    BY <1>2, <2>1, <2>3, <2>4 DEF S
<1> QED
  BY <1>8, <1>9

\* Every step of memory_init continues the run.
LEMMA RunStep ==
  ASSUME TypeOK, LoopInv, FillInv, OneRun, RunInv, Next
  PROVE  OneRun' /\ RunInv'
<1>0. UNCHANGED memmap
  BY DEF Next, SkipEntry, UsableEntry, AddPage, ListFull, EntryDone, MapDone
<1> SUFFICES ASSUME WholePages, NEW f \in 1 .. Len(memmap), FirstUsable(f)
             PROVE  /\ \A k \in 1 .. Len(page_list') : page_list'[k] = Start(f) + (k - 1) * PAGE_SIZE
                    /\ n' < f \/ (n' = f /\ pc' = "entry") => Len(page_list') = 0
                    /\ n' = f /\ pc' = "page" => \/ Len(page_list') = 0 /\ phys_addr' <= Start(f)
                                                 \/ phys_addr' = Start(f) + Len(page_list') * PAGE_SIZE
  BY <1>0, MapKept DEF OneRun, RunInv
<1>1. /\ AlignOffset(memmap[f].base) = 0 /\ HoldsPage(f) /\ memmap[f].base \in Nat /\ memmap[f].base <= Start(f)
      /\ n > f => Len(page_list) >= MAX_PAGES
      /\ n <= Len(memmap) /\ memmap[n].type = "usable" => n >= f
  BY FirstFills
<1>2. /\ n \in Nat /\ Len(memmap) \in Nat /\ Len(page_list) <= MAX_PAGES /\ f \in Nat /\ f <= Len(memmap)
      /\ Len(page_list) \in Nat /\ MAX_PAGES \in Nat /\ PAGE_SIZE \in Nat \ {0}
  BY MapTypes DEF TypeOK
<1>3. /\ \A k \in 1 .. Len(page_list) : page_list[k] = Start(f) + (k - 1) * PAGE_SIZE
      /\ n < f \/ (n = f /\ pc = "entry") => Len(page_list) = 0
  BY DEF OneRun, RunInv
<1>4. CASE SkipEntry
  <2>1. n # f
    <3>1. memmap[f].type = "usable" /\ memmap[f].length \in Nat
      BY MapTypes DEF FirstUsable
    <3>2. n = f => HasPages
      BY <1>1, <1>2, <3>1 DEF HasPages, Entry
    <3> QED
      BY <1>4, <3>2 DEF SkipEntry
  <2> QED
    BY <1>2, <1>3, <1>4, <2>1 DEF SkipEntry
<1>5. CASE UsableEntry
  <2>1. n >= f /\ page_list' = page_list /\ n' = n /\ pc' = "page" /\ pc = "entry"
    BY <1>1, <1>5 DEF UsableEntry, HasPages, Entry
  <2>2. n = f => base' = memmap[f].base /\ p' = 0
    BY <1>1, <1>5 DEF UsableEntry, Entry
  <2>3. n = f => phys_addr' = memmap[f].base
    <3>1. 0 * PAGE_SIZE = 0
      BY <1>2
    <3> QED
      BY <1>1, <2>2, <3>1 DEF phys_addr
  <2> QED
    BY <1>1, <1>2, <1>3, <2>1, <2>3
<1>6. CASE AddPage
  <2>1. /\ n = f
        /\ \A k \in 1 .. Len(page_list') : page_list'[k] = Start(f) + (k - 1) * PAGE_SIZE
        /\ \/ Len(page_list') = 0 /\ phys_addr' <= Start(f)
           \/ phys_addr' = Start(f) + Len(page_list') * PAGE_SIZE
    BY <1>6, RunAdd
  <2>2. n' = n /\ pc' = "page"
    BY <1>6 DEF AddPage
  <2> QED
    BY <1>2, <2>1, <2>2
<1>7. CASE ListFull
  <2>1. n >= f /\ n' = n /\ pc' = "end" /\ page_list' = page_list
    BY <1>1, <1>7 DEF ListFull, LoopInv, Entry
  <2> QED
    BY <1>2, <1>3, <2>1
<1>8. CASE EntryDone
  <2>1. n >= f /\ n' = n + 1 /\ page_list' = page_list
    BY <1>1, <1>8 DEF EntryDone, LoopInv, Entry
  <2> QED
    BY <1>2, <1>3, <2>1
<1>9. CASE MapDone
  <2>1. n > f /\ n' = n /\ page_list' = page_list
    BY <1>2, <1>9 DEF MapDone
  <2> QED
    BY <1>2, <1>3, <2>1
<1> QED
  BY <1>4, <1>5, <1>6, <1>7, <1>8, <1>9 DEF Next

-------------------------------------------------------------------------------
(* kentry *)

\* The state in which kentry is entered satisfies the invariant.
LEMMA InitInv == StartupInit => Inv
<1> SUFFICES ASSUME StartupInit PROVE Inv
  OBVIOUS
<1>1. memmap \in Seq(Region) /\ memmap \in Memmaps
  BY MemmapAssumption DEF StartupInit, Init
<1>2. TypeOK
  BY <1>1, SizeAssumption DEF StartupInit, Init, TypeOK
<1>3. LoopInv /\ FillInv /\ BehindUsable /\ OneRun /\ RunInv
  BY <1>1 DEF StartupInit, Init, LoopInv, FillInv, BehindUsable, OneRun, RunInv
<1>4. StartupTypeOK
  <2>1. taken \in 0 .. Len(page_list)
    BY DEF StartupInit, Init
  <2>2. idt \in BOOLEAN /\ leaked \in BOOLEAN /\ gs \in BOOLEAN /\ fb_ptr \in BOOLEAN /\ vectors \subseteq 0 .. 255
    BY Zenon DEF StartupInit
  <2>3. missing \in Answers \cup {"none"} /\ acpi \in Rsdps /\ at = "kentry"
    BY DEF StartupInit
  <2> QED
    BY <1>2, <2>1, <2>2, <2>3 DEF StartupTypeOK
<1> QED
  BY <1>3, <1>4 DEF StartupInit, Init, Inv, StartInv, EndsForItsReason

\* Every step of kentry, memory_init and kmain preserves the invariant.
LEMMA NextInv == ASSUME Inv, [StartupNext]_allVars PROVE Inv'
<1>0. /\ Len(page_list) \in Nat /\ TABLE_PAGES \in Nat /\ USER_PAGES \in Nat /\ MMIO_PAGES \in Nat
      /\ taken \in Nat /\ taken <= Len(page_list)
  BY MapTypes, PagesAssumption DEF Inv, StartupTypeOK
<1>1. ASSUME UNCHANGED vars
      PROVE  TypeOK' /\ LoopInv' /\ FillInv' /\ BehindUsable' /\ OneRun' /\ RunInv'
  <2>1. TypeOK' /\ LoopInv'
    BY <1>1 DEF Inv, StartupTypeOK, vars, TypeOK, LoopInv, Entry, AlignOffset, PageCount
  <2>2. UNCHANGED memmap
    BY <1>1 DEF vars
  <2>3. FillInv' /\ BehindUsable'
    BY <1>1, <2>2, MapKept DEF Inv, vars, FillInv, BehindUsable, phys_addr, Higher
  <2>4. OneRun' /\ RunInv'
    BY <1>1, <2>2, MapKept DEF Inv, vars, OneRun, RunInv, phys_addr
  <2> QED
    BY <2>1, <2>3, <2>4
<1>2. ASSUME UNCHANGED vars, StartupTypeOK', StartInv', EndsForItsReason' PROVE Inv'
  BY <1>1, <1>2 DEF Inv
<1>3. CASE CheckAnswers
  BY <1>0, <1>1, <1>3
  DEF CheckAnswers, Panic, PageFault, Inv, StartupTypeOK, StartInv, EndsForItsReason, vars, Answers
<1>4. CASE InterruptInit
  BY <1>0, <1>1, <1>4 DEF InterruptInit, Inv, StartupTypeOK, StartInv, EndsForItsReason, vars
<1>5. CASE memory_init
  <2>1. TypeOK' /\ LoopInv' /\ FillInv' /\ BehindUsable' /\ OneRun' /\ RunInv'
    BY <1>5, MemoryTypeStep, FillStep, BehindStep, RunStep DEF memory_init, Inv, StartupTypeOK
  <2>2. Len(page_list') \in Nat
    BY <2>1 DEF TypeOK
  <2>3. UNCHANGED startupVars /\ at = "memory_init" /\ taken = 0
    BY <1>5 DEF memory_init, Inv, StartInv
  <2> QED
    BY <2>1, <2>2, <2>3 DEF Inv, StartupTypeOK, StartInv, EndsForItsReason, startupVars
<1>6. CASE virtual_memory_init
  BY <1>0, <1>1, <1>6
  DEF virtual_memory_init, GiveRawPages, Panic, PageFault, Inv, StartupTypeOK, StartInv, EndsForItsReason, vars
<1>7. CASE user_space_init
  BY <1>0, <1>1, <1>7
  DEF user_space_init, GiveRawPages, Panic, PageFault, Inv, StartupTypeOK, StartInv, EndsForItsReason, vars
<1>8. CASE setupbspcpudata
  <2>1. CASE taken < Len(page_list)
    BY <1>0, <1>1, <1>8, <2>1 DEF setupbspcpudata, Inv, StartupTypeOK, StartInv, EndsForItsReason, vars
  <2>2. CASE ~(taken < Len(page_list))
    BY <1>0, <1>1, <1>8, <2>2 DEF setupbspcpudata, PageFault, Inv, StartupTypeOK, StartInv, EndsForItsReason, vars
  <2> QED
    BY <2>1, <2>2
<1>9. CASE LoadDrivers
  BY <1>0, <1>1, <1>9 DEF LoadDrivers, Panic, PageFault, Rsdps, Inv, StartupTypeOK, StartInv, EndsForItsReason, vars
<1>10. CASE SendProcessors
  <2>1. taken' \in 0 .. Len(page_list) /\ page_list' = page_list
    BY <1>0, <1>10 DEF SendProcessors, vars
  <2>2. leaked' \in BOOLEAN /\ (leaked' => taken' = Len(page_list))
    BY <1>10, Zenon DEF SendProcessors
  <2> QED
    BY <1>0, <1>1, <1>10, <2>1, <2>2 DEF SendProcessors, Inv, StartupTypeOK, StartInv, EndsForItsReason, vars
<1>11. CASE JumpToWatchdog
  BY <1>0, <1>1, <1>11
  DEF JumpToWatchdog, GiveRawPages, Panic, PageFault, Inv, StartupTypeOK, StartInv, EndsForItsReason, vars
<1>12. CASE UNCHANGED allVars
  BY <1>1, <1>12 DEF allVars, startupVars, Inv, StartupTypeOK, StartInv, EndsForItsReason, vars
<1> QED
  BY <1>3, <1>4, <1>5, <1>6, <1>7, <1>8, <1>9, <1>10, <1>11, <1>12 DEF StartupNext

\* memory_init stores nothing beyond the end of page_list; what it stores are page addresses
\* from 1 MiB up, behind the start of a usable region; one usable page anywhere makes the
\* list full; and of a map of whole pages it is one run from the first usable region on,
\* each page once: for any memory map and any sizes that satisfy SizeAssumption.
THEOREM ListIsRight == StartupSpec => []PageListRight
<1>1. Inv => PageListRight
  <2> SUFFICES ASSUME Inv PROVE FillsUp
    BY DEF Inv, PageListRight
  <2>1. /\ Len(memmap) \in Nat /\ Len(page_list) \in Nat /\ MAX_PAGES \in Nat /\ n \in Nat
        /\ Len(page_list) <= MAX_PAGES
    BY MapTypes DEF Inv, StartupTypeOK, TypeOK
  <2> QED
    BY <2>1 DEF Inv, LoopInv, FillInv, FillsUp
<1>2. Inv /\ [StartupNext]_allVars => Inv'
  BY NextInv
<1> QED
  BY <1>1, <1>2, InitInv, PTL DEF StartupSpec

\* kentry restarts, stops or loses the CPU, or blocks it, only for the reason there is for
\* each, the ACPI tables among them, and reaches kmain only with all that the calls before
\* it set up: for any memory map, any missing answer, any tables and any numbers of pages.
THEOREM EndsExplained == StartupSpec => []EndsForItsReason
<1>1. Inv => EndsForItsReason
  BY DEF Inv
<1>2. Inv /\ [StartupNext]_allVars => Inv'
  BY NextInv
<1> QED
  BY <1>1, <1>2, InitInv, PTL DEF StartupSpec

-------------------------------------------------------------------------------
(* volume_read and its cache *)

\* A block of sectors, in units.
LEMMA InUnits ==
  ASSUME NEW q \in Nat, NEW b \in Nat, NEW x \in Nat, NEW r \in Nat
  PROVE  (q + b * x) * r = q * r + b * (x * r)
OBVIOUS

\* The clamped transfer still reaches the volume's end, or the block's.
LEMMA Clamped ==
  ASSUME NEW r \in Nat \ {0}, NEW x \in Nat \ {0}, NEW c \in Nat, NEW b \in Nat,
         NEW num \in Int, num = x \/ num = (c + r - 1) \div r - b * x,
         NEW i \in 0 .. x * r - 1, b * (x * r) + i < c
  PROVE  i < num * r
<1>1. PICK d \in Nat : d = (c + r - 1) \div r /\ c <= d * r
  <2>1. c + r - 1 \in Nat
    OBVIOUS
  <2>2. PICK d \in Nat, m \in Nat : d = (c + r - 1) \div r /\ m < r /\ c + r - 1 = d * r + m
    BY <2>1, DivMod
  <2>3. d * r \in Nat
    OBVIOUS
  <2> QED
    BY <2>2, <2>3
<1>2. CASE num = x
  BY <1>2
<1>3. CASE num = d - b * x
  <2>1. (d - b * x) * r = d * r - b * (x * r)
    OBVIOUS
  <2>2. d * r \in Nat /\ b * (x * r) \in Nat
    OBVIOUS
  <2> QED
    BY <1>1, <1>3, <2>1, <2>2
<1> QED
  BY <1>1, <1>2, <1>3

\* What is in a buffer behind which a chunk was copied.
LEMMA Continued ==
  ASSUME NEW s \in Seq(Int), NEW num \in Nat, NEW g \in [1 .. num -> Int]
  PROVE  /\ s \o g \in Seq(Int) /\ Len(s \o g) = Len(s) + num
         /\ \A i \in 1 .. Len(s) : (s \o g)[i] = s[i]
         /\ \A i \in 1 .. num : (s \o g)[Len(s) + i] = g[i]
<1>1. g \in Seq(Int) /\ Len(g) = num
  OBVIOUS
<1> QED
  BY <1>1

\* The sizes of a volume.
LEMMA Sizes ==
  ASSUME Reader!VolumesAreSized, vol \in Volumes
  PROVE  /\ vol.ratio \in Nat \ {0} /\ vol.xfer \in Nat \ {0} /\ vol.first \in Nat
         /\ vol.count \in Nat \cup {-1} /\ vol.device \in Nat
         /\ Reader!BlockUnits \in Nat \ {0} /\ Reader!BlockUnits = vol.xfer * vol.ratio
<1>1. vol \in Reader!Volume
  BY Zenon DEF Reader!VolumesAreSized
<1>2. /\ vol.ratio \in Nat \ {0} /\ vol.xfer \in Nat \ {0} /\ vol.first \in Nat
      /\ vol.count \in Nat \cup {-1} /\ vol.device \in Nat
  BY <1>1 DEF Reader!Volume, Reader!Unknown
<1> QED
  BY <1>2, Positive DEF Reader!BlockUnits

\* What cache_block has transferred is the medium, as far as the volume goes.
LEMMA Filled ==
  ASSUME Reader!VolumesAreSized, Reader!VReadTypes, NEW block \in Nat, NEW t, NEW d,
         t = Reader!Transfer(block), t.ok, d = Reader!disk_read_sectors(t)
  PROVE  /\ d \in [0 .. Reader!BlockUnits - 1 -> Int]
         /\ \A i \in 0 .. Reader!BlockUnits - 1 :
              vol.count = -1 \/ block * Reader!BlockUnits + i < vol.count =>
                d[i] = vol.first + block * Reader!BlockUnits + i
<1>0. /\ vol.ratio \in Nat \ {0} /\ vol.xfer \in Nat \ {0} /\ vol.first \in Nat
      /\ vol.count \in Nat \cup {-1} /\ vol.device \in Nat
      /\ Reader!BlockUnits \in Nat \ {0} /\ Reader!BlockUnits = vol.xfer * vol.ratio
  BY Sizes, Zenon DEF Reader!VReadTypes
<1>1. PICK r \in Nat \ {0}, x \in Nat \ {0}, f \in Nat, c \in Nat \cup {-1} :
        r = vol.ratio /\ x = vol.xfer /\ f = vol.first /\ c = vol.count
  BY <1>0, Zenon
<1> DEFINE B == x * r
<1>2. Reader!BlockUnits = B /\ B \in Nat \ {0}
  BY <1>0, <1>1, Zenon
<1>3. PICK q \in Nat : q = f \div r
  BY DivMod, Zenon
<1>4. /\ f % r = 0 /\ t.at = q + block * x
      /\ \/ c = -1 /\ t.n = x
         \/ c # -1 /\ t.n \in {x, q + (c + r - 1) \div r - (q + block * x)}
  <2>1. t = IF f % r # 0 THEN [ok |-> FALSE]
            ELSE IF c = -1 THEN [ok |-> TRUE, at |-> q + block * x, n |-> x]
            ELSE IF (q + (c + r - 1) \div r) - (q + block * x) <= 0 THEN [ok |-> FALSE]
            ELSE [ok |-> TRUE, at |-> q + block * x,
                  n |-> IF x > (q + (c + r - 1) \div r) - (q + block * x)
                        THEN (q + (c + r - 1) \div r) - (q + block * x) ELSE x]
    BY <1>1, <1>3, Zenon DEF Reader!Transfer, Reader!Unknown
  <2>2. t # [ok |-> FALSE]
    OBVIOUS
  <2> QED
    BY <2>1, <2>2
<1>5. vcache.data \in [0 .. B - 1 -> Int]
  BY <1>2, Zenon DEF Reader!VReadTypes
<1>6. PICK num \in Int, a \in Nat : num = t.n /\ a = t.at
  <2>1. c # -1 => (c + r - 1) \div r \in Int
    OBVIOUS
  <2> QED
    BY <1>4, <2>1
<1>7. d = [i \in 0 .. B - 1 |-> IF i < num * r THEN a * r + i ELSE vcache.data[i]]
  BY <1>1, <1>5, <1>6, Zenon DEF Reader!disk_read_sectors
<1>8. d \in [0 .. B - 1 -> Int]
  BY <1>5, <1>7
<1>9. ASSUME NEW i \in 0 .. B - 1, c = -1 \/ block * B + i < c PROVE d[i] = f + block * B + i
  <2>1. i < num * r
    <3>1. CASE c = -1
      BY <1>4, <1>6, <3>1
    <3>2. CASE c # -1
      <4>1. (c + r - 1) \div r \in Int
        BY <3>2
      <4>2. num = x \/ num = (c + r - 1) \div r - block * x
        BY <1>4, <1>6, <3>2, <4>1
      <4> QED
        BY <1>9, <3>2, <4>2, Clamped
    <3> QED
      BY <3>1, <3>2, Zenon
  <2>2. a * r = f + block * B
    <3>1. a * r = q * r + block * B
      BY <1>4, <1>6, InUnits
    <3>2. f = q * r + (f % r)
      BY <1>3, DivMod
    <3> QED
      BY <1>4, <3>1, <3>2
  <2>3. d[i] = a * r + i
    BY <1>7, <2>1, Zenon
  <2> QED
    BY <2>2, <2>3, Zenon
<1> QED
  BY <1>1, <1>2, <1>8, <1>9, Zenon

\* A chunk copied from a block that holds the medium continues the buffer.
LEMMA CopiedRight ==
  ASSUME Reader!VolumesAreSized, Reader!VReadTypes, Reader!CallInside, Reader!ReadsTheMedium,
         vread.st = "busy", NEW block, block = (vread.loc + Len(vread.buf)) \div Reader!BlockUnits,
         NEW data \in [0 .. Reader!BlockUnits - 1 -> Int],
         \A i \in 0 .. Reader!BlockUnits - 1 :
           vol.count = -1 \/ block * Reader!BlockUnits + i < vol.count =>
             data[i] = vol.first + block * Reader!BlockUnits + i,
         vread' = Reader!Copied(data), vol' = vol
  PROVE  /\ vread' \in [st : {"idle", "busy", "read", "failed", "refused"}, loc : Nat, count : Nat, buf : Seq(Int)]
         /\ Reader!CallInside' /\ Reader!ReadsTheMedium'
<1>0. /\ Reader!BlockUnits \in Nat \ {0} /\ vol.first \in Nat /\ vol.count \in Nat \cup {-1}
      /\ vread \in [st : {"idle", "busy", "read", "failed", "refused"}, loc : Nat, count : Nat, buf : Seq(Int)]
  BY Sizes, Zenon DEF Reader!VReadTypes
<1>1. vread.loc \in Nat /\ vread.count \in Nat /\ vread.buf \in Seq(Int)
  BY <1>0, Zenon
<1>2. PICK B \in Nat \ {0}, f \in Nat, c \in Nat \cup {-1}, loc \in Nat, count \in Nat, buf \in Seq(Int) :
        /\ B = Reader!BlockUnits /\ f = vol.first /\ c = vol.count
        /\ loc = vread.loc /\ count = vread.count /\ buf = vread.buf
  BY <1>0, <1>1, Zenon
<1>3. PICK len \in Nat : len = Len(buf)
  BY <1>2
<1>4. /\ len < count /\ (c # -1 => loc + count <= c)
      /\ \A i \in 1 .. len : buf[i] = f + loc + i - 1
  <2>1. /\ Len(vread.buf) < vread.count /\ (vol.count # -1 => vread.loc + vread.count <= vol.count)
    BY Zenon DEF Reader!CallInside, Reader!Unknown
  <2>2. \A i \in DOMAIN buf : buf[i] = f + loc + i - 1
    BY <1>2, Zenon DEF Reader!ReadsTheMedium
  <2>3. DOMAIN buf = 1 .. len
    BY <1>3
  <2> QED
    BY <1>2, <1>3, <2>1, <2>2, <2>3, Zenon
<1>5. PICK offset \in 0 .. B - 1 : /\ offset = (loc + len) % B /\ block \in Nat
                                   /\ loc + len = block * B + offset
  <2>1. loc + len \in Nat
    OBVIOUS
  <2>2. block = (loc + len) \div B
    BY <1>2, <1>3, Zenon
  <2>3. PICK pos \in Nat : pos = loc + len
    BY <2>1, Zenon
  <2>4. pos \div B \in Nat /\ pos % B \in 0 .. B - 1 /\ pos = (pos \div B) * B + (pos % B)
    <3>1. /\ pos \div B \in Nat /\ pos % B \in Nat /\ pos % B < B
          /\ pos = (pos \div B) * B + (pos % B)
      BY DivMod, Zenon
    <3>2. \A k \in Nat : k < B => k \in 0 .. B - 1
      OBVIOUS
    <3> QED
      BY <3>1, <3>2, Zenon
  <2> QED
    BY <2>2, <2>3, <2>4, Zenon
<1> DEFINE chunk == IF count - len > B - offset THEN B - offset ELSE count - len
           piece == [i \in 1 .. chunk |-> data[offset + i - 1]]
<1>6. chunk \in Nat /\ chunk >= 1 /\ len + chunk <= count /\ offset + chunk <= B
  BY <1>4
<1>7. PICK new : /\ new = buf \o piece
                 /\ vread' = [vread EXCEPT !.buf = new, !.st = IF Len(new) = count THEN "read" ELSE "busy"]
  BY <1>2, <1>3, <1>5, Zenon DEF Reader!Copied
<1>8. data \in [0 .. B - 1 -> Int]
  BY <1>2, Zenon
<1>9. \A i \in 1 .. chunk : offset + i - 1 \in 0 .. B - 1
  BY <1>6
<1>10. piece \in [1 .. chunk -> Int]
  BY <1>8, <1>9, Zenon
<1>11. /\ new \in Seq(Int) /\ Len(new) = len + chunk
       /\ \A i \in 1 .. len : new[i] = buf[i]
       /\ \A i \in 1 .. chunk : new[len + i] = piece[i]
  <2> HIDE DEF piece, chunk
  <2>1. /\ buf \o piece \in Seq(Int) /\ Len(buf \o piece) = Len(buf) + chunk
        /\ \A i \in 1 .. Len(buf) : (buf \o piece)[i] = buf[i]
        /\ \A i \in 1 .. chunk : (buf \o piece)[Len(buf) + i] = piece[i]
    BY <1>6, <1>10, Continued, Zenon
  <2> QED
    BY <1>3, <1>7, <2>1, Zenon
<1>12. ASSUME NEW i \in 1 .. chunk PROVE new[len + i] = f + loc + (len + i) - 1
  <2>1. new[len + i] = data[offset + i - 1]
    BY <1>11, Zenon
  <2>2. PICK k \in 0 .. B - 1 : k = offset + i - 1
    BY <1>9, Zenon
  <2>a. PICK m \in Nat : m = block * B /\ loc + len = m + offset
    <3>1. block * B \in Nat
      BY <1>5
    <3> QED
      BY <1>5, <3>1, Zenon
  <2>b. m + k = loc + len + i - 1
    <3>1. loc + len = m + offset
      BY <2>a, Zenon
    <3> HIDE DEF chunk, piece
    <3>2. i \in Int
      BY <1>6
    <3> QED
      BY <2>2, <3>1, <3>2
  <2>3. c = -1 \/ block * B + k < c
    <3>1. c = -1 \/ m + k < c
      BY <1>4, <1>6, <2>b
    <3> QED
      BY <2>a, <3>1, Zenon
  <2>4. data[k] = f + block * B + k
    BY <1>2, <2>3, Zenon
  <2>5. f + block * B + k = f + loc + (len + i) - 1
    <3>1. f + m + k = f + loc + (len + i) - 1
      BY <2>b
    <3> QED
      BY <2>a, <3>1, Zenon
  <2> QED
    BY <2>1, <2>2, <2>4, <2>5, Zenon
<1>13. \A i \in DOMAIN new : new[i] = f + loc + i - 1
  <2> HIDE DEF chunk, piece
  <2> SUFFICES ASSUME NEW i \in 1 .. len + chunk PROVE new[i] = f + loc + i - 1
    BY <1>6, <1>11
  <2>1. CASE i <= len
    BY <1>4, <1>11, <2>1
  <2>2. CASE i > len
    <3>1. PICK j \in 1 .. chunk : i = len + j
      <4>1. i - len \in 1 .. chunk /\ i = len + (i - len)
        BY <1>6, <2>2
      <4> QED
        BY <4>1, Zenon
    <3> QED
      BY <1>12, <3>1, Zenon
  <2> QED
    BY <2>1, <2>2
<1>14. /\ vread'.loc = loc /\ vread'.count = count /\ vread'.buf = new
       /\ vread'.st \in {"read", "busy"} /\ (vread'.st = "busy" => Len(new) # count)
       /\ vread' \in [st : {"idle", "busy", "read", "failed", "refused"}, loc : Nat, count : Nat, buf : Seq(Int)]
  <2>1. PICK st \in {"read", "busy"} : /\ vread' = [vread EXCEPT !.buf = new, !.st = st]
                                       /\ st = IF Len(new) = count THEN "read" ELSE "busy"
    BY <1>7, Zenon
  <2>2. st = "busy" => Len(new) # count
    BY <2>1, Zenon
  <2> QED
    BY <1>0, <1>2, <1>11, <2>1, <2>2, Zenon
<1>15. Reader!CallInside'
  <2>1. Len(new) # count => Len(new) < count
    <3> HIDE DEF chunk, piece
    <3> QED
      BY <1>6, <1>11
  <2>2. vol'.count = c
    BY <1>2, Zenon
  <2> QED
    BY <1>4, <1>14, <2>1, <2>2, Zenon DEF Reader!CallInside, Reader!Unknown
<1>16. Reader!ReadsTheMedium'
  <2>1. vol'.count = c /\ vol'.first = f
    BY <1>2, Zenon
  <2> QED
    BY <1>4, <1>13, <1>14, <2>1, Zenon DEF Reader!ReadsTheMedium, Reader!Unknown
<1> QED
  BY <1>14, <1>15, <1>16, Zenon

\* A new volume has nothing in its cache.
LEMMA VReadStart == ASSUME Reader!VolumesAreSized, Reader!VReadInit PROVE Reader!VReadInv
<1>1. vol \in Volumes /\ vcache = [ready |-> FALSE, block |-> 0, data |-> [i \in 0 .. vol.xfer * vol.ratio - 1 |-> -1]]
      /\ vread = [st |-> "idle", loc |-> 0, count |-> 0, buf |-> <<>>]
  BY Zenon DEF Reader!VReadInit, Reader!Junk
<1>2. /\ vcache.ready = FALSE /\ vread.st = "idle" /\ vread.buf = <<>>
  BY <1>1, Zenon
<1>3. Reader!VReadTypes
  <2>1. [i \in 0 .. Reader!BlockUnits - 1 |-> -1] \in [0 .. Reader!BlockUnits - 1 -> Int]
    BY DEF Reader!BlockUnits
  <2>2. vcache \in [ready : BOOLEAN, block : Nat, data : [0 .. Reader!BlockUnits - 1 -> Int]]
    <3>1. PICK d \in [0 .. Reader!BlockUnits - 1 -> Int] : vcache = [ready |-> FALSE, block |-> 0, data |-> d]
      BY <1>1, <2>1, Zenon DEF Reader!BlockUnits
    <3>2. 0 \in Nat
      OBVIOUS
    <3> QED
      BY <3>1, <3>2, Zenon
  <2>3. vread \in [st : {"idle", "busy", "read", "failed", "refused"}, loc : Nat, count : Nat, buf : Seq(Int)]
    <3>1. 0 \in Nat /\ <<>> \in Seq(Int)
      OBVIOUS
    <3> QED
      BY <1>1, <3>1, Zenon
  <2> QED
    BY <1>1, <2>2, <2>3, Zenon DEF Reader!VReadTypes
<1>4. Reader!CacheHoldsTheMedium /\ Reader!CallInside
  BY <1>2, Zenon DEF Reader!CacheHoldsTheMedium, Reader!CallInside
<1>5. Reader!ReadsTheMedium
  <2>1. DOMAIN <<>> = {}
    OBVIOUS
  <2> QED
    BY <1>2, <2>1, Zenon DEF Reader!ReadsTheMedium
<1> QED
  BY <1>3, <1>4, <1>5, Zenon DEF Reader!VReadInv

\* Every step of volume_read keeps the invariant.
LEMMA VReadStep ==
  ASSUME Reader!VolumesAreSized, Reader!VReadInv, [Reader!VReadNext]_(Reader!vreadVars)
  PROVE  Reader!VReadInv'
<1> DEFINE Call == [st : {"idle", "busy", "read", "failed", "refused"}, loc : Nat, count : Nat, buf : Seq(Int)]
<1>0. /\ Reader!VReadTypes /\ Reader!CacheHoldsTheMedium /\ Reader!CallInside /\ Reader!ReadsTheMedium
      /\ vol \in Volumes /\ vread \in Call
      /\ vcache \in [ready : BOOLEAN, block : Nat, data : [0 .. Reader!BlockUnits - 1 -> Int]]
  BY Zenon DEF Reader!VReadInv, Reader!VReadTypes
<1>a. ASSUME vol' = vol PROVE Reader!BlockUnits' = Reader!BlockUnits
  BY <1>a, Zenon DEF Reader!BlockUnits
<1>b. ASSUME UNCHANGED <<vol, vcache>>
      PROVE  /\ Reader!CacheHoldsTheMedium'
             /\ vol' \in Volumes
             /\ vcache' \in [ready : BOOLEAN, block : Nat, data : [0 .. Reader!BlockUnits' - 1 -> Int]]
  BY <1>0, <1>a, <1>b, Zenon DEF Reader!CacheHoldsTheMedium
<1>c. DOMAIN <<>> = {} /\ <<>> \in Seq(Int) /\ Len(<<>>) = 0 /\ 0 \in Nat
  OBVIOUS
<1>1. CASE Reader!VolumeReadCall
  <2>1. UNCHANGED <<vol, vcache>>
    BY <1>1, Zenon DEF Reader!VolumeReadCall
  <2>2. PICK loc \in 0 .. vol.device, count \in 1 .. MaxCount, st \in {"refused", "busy"} :
          /\ vread' = [st |-> st, loc |-> loc, count |-> count, buf |-> <<>>]
          /\ st = "busy" => ~(vol.count # -1 /\ (loc >= vol.count \/ count > vol.count - loc))
    BY <1>1, Zenon DEF Reader!VolumeReadCall, Reader!Unknown
  <2>3. loc \in Nat /\ count \in Nat /\ count > 0 /\ (st = "busy" /\ vol.count # -1 => loc + count <= vol.count)
    BY <1>0, <2>2, Sizes
  <2>4. /\ vread'.st = st /\ vread'.loc = loc /\ vread'.count = count /\ vread'.buf = <<>> /\ vread' \in Call
        /\ st # "read"
    BY <1>c, <2>2, <2>3, Zenon
  <2>5. Reader!CallInside'
    BY <1>c, <2>1, <2>3, <2>4 DEF Reader!CallInside, Reader!Unknown
  <2>6. Reader!ReadsTheMedium'
    BY <1>c, <2>1, <2>4, Zenon DEF Reader!ReadsTheMedium
  <2> QED
    BY <1>b, <2>1, <2>4, <2>5, <2>6, Zenon DEF Reader!VReadInv, Reader!VReadTypes
<1>2. CASE Reader!CacheBlock
  <2> DEFINE block == (vread.loc + Len(vread.buf)) \div Reader!BlockUnits
             t == Reader!Transfer(block)
  <2>0. vol' = vol /\ vread.st = "busy" /\ block \in Nat
    <3>1. vread.loc \in Nat /\ vread.buf \in Seq(Int) /\ Reader!BlockUnits \in Nat \ {0}
      BY <1>0, Sizes, Zenon
    <3>2. PICK pos \in Nat : pos = vread.loc + Len(vread.buf)
      BY <3>1
    <3>3. pos \div Reader!BlockUnits \in Nat
      BY <3>1, DivMod, Zenon
    <3> QED
      BY <1>2, <3>2, <3>3, Zenon DEF Reader!CacheBlock
  <2>1. ASSUME vcache.ready, vcache.block = block, vread' = Reader!Copied(vcache.data), vcache' = vcache
        PROVE  Reader!VReadInv'
    <3>1. /\ vcache.data \in [0 .. Reader!BlockUnits - 1 -> Int]
          /\ \A i \in 0 .. Reader!BlockUnits - 1 :
               vol.count = -1 \/ block * Reader!BlockUnits + i < vol.count =>
                 vcache.data[i] = vol.first + block * Reader!BlockUnits + i
      BY <1>0, <2>1, Zenon DEF Reader!CacheHoldsTheMedium, Reader!Unknown
    <3>2. vread' \in Call /\ Reader!CallInside' /\ Reader!ReadsTheMedium'
      <4> HIDE DEF block
      <4>1. block = (vread.loc + Len(vread.buf)) \div Reader!BlockUnits
        BY Zenon DEF block
      <4> QED
        BY <1>0, <2>0, <2>1, <3>1, <4>1, CopiedRight, Zenon
    <3> QED
      BY <1>b, <2>0, <2>1, <3>2, Zenon DEF Reader!VReadInv, Reader!VReadTypes
  <2>2. ASSUME t.ok, vcache' = [ready |-> TRUE, block |-> block, data |-> Reader!disk_read_sectors(t)],
               vread' = Reader!Copied(vcache'.data)
        PROVE  Reader!VReadInv'
    <3>1. PICK d : d = Reader!disk_read_sectors(t)
      BY Zenon
    <3>2. /\ d \in [0 .. Reader!BlockUnits - 1 -> Int]
          /\ \A i \in 0 .. Reader!BlockUnits - 1 :
               vol.count = -1 \/ block * Reader!BlockUnits + i < vol.count =>
                 d[i] = vol.first + block * Reader!BlockUnits + i
      <4> HIDE DEF block, t
      <4>1. t = Reader!Transfer(block)
        BY Zenon DEF t
      <4>2. Reader!VReadTypes /\ block \in Nat /\ t.ok
        BY <1>0, <2>0, <2>2, Zenon
      <4> QED
        BY <3>1, <4>1, <4>2, Filled
    <3>3. vcache' = [ready |-> TRUE, block |-> block, data |-> d]
      BY <2>2, <3>1, Zenon
    <3>4. vcache'.data = d /\ vcache'.block = block
      BY <3>3, Zenon
    <3>5. vread' \in Call /\ Reader!CallInside' /\ Reader!ReadsTheMedium'
      <4>1. vread' = Reader!Copied(d)
        BY <2>2, <3>4, Zenon
      <4> HIDE DEF block
      <4>2. block = (vread.loc + Len(vread.buf)) \div Reader!BlockUnits
        BY Zenon DEF block
      <4> QED
        BY <1>0, <2>0, <3>2, <4>1, <4>2, CopiedRight, Zenon
    <3>6. Reader!CacheHoldsTheMedium'
      BY <1>a, <2>0, <3>2, <3>4, Zenon DEF Reader!CacheHoldsTheMedium, Reader!Unknown
    <3>7. vcache' \in [ready : BOOLEAN, block : Nat, data : [0 .. Reader!BlockUnits' - 1 -> Int]]
      BY <1>a, <2>0, <3>2, <3>3, Zenon
    <3> QED
      BY <1>0, <2>0, <3>5, <3>6, <3>7, Zenon DEF Reader!VReadInv, Reader!VReadTypes
  <2>3. ASSUME vcache' \in Reader!Spoilt, vread' = [vread EXCEPT !.st = "failed"] PROVE Reader!VReadInv'
    <3>1. /\ vread' \in Call /\ vread'.st = "failed" /\ vread'.buf = vread.buf /\ vread'.loc = vread.loc
      BY <1>0, <2>3, Zenon
    <3>2. /\ vcache' \in [ready : BOOLEAN, block : Nat, data : [0 .. Reader!BlockUnits - 1 -> Int]]
          /\ vcache'.ready = FALSE
      <4>1. DOMAIN vcache.data = 0 .. Reader!BlockUnits - 1
        BY <1>0, Zenon
      <4>2. -1 \in Int
        OBVIOUS
      <4>3. PICK d \in [0 .. Reader!BlockUnits - 1 -> Int] :
              vcache' = [vcache EXCEPT !.ready = FALSE] \/ vcache' = [vcache EXCEPT !.ready = FALSE, !.data = d]
        <5>1. [i \in DOMAIN vcache.data |-> -1] \in [0 .. Reader!BlockUnits - 1 -> Int]
          BY <4>1, <4>2, Zenon
        <5> QED
          BY <2>3, <5>1, Zenon DEF Reader!Spoilt, Reader!Junk
      <4>4. CASE vcache' = [vcache EXCEPT !.ready = FALSE]
        BY <1>0, <4>4, Zenon
      <4>5. CASE vcache' = [vcache EXCEPT !.ready = FALSE, !.data = d]
        BY <1>0, <4>5, Zenon
      <4> QED
        BY <4>3, <4>4, <4>5, Zenon
    <3>3. Reader!CacheHoldsTheMedium' /\ Reader!CallInside'
      BY <3>1, <3>2, Zenon DEF Reader!CacheHoldsTheMedium, Reader!CallInside
    <3>4. Reader!ReadsTheMedium'
      BY <1>0, <2>0, <3>1, Zenon DEF Reader!ReadsTheMedium
    <3> QED
      BY <1>0, <1>a, <2>0, <3>1, <3>2, <3>3, <3>4, Zenon DEF Reader!VReadInv, Reader!VReadTypes
  <2> QED
    BY <1>2, <2>1, <2>2, <2>3, Zenon DEF Reader!CacheBlock
<1>3. CASE Reader!VolumeReadReturn
  <2>1. UNCHANGED <<vol, vcache>> /\ vread' = [st |-> "idle", loc |-> 0, count |-> 0, buf |-> <<>>]
    BY <1>3, Zenon DEF Reader!VolumeReadReturn
  <2>2. vread' \in Call /\ vread'.st = "idle" /\ vread'.buf = <<>>
    BY <1>c, <2>1, Zenon
  <2>3. Reader!CallInside' /\ Reader!ReadsTheMedium'
    BY <1>c, <2>2, Zenon DEF Reader!CallInside, Reader!ReadsTheMedium
  <2> QED
    BY <1>b, <2>1, <2>2, <2>3, Zenon DEF Reader!VReadInv, Reader!VReadTypes
<1>4. CASE UNCHANGED Reader!vreadVars
  <2>1. UNCHANGED <<vol, vcache, vread>>
    BY <1>4, Zenon DEF Reader!vreadVars
  <2>2. Reader!CallInside' /\ Reader!ReadsTheMedium'
    BY <1>0, <2>1, Zenon DEF Reader!CallInside, Reader!ReadsTheMedium
  <2> QED
    BY <1>0, <1>b, <2>1, <2>2, Zenon DEF Reader!VReadInv, Reader!VReadTypes
<1> QED
  BY <1>1, <1>2, <1>3, <1>4, Zenon DEF Reader!VReadNext

\* Whatever the sizes of sectors, blocks and volumes, the places read and the
\* faults in between: volume_read hands out the volume's own bytes, none from a
\* stale, failed or shortened transfer and none from behind the volume's end.
THEOREM ReadsRight ==
  ASSUME Reader!VolumesAreSized
  PROVE  Reader!VReadSpec => []Reader!ReadsTheMedium
<1>1. Reader!VReadInit => Reader!VReadInv
  BY VReadStart, Zenon
<1>2. Reader!VReadInv /\ [Reader!VReadNext]_(Reader!vreadVars) => Reader!VReadInv'
  BY VReadStep, Zenon
<1>3. Reader!VReadInv => Reader!ReadsTheMedium
  BY Zenon DEF Reader!VReadInv
<1> QED
  BY <1>1, <1>2, <1>3, PTL DEF Reader!VReadSpec

-------------------------------------------------------------------------------
(* tftp_open *)

\* Packets in the order they are sent make up the file so far.
LEMMA Joined ==
  ASSUME NEW pos \in Nat, NEW num \in Nat
  PROVE  /\ [i \in 1 .. pos |-> i] \in Seq(Int)
         /\ [i \in 1 .. pos |-> i] \o [i \in 1 .. num |-> pos + i] = [i \in 1 .. pos + num |-> i]
<1> DEFINE s == [i \in 1 .. pos |-> i]
           g == [i \in 1 .. num |-> pos + i]
<1>1. s \in Seq(Int) /\ Len(s) = pos /\ g \in [1 .. num -> Int]
  OBVIOUS
<1>2. /\ \A i \in 1 .. pos : s[i] = i
      /\ \A i \in 1 .. num : g[i] = pos + i
  OBVIOUS
<1> HIDE DEF s, g
<1>3. PICK w : w = s \o g
  BY Zenon
<1>4. /\ w \in Seq(Int) /\ Len(w) = pos + num
      /\ \A i \in 1 .. pos : w[i] = s[i]
      /\ \A i \in 1 .. num : w[pos + i] = g[i]
  BY <1>1, <1>3, Continued, Zenon
<1>5. \A i \in 1 .. pos + num : w[i] = i
  <2> SUFFICES ASSUME NEW i \in 1 .. pos + num PROVE w[i] = i
    OBVIOUS
  <2>1. CASE i <= pos
    BY <1>2, <1>4, <2>1
  <2>2. CASE i > pos
    <3>1. PICK j \in 1 .. num : i = pos + j
      <4>1. i - pos \in 1 .. num /\ i = pos + (i - pos)
        BY <2>2
      <4> QED
        BY <4>1, Zenon
    <3> QED
      BY <1>2, <1>4, <3>1, Zenon
  <2> QED
    BY <2>1, <2>2
<1>6. w = [i \in 1 .. pos + num |-> i]
  BY <1>4, <1>5
<1> QED
  BY <1>1, <1>3, <1>6 DEF s, g

\* Before the size is asked for nothing has arrived and nothing is held.
LEMMA NetStart == ASSUME Net!NetInit PROVE Net!NetInv
<1>1. PICK b \in BOOLEAN : net = [bios |-> b, at |-> "ask", size |-> 0, progress |-> 0, data |-> <<>>]
  BY DEF Net!NetInit
<1>2. /\ 0 \in Nat /\ <<>> \in Seq(Int) /\ 0 <= 0 /\ <<>> = [i \in 1 .. 0 |-> i]
  OBVIOUS
<1>3. net \in Net!Call
  BY <1>1, <1>2, Zenon DEF Net!Call
<1>4. net.at = "ask" /\ net.size = 0 /\ net.progress = 0 /\ net.data = <<>> /\ remote = 0 /\ netHeld = {}
  BY <1>1, Zenon DEF Net!NetInit
<1>5. Net!Arrived /\ Net!HeldHere
  BY <1>2, <1>4, Zenon DEF Net!Arrived, Net!HeldHere
<1> QED
  BY <1>3, <1>5, Zenon DEF Net!NetInv

\* Every step of tftp_open keeps the invariant.
LEMMA NetStep ==
  ASSUME Net!NetSizes, Net!NetInv, [Net!NetNext]_(Net!netVars)
  PROVE  Net!NetInv'
<1>0. net \in Net!Call /\ Net!Arrived /\ Net!HeldHere
  BY Zenon DEF Net!NetInv
<1>1. net.size \in Nat /\ net.progress \in Nat /\ net.data \in Seq(Int)
  BY <1>0, Zenon DEF Net!Call
<1>a. Mtu \in Nat /\ MaxRemote \in Nat
  BY Zenon DEF Net!NetSizes
\* Steps that give up.
<1>b. ASSUME NEW end \in {"panic", "absent"}, net' = [net EXCEPT !.at = end], end = "absent" => netHeld' = {}
      PROVE  Net!NetInv'
  <2>1. /\ net' \in Net!Call /\ net'.at = end /\ net'.size = net.size /\ net'.progress = net.progress
        /\ net'.data = net.data
    BY <1>0, <1>b, Zenon DEF Net!Call
  <2>2. Net!Arrived'
    BY <1>0, <2>1, Zenon DEF Net!Arrived
  <2>3. Net!HeldHere'
    BY <1>b, <2>1, Zenon DEF Net!HeldHere
  <2> QED
    BY <2>1, <2>2, <2>3, Zenon DEF Net!NetInv
<1>2. CASE Net!AskSize
  <2>0. net.at = "ask" /\ remote' = remote /\ netHeld = {} /\ net.progress = 0 /\ remote = 0
    BY <1>0, <1>2, Zenon DEF Net!AskSize, Net!HeldHere, Net!Arrived
  <2>1. CASE net' = [net EXCEPT !.at = "absent"] /\ netHeld' = netHeld
    BY <1>b, <2>0, <2>1, Zenon
  <2>2. ASSUME NEW num \in 0 .. MaxRemote, NEW end \in {"open", "fetch"}, net' = [net EXCEPT !.at = end, !.size = num],
               netHeld' = {"handle", "path"} \cup (IF end = "open" THEN {} ELSE {"data"})
        PROVE  Net!NetInv'
    <3>1. num \in Nat /\ 0 <= num
      BY <1>a, <2>2
    <3>2. /\ net' \in Net!Call /\ net'.at = end /\ net'.size = num /\ net'.progress = net.progress
          /\ net'.data = net.data
      BY <1>0, <2>2, <3>1, Zenon DEF Net!Call
    <3>3. Net!Arrived'
      BY <1>0, <2>0, <3>1, <3>2, Zenon DEF Net!Arrived
    <3>4. /\ end = "open" => netHeld' = {"handle", "path"}
          /\ end = "fetch" => netHeld' = {"handle", "path", "data"}
      BY <2>2
    <3>5. Net!HeldHere'
      BY <2>2, <3>2, <3>4, Zenon DEF Net!HeldHere
    <3> QED
      BY <3>2, <3>3, <3>5, Zenon DEF Net!NetInv
  <2>3. ASSUME NEW num \in 0 .. MaxRemote,
               net' = [net EXCEPT !.at = IF net.bios THEN "open" ELSE "fetch", !.size = num],
               netHeld' = {"handle", "path"} \cup (IF net.bios THEN {} ELSE {"data"})
        PROVE  Net!NetInv'
    <3>1. "open" # "fetch"
      OBVIOUS
    <3>2. CASE net.bios
      BY <2>2, <2>3, <3>2, Zenon
    <3>3. CASE ~net.bios
      BY <2>2, <2>3, <3>1, <3>3, Zenon
    <3> QED
      BY <3>2, <3>3, Zenon
  <2> QED
    BY <1>2, <2>1, <2>3, Zenon DEF Net!AskSize
<1>3. CASE Net!OpenRemote
  <2>0. /\ net.at = "open" /\ remote' = remote /\ netHeld = {"handle", "path"} /\ net.progress = 0
        /\ remote = net.progress
    BY <1>0, <1>3, Zenon DEF Net!OpenRemote, Net!HeldHere, Net!Arrived
  <2>1. ASSUME net' = [net EXCEPT !.at = "absent"], netHeld' = netHeld \ {"path", "handle"} PROVE Net!NetInv'
    <3>1. netHeld' = {}
      BY <2>0, <2>1
    <3> QED
      BY <1>b, <2>1, <3>1, Zenon
  <2>2. ASSUME net' = [net EXCEPT !.at = "read"],
               netHeld' = netHeld \cup {"packet", "data"}
        PROVE  Net!NetInv'
    <3>1. /\ net' \in Net!Call /\ net'.at = "read" /\ net'.size = net.size /\ net'.progress = net.progress
          /\ net'.data = net.data
      BY <1>0, <2>2, Zenon DEF Net!Call
    <3>2. Net!Arrived'
      BY <1>0, <2>0, <3>1, Zenon DEF Net!Arrived
    <3>3. netHeld' = {"handle", "path", "packet", "data"}
      BY <2>0, <2>2
    <3>4. Net!HeldHere'
      BY <3>1, <3>3, Zenon DEF Net!HeldHere
    <3> QED
      BY <3>1, <3>2, <3>4, Zenon DEF Net!NetInv
  <2> QED
    BY <1>3, <2>1, <2>2, Zenon DEF Net!OpenRemote
<1>4. CASE Net!ReadPacket
  <2>0. /\ net.at = "read" /\ netHeld' = netHeld /\ netHeld = {"handle", "path", "packet", "data"}
        /\ remote = net.progress /\ net.data = [i \in 1 .. net.progress |-> i]
    BY <1>0, <1>4, Zenon DEF Net!ReadPacket, Net!HeldHere, Net!Arrived
  <2>1. CASE net' = [net EXCEPT !.at = "panic"]
    BY <1>b, <2>1, Zenon
  <2>2. ASSUME NEW num \in -1 .. Mtu + 1, ~(num < 1 \/ num > Mtu \/ num > net.size - net.progress),
               net' = [net EXCEPT !.progress = @ + num, !.data = @ \o [i \in 1 .. num |-> remote + i]],
               remote' = remote + num
        PROVE  Net!NetInv'
    <3>1. num \in Nat /\ net.progress + num \in Nat /\ net.progress + num <= net.size
      BY <1>1, <1>a, <2>2
    <3>2. PICK d : d = net.data \o [i \in 1 .. num |-> net.progress + i]
      BY Zenon
    <3>3. d \in Seq(Int) /\ d = [i \in 1 .. net.progress + num |-> i]
      <4>1. PICK pos \in Nat : pos = net.progress
        BY <1>1, Zenon
      <4>2. [i \in 1 .. pos |-> i] \o [i \in 1 .. num |-> pos + i] = [i \in 1 .. pos + num |-> i]
        BY <3>1, Joined
      <4>3. pos + num \in Nat
        BY <3>1, <4>1, Zenon
      <4>4. [i \in 1 .. pos + num |-> i] \in Seq(Int)
        BY <4>3, Joined
      <4> QED
        BY <2>0, <3>2, <4>1, <4>2, <4>4, Zenon
    <3>4. net' = [net EXCEPT !.progress = net.progress + num, !.data = d]
      BY <2>0, <2>2, <3>2, Zenon
    <3>5. /\ net' \in Net!Call /\ net'.at = "read" /\ net'.size = net.size
          /\ net'.progress = net.progress + num /\ net'.data = d
      <4>1. PICK m \in Nat : m = net.progress + num
        BY <3>1, Zenon
      <4>2. d \in Seq(Int) /\ net' = [net EXCEPT !.progress = m, !.data = d]
        BY <3>3, <3>4, <4>1, Zenon
      <4>3. net' \in Net!Call /\ net'.at = net.at /\ net'.size = net.size /\ net'.progress = m /\ net'.data = d
        BY <1>0, <4>2, Zenon DEF Net!Call
      <4> QED
        BY <2>0, <4>1, <4>3, Zenon
    <3>6. remote' = net.progress + num
      BY <2>0, <2>2, Zenon
    <3>7. Net!Arrived'
      BY <3>1, <3>3, <3>5, <3>6, Zenon DEF Net!Arrived
    <3>8. Net!HeldHere'
      BY <2>0, <3>5, Zenon DEF Net!HeldHere
    <3> QED
      BY <3>5, <3>7, <3>8, Zenon DEF Net!NetInv
  <2> QED
    BY <1>4, <2>1, <2>2, Zenon DEF Net!ReadPacket
<1>5. CASE Net!CloseRemote
  <2>0. /\ net.at = "read" /\ remote' = remote /\ netHeld = {"handle", "path", "packet", "data"}
        /\ net.progress <= net.size /\ net.progress >= net.size
    BY <1>0, <1>5, Zenon DEF Net!CloseRemote, Net!HeldHere, Net!Arrived
  <2>1. CASE net' = [net EXCEPT !.at = "panic"]
    BY <1>b, <2>1, Zenon
  <2>2. ASSUME net' = [net EXCEPT !.at = "file"], netHeld' = netHeld \ {"packet"} PROVE Net!NetInv'
    <3>1. net.progress = net.size
      BY <1>1, <2>0
    <3>2. /\ net' \in Net!Call /\ net'.at = "file" /\ net'.size = net.size /\ net'.progress = net.progress
          /\ net'.data = net.data
      BY <1>0, <2>2, Zenon DEF Net!Call
    <3>3. Net!Arrived'
      BY <1>0, <3>1, <3>2, Zenon DEF Net!Arrived
    <3>4. netHeld' = {"handle", "path", "data"}
      BY <2>0, <2>2
    <3>5. Net!HeldHere'
      BY <3>2, <3>4, Zenon DEF Net!HeldHere
    <3> QED
      BY <3>2, <3>3, <3>5, Zenon DEF Net!NetInv
  <2> QED
    BY <1>5, <2>1, <2>2, Zenon DEF Net!CloseRemote
<1>6. CASE Net!Fetch
  <2>0. /\ net.at = "fetch" /\ remote' = remote /\ netHeld = {"handle", "path", "data"}
    BY <1>0, <1>6, Zenon DEF Net!Fetch, Net!HeldHere
  <2>1. ASSUME net' = [net EXCEPT !.at = "absent"], netHeld' = netHeld \ {"data", "path", "handle"}
        PROVE  Net!NetInv'
    <3>1. netHeld' = {}
      BY <2>0, <2>1
    <3> QED
      BY <1>b, <2>1, <3>1, Zenon
  <2>2. ASSUME NEW num, num = net.size, net' = [net EXCEPT !.at = "file", !.progress = num, !.data = [i \in 1 .. num |-> i]],
               netHeld' = netHeld
        PROVE  Net!NetInv'
    <3>1. PICK d \in Seq(Int) : d = [i \in 1 .. num |-> i]
      <4>1. num \in Nat
        BY <1>1, <2>2, Zenon
      <4>2. [i \in 1 .. num |-> i] \in Seq(Int)
        BY <4>1, Joined
      <4> QED
        BY <4>2, Zenon
    <3>2. /\ net' \in Net!Call /\ net'.at = "file" /\ net'.size = num /\ net'.progress = num /\ net'.data = d
      <4>1. net' = [net EXCEPT !.at = "file", !.progress = num, !.data = d]
        BY <2>2, <3>1, Zenon
      <4> QED
        BY <1>0, <1>1, <2>2, <4>1, Zenon DEF Net!Call
    <3>3. num <= num
      BY <1>1, <2>2
    <3>4. Net!Arrived' /\ Net!HeldHere'
      BY <2>0, <2>2, <3>1, <3>2, <3>3, Zenon DEF Net!Arrived, Net!HeldHere
    <3> QED
      BY <3>2, <3>4, Zenon DEF Net!NetInv
  <2> QED
    BY <1>6, <2>1, <2>2, Zenon DEF Net!Fetch
<1>7. CASE UNCHANGED Net!netVars
  <2>1. UNCHANGED <<net, remote, netHeld>>
    BY <1>7, Zenon DEF Net!netVars
  <2> QED
    BY <1>0, <2>1, Zenon DEF Net!NetInv, Net!Arrived, Net!HeldHere
<1> QED
  BY <1>2, <1>3, <1>4, <1>5, <1>6, <1>7, Zenon DEF Net!NetNext

\* A file tftp_open returns is the whole file the server sent, in order, however
\* its packets were cut and whatever their size; one it gives up leaves nothing
\* allocated.
THEOREM TransferredRight ==
  ASSUME Net!NetSizes
  PROVE  Net!NetSpec => []Net!TransfersRight
<1>1. Net!NetInit => Net!NetInv
  BY NetStart, Zenon
<1>2. Net!NetInv /\ [Net!NetNext]_(Net!netVars) => Net!NetInv'
  BY NetStep, Zenon
<1>3. Net!NetInv => Net!TransfersRight
  BY Zenon DEF Net!NetInv, Net!Arrived, Net!HeldHere, Net!TransfersRight
<1> QED
  BY <1>1, <1>2, <1>3, PTL DEF Net!NetSpec

===============================================================================
