--------------------------- MODULE PageTablesLemmas ---------------------------
(***************************************************************************)
(* Proofs about PageTables, for tables of any even size, any tables of the *)
(* boot loader, any windows at the end of the address space and any number *)
(* of pages.                                                               *)
(***************************************************************************)
EXTENDS PageTables, TLAPS

-------------------------------------------------------------------------------
(* Addresses and their indices *)

\* Quotient and remainder, as an index is taken from an address.
LEMMA Division ==
  ASSUME NEW m \in Nat \ {0}, NEW a \in Nat
  PROVE  a \div m \in Nat /\ a % m \in 0 .. m - 1 /\ a = (a \div m) * m + (a % m)
<1>1. a \div m \in Int /\ a \div m >= 0
  OBVIOUS
<1>2. a % m \in Int /\ a % m >= 0
  OBVIOUS
<1>3. a % m < m
  OBVIOUS
<1>4. a = m * (a \div m) + (a % m)
  OBVIOUS
<1>5. m * (a \div m) = (a \div m) * m
  BY <1>1
<1> QED
  BY <1>1, <1>2, <1>3, <1>4, <1>5

\* A product of naturals, and the next one.
LEMMA Product == ASSUME NEW a \in Nat, NEW b \in Nat PROVE a * b \in Nat /\ (a + 1) * b = a * b + b
OBVIOUS

\* Multiplication keeps the order.
LEMMA Monotone == ASSUME NEW m \in Nat, NEW a \in Nat, NEW b \in Nat, a <= b PROVE a * m <= b * m
<1>1. b * m = a * m + (b - a) * m
  OBVIOUS
<1>2. (b - a) * m >= 0
  OBVIOUS
<1> QED
  BY <1>1, <1>2

\* The quotient is the largest number of whole parts.
LEMMA Parts ==
  ASSUME NEW m \in Nat \ {0}, NEW a \in Nat, NEW q \in Nat
  PROVE  q <= a \div m <=> q * m <= a
<1> DEFINE d == a \div m
           r == a % m
<1>1. d \in Nat /\ r \in 0 .. m - 1 /\ a = d * m + r
  BY Division, Zenon
<1> HIDE DEF d, r
<1>2. d * m \in Nat /\ q * m \in Nat /\ (d + 1) * m = d * m + m
  BY <1>1, Product, Zenon
<1>3. ASSUME q <= d PROVE q * m <= a
  BY <1>1, <1>2, <1>3, Monotone
<1>4. ASSUME d + 1 <= q PROVE ~(q * m <= a)
  <2>1. (d + 1) * m <= q * m
    BY <1>1, <1>4, Monotone
  <2> QED
    BY <1>1, <1>2, <2>1
<1> QED
  BY <1>1, <1>3, <1>4 DEF d

\* Two divisions in a row.
LEMMA Twice ==
  ASSUME NEW m \in Nat \ {0}, NEW n \in Nat \ {0}, NEW a \in Nat
  PROVE  (a \div m) \div n = a \div (n * m)
<1>0. n * m \in Nat \ {0}
  <2>1. 1 * m <= n * m
    BY Monotone
  <2> QED
    BY <2>1, Product
<1>1. PICK d \in Nat : d = a \div m
  BY Division, Zenon
<1>2. PICK e \in Nat : e = d \div n
  BY Division, Zenon
<1>3. PICK f \in Nat : f = a \div (n * m)
  BY <1>0, Division, Zenon
<1>4. ASSUME NEW q \in Nat PROVE q <= e <=> q <= f
  <2>1. q * n \in Nat /\ (q * n) * m = q * (n * m)
    BY Product
  <2>2. q <= e <=> q * n <= d
    BY <1>2, Parts, Zenon
  <2>3. q * n <= d <=> (q * n) * m <= a
    BY <1>1, <2>1, Parts, Zenon
  <2>4. q <= f <=> q * (n * m) <= a
    BY <1>0, <1>3, Parts, Zenon
  <2> QED
    BY <2>1, <2>2, <2>3, <2>4, Zenon
<1> QED
  BY <1>1, <1>2, <1>3, <1>4

\* What one entry covers at each level: N times as much as on the level below.
LEMMA Spans ==
  /\ N \in Nat \ {0} /\ N * N \in Nat \ {0} /\ N * N * N \in Nat \ {0}
  /\ \A l \in 1 .. 4 : Span[l] \in Nat \ {0}
  /\ Span[1] = 1 /\ Span[2] = N * Span[1] /\ Span[3] = N * Span[2] /\ Span[4] = N * Span[3]
  /\ Top = N * Span[4]
<1>1. N \in Nat \ {0}
  BY TableAssumption
<1>2. N * N \in Nat \ {0}
  BY <1>1
<1>3. N * N * N \in Nat \ {0}
  <2>1. 1 * N <= (N * N) * N
    BY <1>1, <1>2, Monotone
  <2> QED
    BY <1>1, <1>2, <2>1, Product
<1>4. N * N * N = N * (N * N) /\ N * N * N * N = N * (N * N * N)
  BY <1>1, <1>2, <1>3
<1> QED
  BY <1>1, <1>2, <1>3, <1>4 DEF Span, Top

\* The index map_page takes from an address is one of the table's.
LEMMA IndexIn == \A v \in Nat : \A l \in 1 .. 4 : EntryIndex(l, v) \in Index
<1> TAKE v \in Nat, l \in 1 .. 4
<1>1. v \div Span[l] \in Nat
  BY Spans, Division, Zenon
<1> QED
  BY <1>1, Spans, Division, Zenon DEF EntryIndex, Index

\* An address is what its four indices say: map_page's four shifts lose nothing.
LEMMA SameAddress ==
  ASSUME NEW v \in Address, NEW w \in Address, \A k \in 1 .. 4 : EntryIndex(k, v) = EntryIndex(k, w)
  PROVE  v = w
<1>0. Address \subseteq Nat
  BY DEF Address
<1>1. ASSUME NEW a \in Address PROVE a \div Span[4] = EntryIndex(4, a)
  <2>0. a \in Nat /\ Span[4] \in Nat \ {0} /\ a \div Span[4] \in Nat
    BY <1>0, Spans, Division
  <2>1. PICK q \in Nat : q = a \div Span[4]
    BY <2>0, Zenon
  <2>2. ~(N <= q)
    <3>1. N <= q <=> N * Span[4] <= a
      BY <1>0, <2>1, Spans, Parts
    <3> QED
      BY <3>1, Spans DEF Address
  <2>3. q % N = q
    BY <2>2, Spans
  <2> QED
    BY <2>1, <2>3, Zenon DEF EntryIndex
<1>2. ASSUME NEW a \in Nat, NEW l \in 1 .. 3
      PROVE  a \div Span[l] = (a \div Span[l + 1]) * N + EntryIndex(l, a)
  <2>0. Span[l] \in Nat \ {0} /\ a \div Span[l] \in Nat
    <3>1. Span[l] \in Nat \ {0}
      BY Spans
    <3> QED
      BY <3>1, Division, Zenon
  <2>1. PICK q \in Nat : q = a \div Span[l]
    BY <2>0, Zenon
  <2>2. q \div N = a \div Span[l + 1]
    <3>1. (a \div Span[l]) \div N = a \div (N * Span[l])
      BY Spans, Twice
    <3>2. Span[l + 1] = N * Span[l]
      BY Spans
    <3> QED
      BY <2>1, <3>1, <3>2, Zenon
  <2>3. q = (q \div N) * N + (q % N)
    BY Spans, Division, Zenon
  <2> QED
    BY <2>1, <2>2, <2>3, Zenon DEF EntryIndex
<1>3. v \div Span[4] = w \div Span[4]
  BY <1>1
<1>4. v \div Span[3] = w \div Span[3]
  BY <1>0, <1>2, <1>3
<1>5. v \div Span[2] = w \div Span[2]
  BY <1>0, <1>2, <1>4
<1>6. v \div Span[1] = w \div Span[1]
  BY <1>0, <1>2, <1>5
<1> QED
  BY <1>0, <1>6, Spans

\* Where the constants of memory.h lie: the windows under the last entries, the user's
\* two pages in the lower half.
LEMMA Halves ==
  /\ UpperHalf \subseteq Index /\ N - 1 \in UpperHalf /\ Windows \subseteq Address
  /\ USER_CODE \in Address /\ USER_STACK \in Address
  /\ \A v \in {USER_CODE, USER_STACK} : EntryIndex(4, v) \in Index \ UpperHalf
  /\ \A v \in Windows : EntryIndex(4, v) = N - 1 /\ EntryIndex(3, v) = N - 1
  /\ Windows \cap {USER_CODE, USER_STACK} = {}
<1>1. N \div 2 \in Nat /\ N - 1 \in N \div 2 .. N - 1
  BY TableAssumption
<1>2. UpperHalf \subseteq Index /\ N - 1 \in UpperHalf
  BY <1>1, TableAssumption DEF UpperHalf, Index
<1>3. MMIO_BASE \in Address /\ USER_CODE \in Address /\ USER_STACK \in Address /\ Address \subseteq Nat
  BY TableAssumption DEF Address
<1>4. Windows \subseteq Address
  BY <1>3 DEF Windows, Address
<1>5. \A v \in {USER_CODE, USER_STACK} : EntryIndex(4, v) \in Index \ UpperHalf
  BY <1>3, TableAssumption, IndexIn
<1>6. \A v \in Windows : EntryIndex(4, v) = N - 1 /\ EntryIndex(3, v) = N - 1
  BY TableAssumption, Zenon
<1> QED
  BY <1>2, <1>3, <1>4, <1>5, <1>6, Zenon

-------------------------------------------------------------------------------
(* The tables of the boot loader *)

\* Each table of the boot loader has one level.
LEMMA BootLevels == BootLevel \in [DOMAIN BootTables -> 1 .. 4] /\ Layered(BootLevel)
<1>1. \E lev \in [DOMAIN BootTables -> 1 .. 4] : Layered(lev)
  BY BootAssumption, Zenon
<1> QED
  BY <1>1, Zenon DEF BootLevel

\* The tables of the boot loader are neither pages of page_list nor devices.
LEMMA BootFrames ==
  /\ BootPml4 \in DOMAIN BootTables /\ LastTable \in DOMAIN BootTables
  /\ \A f \in DOMAIN BootTables : f # None /\ \A k : f # Page(k) /\ f # <<"ecam", k>>
  /\ \A d \in Devices : d \notin DOMAIN BootTables /\ \A k : d # Page(k)
  /\ BootTables[BootPml4][N - 1].present /\ ~BootTables[LastTable][N - 1].present
BY BootAssumption DEF None, Page

\* The entries of the boot loader's tables are whole, and its leaves are not for user mode.
LEMMA BootEntries ==
  ASSUME NEW f \in DOMAIN BootTables, NEW x \in Index
  PROVE  /\ BootTables[f] = [y \in Index |-> BootTables[f][y]]
         /\ BootTables[f][x].present \in BOOLEAN /\ BootTables[f][x] # Junk
         /\ BootTables[f][x].present /\ (BootLevel[f] = 1 \/ BootTables[f][x].frame \notin DOMAIN BootTables)
              => ~BootTables[f][x].user
BY BootAssumption, Zenon

\* What an entry of the boot loader above level 1 names.
LEMMA BootBelow ==
  ASSUME NEW f \in DOMAIN BootTables, NEW x \in Index, BootLevel[f] > 1, BootTables[f][x].present
  PROVE  LET g == BootTables[f][x].frame IN
         /\ \A k : g # Page(k)
         /\ IF g \in DOMAIN BootTables THEN BootLevel[g] = BootLevel[f] - 1
            ELSE g \notin Devices /\ \A k : g # <<"ecam", k>>
<1>1. CASE BootTables[f][x].frame \in DOMAIN BootTables
  BY <1>1, BootLevels, BootFrames, Zenon DEF Layered
<1>2. CASE BootTables[f][x].frame \notin DOMAIN BootTables
  <2>1. BootTables[f][x].frame[1] \notin {"page", "ecam"} /\ BootTables[f][x].frame \notin Devices
    BY <1>2, BootLevels, Zenon DEF Layered
  <2> QED
    BY <1>2, <2>1 DEF Page
<1> QED
  BY <1>1, <1>2, Zenon

\* Where the two tables the code relies on stand: cr3's, and the one it extends.
LEMMA RootLevels == BootLevel[BootPml4] = 4 /\ BootLevel[LastTable] = 3
<1>1. BootLevel[BootPml4] = 4
  BY BootLevels, Zenon DEF Layered
<1>2. N - 1 \in Index
  BY Halves, Zenon
<1> QED
  BY <1>1, <1>2, BootFrames, BootBelow DEF LastTable

-------------------------------------------------------------------------------
(* Writes *)

\* The memory of the tables: those of the boot loader and the pages of page_list, apart.
LEMMA Shape ==
  ASSUME PoolInv
  PROVE  /\ DOMAIN mem = DOMAIN BootTables \cup PageList
         /\ \A f \in DOMAIN mem : mem[f] = [x \in Index |-> mem[f][x]]
         /\ DOMAIN BootTables \cap PageList = {} /\ None \notin DOMAIN mem
         /\ PageList = {Page(k) : k \in 0 .. pages - 1}
<1>1. mem = [f \in DOMAIN BootTables \cup PageList |-> [x \in Index |-> mem[f][x]]]
  BY Zenon DEF PoolInv
<1>2. /\ DOMAIN mem = DOMAIN BootTables \cup PageList
      /\ \A f \in DOMAIN mem : mem[f] = [x \in Index |-> mem[f][x]]
  BY <1>1, Zenon
<1>3. DOMAIN BootTables \cap PageList = {}
  BY BootFrames, Zenon DEF PageList
<1>4. None \notin DOMAIN BootTables /\ None \notin PageList
  BY BootFrames, Zenon DEF PageList, None, Page
<1> QED
  BY <1>2, <1>3, <1>4, Zenon DEF PageList

\* A whole page is written.
LEMMA Filled ==
  ASSUME PoolInv, NEW f \in DOMAIN mem, NEW c, c = [x \in Index |-> c[x]], mem' = [mem EXCEPT ![f] = c]
  PROVE  /\ mem' = [g \in DOMAIN BootTables \cup PageList |-> [x \in Index |-> mem'[g][x]]]
         /\ DOMAIN mem' = DOMAIN mem /\ mem'[f] = c
         /\ \A g \in DOMAIN mem : g # f => mem'[g] = mem[g]
<1>1. \A g \in DOMAIN mem : mem[g] = [x \in Index |-> mem[g][x]]
  BY Shape, Zenon
<1>2. mem' = [g \in DOMAIN mem |-> IF g = f THEN c ELSE mem[g]]
  BY Zenon
<1>3. mem'[f] = c /\ \A g \in DOMAIN mem : g # f => mem'[g] = mem[g]
  BY <1>2, Zenon
<1>4. \A g \in DOMAIN mem : mem'[g] = [x \in Index |-> mem'[g][x]]
  <2> TAKE g \in DOMAIN mem
  <2>1. CASE g = f
    BY <1>3, <2>1, Zenon
  <2>2. CASE g # f
    BY <1>1, <1>3, <2>2, Zenon
  <2> QED
    BY <2>1, <2>2, Zenon
<1>5. mem' = [g \in DOMAIN mem |-> mem'[g]]
  BY <1>2, Zenon
<1>6. mem' = [g \in DOMAIN BootTables \cup PageList |-> [x \in Index |-> mem'[g][x]]]
  BY <1>4, <1>5, Shape, Zenon
<1> QED
  BY <1>2, <1>3, <1>6, Zenon

\* LinkTable writes one entry.
LEMMA Linked ==
  ASSUME PoolInv, WalkInv, LinkTable
  PROVE  \E i \in Index :
         /\ i = EntryIndex(level, virt) /\ table \in DOMAIN mem
         /\ mem' = [g \in DOMAIN BootTables \cup PageList |-> [x \in Index |-> mem'[g][x]]]
         /\ DOMAIN mem' = DOMAIN mem /\ mem'[table][i] = Entry(page, TRUE)
         /\ \A g \in DOMAIN mem : \A x \in Index : (g # table \/ x # i) => mem'[g][x] = mem[g][x]
<1> DEFINE i == EntryIndex(level, virt)
<1>0. level \in 1 .. 4 /\ virt \in Nat /\ table \in DOMAIN mem
  BY DEF WalkInv, Address
<1>1. i \in Index
  BY <1>0, IndexIn, Zenon
<1>2. mem' = [mem EXCEPT ![table][i] = Entry(page, TRUE)]
  BY Zenon DEF LinkTable
<1>i. i = EntryIndex(level, virt)
  OBVIOUS
<1> HIDE DEF i
<1>3. \A g \in DOMAIN mem : mem[g] = [x \in Index |-> mem[g][x]]
  BY Shape, Zenon
<1>4. mem' = [g \in DOMAIN mem |-> IF g = table THEN [mem[table] EXCEPT ![i] = Entry(page, TRUE)] ELSE mem[g]]
  BY <1>2, Zenon
<1>5. [mem[table] EXCEPT ![i] = Entry(page, TRUE)] = [x \in Index |-> IF x = i THEN Entry(page, TRUE) ELSE mem[table][x]]
  BY <1>0, <1>3, Zenon
<1>6. mem'[table] = [x \in Index |-> IF x = i THEN Entry(page, TRUE) ELSE mem[table][x]]
  BY <1>0, <1>4, <1>5, Zenon
<1>7. DOMAIN mem' = DOMAIN mem /\ \A g \in DOMAIN mem : g # table => mem'[g] = mem[g]
  BY <1>4, Zenon
<1>8. \A g \in DOMAIN mem : mem'[g] = [x \in Index |-> mem'[g][x]]
  <2> TAKE g \in DOMAIN mem
  <2>1. CASE g = table
    BY <1>6, <2>1, Zenon
  <2>2. CASE g # table
    BY <1>3, <1>7, <2>2, Zenon
  <2> QED
    BY <2>1, <2>2, Zenon
<1>9. mem' = [g \in DOMAIN mem |-> mem'[g]]
  BY <1>4, Zenon
<1>10. mem' = [g \in DOMAIN BootTables \cup PageList |-> [x \in Index |-> mem'[g][x]]]
  BY <1>8, <1>9, Shape, Zenon
<1>11. mem'[table][i] = Entry(page, TRUE)
  BY <1>1, <1>6, Zenon
<1>12. \A g \in DOMAIN mem : \A x \in Index : (g # table \/ x # i) => mem'[g][x] = mem[g][x]
  BY <1>6, <1>7, Zenon
<1> QED
  BY <1>0, <1>1, <1>i, <1>7, <1>10, <1>11, <1>12, Zenon

\* StoreEntry writes one entry, if the one there is not present.
LEMMA Stored ==
  ASSUME PoolInv, WalkInv, StoreEntry, ~Slot.present
  PROVE  \E i \in Index :
         /\ i = EntryIndex(level, virt) /\ table \in DOMAIN mem
         /\ mem' = [g \in DOMAIN BootTables \cup PageList |-> [x \in Index |-> mem'[g][x]]]
         /\ DOMAIN mem' = DOMAIN mem /\ mem'[table][i] = Entry(phys, user)
         /\ \A g \in DOMAIN mem : \A x \in Index : (g # table \/ x # i) => mem'[g][x] = mem[g][x]
<1> DEFINE i == EntryIndex(level, virt)
<1>0. level \in 1 .. 4 /\ virt \in Nat /\ table \in DOMAIN mem
  BY DEF WalkInv, Address
<1>1. i \in Index
  BY <1>0, IndexIn, Zenon
<1>2. mem' = [mem EXCEPT ![table][i] = Entry(phys, user)]
  BY Zenon DEF StoreEntry
<1>i. i = EntryIndex(level, virt)
  OBVIOUS
<1> HIDE DEF i
<1>3. \A g \in DOMAIN mem : mem[g] = [x \in Index |-> mem[g][x]]
  BY Shape, Zenon
<1>4. mem' = [g \in DOMAIN mem |-> IF g = table THEN [mem[table] EXCEPT ![i] = Entry(phys, user)] ELSE mem[g]]
  BY <1>2, Zenon
<1>5. [mem[table] EXCEPT ![i] = Entry(phys, user)] = [x \in Index |-> IF x = i THEN Entry(phys, user) ELSE mem[table][x]]
  BY <1>0, <1>3, Zenon
<1>6. mem'[table] = [x \in Index |-> IF x = i THEN Entry(phys, user) ELSE mem[table][x]]
  BY <1>0, <1>4, <1>5, Zenon
<1>7. DOMAIN mem' = DOMAIN mem /\ \A g \in DOMAIN mem : g # table => mem'[g] = mem[g]
  BY <1>4, Zenon
<1>8. \A g \in DOMAIN mem : mem'[g] = [x \in Index |-> mem'[g][x]]
  <2> TAKE g \in DOMAIN mem
  <2>1. CASE g = table
    BY <1>6, <2>1, Zenon
  <2>2. CASE g # table
    BY <1>3, <1>7, <2>2, Zenon
  <2> QED
    BY <2>1, <2>2, Zenon
<1>9. mem' = [g \in DOMAIN mem |-> mem'[g]]
  BY <1>4, Zenon
<1>10. mem' = [g \in DOMAIN BootTables \cup PageList |-> [x \in Index |-> mem'[g][x]]]
  BY <1>8, <1>9, Shape, Zenon
<1>11. mem'[table][i] = Entry(phys, user)
  BY <1>1, <1>6, Zenon
<1>12. \A g \in DOMAIN mem : \A x \in Index : (g # table \/ x # i) => mem'[g][x] = mem[g][x]
  BY <1>6, <1>7, Zenon
<1> QED
  BY <1>0, <1>1, <1>i, <1>7, <1>10, <1>11, <1>12, Zenon

-------------------------------------------------------------------------------
(* The pool: contents, and what a page serves for *)

\* The page __giverawpage takes serves for nothing.
LEMMA Fresh ==
  ASSUME PoolInv, used < pages
  PROVE  /\ Page(used) \in PageList /\ Page(used) \in DOMAIN mem
         /\ home[Page(used)].level = -1 /\ Page(used) \notin taken
<1>1. used \in 0 .. pages - 1 /\ used \in used .. pages - 1
  BY DEF PoolInv
<1>2. Page(used) \in PageList
  BY <1>1, Zenon DEF PageList
<1> QED
  BY <1>1, <1>2, Shape, Zenon DEF PoolInv

\* Two entries of page_list are two pages.
LEMMA PageNumbers == \A j, k : Page(j) = Page(k) => j = k
BY Zenon DEF Page

\* __giverawpage hands out the pages in order, and a step takes at most the next one.
LEMMA PoolStep ==
  ASSUME Inv, Next
  PROVE  PoolInv' /\ PageList' = PageList
<1> USE DEF Inv
<1>p. PoolInv
  OBVIOUS
<1>0. /\ pages \in Nat /\ used \in 0 .. pages
      /\ mem = [f \in DOMAIN BootTables \cup PageList |-> [x \in Index |-> mem[f][x]]]
      /\ \A f \in DOMAIN mem : \A x \in Index : mem[f][x].present \in BOOLEAN
      /\ home \in [PageList -> [level : -1 .. 4, virt : Address]]
      /\ \A k \in used .. pages - 1 : home[Page(k)].level = -1 /\ Page(k) \notin taken
      /\ \A f \in taken : f \in PageList /\ home[f].level = -1
  BY Zenon DEF PoolInv
<1>1. pages' = pages
  BY Zenon DEF Next, map_page, user_space_init, WalkDown, GiveTable, ClearTable, LinkTable, StoreEntry, GetPml4,
         FillPml4, MapEcam, NextEcam, GetUserPml4, FillUserPml4, GetUserPage, MapUserPage, UserPageDone,
         GetBlock, MapMmio, MmioDone, TakePage, OutOfPages, GiveRawPage, poolVars
<1>2. PageList' = PageList
  BY <1>1, Zenon DEF PageList
<1> SUFFICES PoolInv'
  BY <1>2, Zenon
\* An old page is written, one that serves for nothing.
<1>3. ASSUME NEW f \in PageList, NEW c, c = [x \in Index |-> c[x]], \A x \in Index : c[x].present \in BOOLEAN,
             mem' = [mem EXCEPT ![f] = c]
      PROVE  /\ mem' = [g \in DOMAIN BootTables \cup PageList' |-> [x \in Index |-> mem'[g][x]]]
             /\ \A g \in DOMAIN mem' : \A x \in Index : mem'[g][x].present \in BOOLEAN
  <2>1. f \in DOMAIN mem
    BY Shape, Zenon
  <2>2. /\ mem' = [g \in DOMAIN BootTables \cup PageList |-> [x \in Index |-> mem'[g][x]]]
        /\ DOMAIN mem' = DOMAIN mem /\ mem'[f] = c
        /\ \A g \in DOMAIN mem : g # f => mem'[g] = mem[g]
    BY <1>3, <2>1, Filled, Zenon
  <2> QED
    BY <1>0, <1>2, <1>3, <2>2, Zenon
<1>4. ASSUME NEW f \in DOMAIN mem, NEW i \in Index, mem'[f][i].present \in BOOLEAN,
             mem' = [g \in DOMAIN BootTables \cup PageList |-> [x \in Index |-> mem'[g][x]]],
             DOMAIN mem' = DOMAIN mem,
             \A g \in DOMAIN mem : \A x \in Index : (g # f \/ x # i) => mem'[g][x] = mem[g][x]
      PROVE  /\ mem' = [g \in DOMAIN BootTables \cup PageList' |-> [x \in Index |-> mem'[g][x]]]
             /\ \A g \in DOMAIN mem' : \A x \in Index : mem'[g][x].present \in BOOLEAN
  <2>1. mem' = [g \in DOMAIN BootTables \cup PageList' |-> [x \in Index |-> mem'[g][x]]]
    BY <1>2, <1>4, Zenon
  <2>2. ASSUME NEW g \in DOMAIN mem', NEW x \in Index PROVE mem'[g][x].present \in BOOLEAN
    <3>1. CASE g = f /\ x = i
      BY <1>4, <3>1, Zenon
    <3>2. CASE g # f \/ x # i
      BY <1>0, <1>4, <3>2, Zenon
    <3> QED
      BY <3>1, <3>2, Zenon
  <2> QED
    BY <2>1, <2>2, Zenon
<1> DEFINE empty == [x \in Index |-> NotPresent]
<1>5. empty = [x \in Index |-> empty[x]] /\ \A x \in Index : empty[x].present \in BOOLEAN
  BY Zenon DEF NotPresent
<1>6. level \in 1 .. 4 /\ virt \in Nat /\ EntryIndex(level, virt) \in Index /\ table \in DOMAIN mem
  <2>1. level \in 1 .. 4 /\ virt \in Nat /\ table \in DOMAIN mem
    BY DEF WalkInv, Address
  <2> QED
    BY <2>1, IndexIn, Zenon
\* The steps that write nothing and keep what pages serve for.
<1>7. ASSUME UNCHANGED <<mem, home>>, taken' = taken, used' \in {used, used + 1}, used' <= pages
      PROVE  PoolInv'
  <2>1. used' \in 0 .. pages /\ \A k \in used' .. pages - 1 : k \in used .. pages - 1
    BY <1>0, <1>7
  <2> QED
    BY <1>0, <1>1, <1>2, <1>7, <2>1, Zenon DEF PoolInv
<1>8. ASSUME used' = used, taken' = taken, NEW h \in [level : -1 .. 4, virt : Address],
             page \in PageList \ taken, \E k \in 0 .. used - 1 : page = Page(k),
             home' = [home EXCEPT ![page] = h],
             mem' = [g \in DOMAIN BootTables \cup PageList' |-> [x \in Index |-> mem'[g][x]]],
             \A g \in DOMAIN mem' : \A x \in Index : mem'[g][x].present \in BOOLEAN
      PROVE  PoolInv'
  <2>1. home' \in [PageList' -> [level : -1 .. 4, virt : Address]]
    BY <1>0, <1>2, <1>8, Zenon
  <2>2. \A k \in used .. pages - 1 : Page(k) # page /\ Page(k) \in PageList
    BY <1>0, <1>8, PageNumbers DEF PageList
  <2>3. \A k \in used' .. pages' - 1 : home'[Page(k)].level = -1 /\ Page(k) \notin taken'
    BY <1>0, <1>1, <1>8, <2>2, Zenon
  <2>4. \A f \in taken' : f \in PageList' /\ home'[f].level = -1
    BY <1>0, <1>2, <1>8, Zenon
  <2> QED
    BY <1>0, <1>1, <1>8, <2>1, <2>3, <2>4, Zenon DEF PoolInv
<1>9. 0 \in Address /\ Address \subseteq Nat
  <2>1. Top \in Nat
    BY Spans, Product
  <2> QED
    BY <2>1, Halves DEF Address
<1>10. CASE WalkDown \/ GiveTable \/ GetPml4 \/ MapEcam \/ NextEcam \/ GetUserPml4 \/ MmioDone \/ OutOfPages
  <2>1. UNCHANGED <<mem, home, taken>>
    BY <1>10, Zenon
       DEF WalkDown, GiveTable, GetPml4, MapEcam, NextEcam, GetUserPml4, MmioDone, OutOfPages, GiveRawPage,
           poolVars, bootVars, rootVars
  <2>2. used' = used \/ (used < pages /\ used' = used + 1)
    BY <1>10, Zenon
       DEF WalkDown, GiveTable, GetPml4, MapEcam, NextEcam, GetUserPml4, MmioDone, OutOfPages, GiveRawPage,
           poolVars
  <2> QED
    BY <1>0, <1>7, <2>1, <2>2
<1>11. ASSUME NEW d \in Devices, MapMmio(d) PROVE PoolInv'
  BY <1>0, <1>7, <1>11 DEF MapMmio, poolVars, rootVars
<1>12. ASSUME NEW a, NEW v, NEW b, MapUserPage(a, v, b) \/ UserPageDone(a, b) PROVE PoolInv'
  <2>1. UNCHANGED <<mem, home, taken, used>>
    BY <1>12, Zenon DEF MapUserPage, UserPageDone, poolVars, rootVars
  <2> QED
    BY <1>0, <1>7, <2>1
<1>13. CASE ClearTable
  <2>1. page \in PageList /\ mem' = [mem EXCEPT ![page] = empty] /\ UNCHANGED <<used, taken, home>>
    BY <1>13, Zenon DEF ClearTable, Clear, WalkInv, poolVars, bootVars, rootVars
  <2> HIDE DEF empty
  <2>2. /\ mem' = [g \in DOMAIN BootTables \cup PageList' |-> [x \in Index |-> mem'[g][x]]]
        /\ \A g \in DOMAIN mem' : \A x \in Index : mem'[g][x].present \in BOOLEAN
    BY <1>3, <1>5, <2>1, Zenon
  <2> QED
    BY <1>0, <1>1, <1>2, <2>1, <2>2, Zenon DEF PoolInv
<1>14. CASE LinkTable
  <2>1. /\ page \in PageList \ taken /\ \E k \in 0 .. used - 1 : page = Page(k)
        /\ home' = [home EXCEPT ![page] = Home(level - 1, virt)]
        /\ used' = used /\ taken' = taken /\ level > 1
    BY <1>14, Zenon DEF LinkTable, WalkInv, poolVars
  <2>2. Home(level - 1, virt) \in [level : -1 .. 4, virt : Address]
    BY <1>6, <2>1 DEF Home, WalkInv
  <2>3. Entry(page, TRUE).present \in BOOLEAN
    BY Zenon DEF Entry
  <2>4. /\ mem' = [g \in DOMAIN BootTables \cup PageList' |-> [x \in Index |-> mem'[g][x]]]
        /\ \A g \in DOMAIN mem' : \A x \in Index : mem'[g][x].present \in BOOLEAN
    <3>1. PICK i \in Index :
            /\ i = EntryIndex(level, virt) /\ table \in DOMAIN mem
            /\ mem' = [g \in DOMAIN BootTables \cup PageList |-> [x \in Index |-> mem'[g][x]]]
            /\ DOMAIN mem' = DOMAIN mem /\ mem'[table][i] = Entry(page, TRUE)
            /\ \A g \in DOMAIN mem : \A x \in Index : (g # table \/ x # i) => mem'[g][x] = mem[g][x]
      BY <1>14, Linked, Zenon
    <3> QED
      BY <1>4, <2>3, <3>1, Zenon
  <2> QED
    BY <1>8, <2>1, <2>2, <2>4, Zenon
<1>15. CASE StoreEntry
  <2>1. used' = used /\ taken' = taken /\ home' = home
    BY <1>15, Zenon DEF StoreEntry, poolVars, bootVars, rootVars
  <2>2. CASE Slot.present
    <3>1. mem' = mem
      BY <1>15, <2>2, Zenon DEF StoreEntry
    <3> QED
      BY <1>0, <1>7, <2>1, <3>1
  <2>3. CASE ~Slot.present
    <3>1. Entry(phys, user).present \in BOOLEAN
      BY Zenon DEF Entry
    <3>2. /\ mem' = [g \in DOMAIN BootTables \cup PageList' |-> [x \in Index |-> mem'[g][x]]]
          /\ \A g \in DOMAIN mem' : \A x \in Index : mem'[g][x].present \in BOOLEAN
      <4>1. PICK i \in Index :
              /\ i = EntryIndex(level, virt) /\ table \in DOMAIN mem
              /\ mem' = [g \in DOMAIN BootTables \cup PageList |-> [x \in Index |-> mem'[g][x]]]
              /\ DOMAIN mem' = DOMAIN mem /\ mem'[table][i] = Entry(phys, user)
              /\ \A g \in DOMAIN mem : \A x \in Index : (g # table \/ x # i) => mem'[g][x] = mem[g][x]
        BY <1>15, <2>3, Stored, Zenon
      <4> QED
        BY <1>4, <3>1, <4>1, Zenon
    <3> QED
      BY <1>0, <1>1, <1>2, <2>1, <3>2, Zenon DEF PoolInv
  <2> QED
    BY <2>2, <2>3, Zenon
<1>16. ASSUME NEW r, r \in DOMAIN mem, page \in PageList \ taken, \E k \in 0 .. used - 1 : page = Page(k),
              CopyUpperHalf(page, r), home' = [home EXCEPT ![page] = Home(4, 0)], used' = used, taken' = taken
       PROVE  PoolInv'
  <2>1. PICK c : c = [x \in Index |-> IF x \in UpperHalf THEN mem[r][x] ELSE NotPresent]
    BY Zenon
  <2>2. c = [x \in Index |-> c[x]] /\ \A x \in Index : c[x].present \in BOOLEAN
    BY <1>0, <1>16, <2>1, Zenon DEF NotPresent
  <2>3. mem' = [mem EXCEPT ![page] = c]
    BY <1>16, <2>1, Zenon DEF CopyUpperHalf
  <2>4. /\ mem' = [g \in DOMAIN BootTables \cup PageList' |-> [x \in Index |-> mem'[g][x]]]
        /\ \A g \in DOMAIN mem' : \A x \in Index : mem'[g][x].present \in BOOLEAN
    BY <1>3, <1>16, <2>2, <2>3, Zenon
  <2>5. Home(4, 0) \in [level : -1 .. 4, virt : Address]
    BY <1>9 DEF Home
  <2> QED
    BY <1>8, <1>16, <2>4, <2>5, Zenon
<1>17. CASE FillPml4
  <2>1. page \in PageList \ taken /\ \E k \in 0 .. used - 1 : page = Page(k)
    BY <1>17, Zenon DEF FillPml4, WalkInv
  <2>2. BootPml4 \in DOMAIN mem
    BY Shape, BootFrames, Zenon
  <2>3. /\ CopyUpperHalf(page, BootPml4) /\ home' = [home EXCEPT ![page] = Home(4, 0)]
        /\ used' = used /\ taken' = taken
    BY <1>17, Zenon DEF FillPml4, poolVars
  <2> QED
    BY <1>16, <2>1, <2>2, <2>3, Zenon
<1>18. CASE FillUserPml4
  <2>1. page \in PageList \ taken /\ \E k \in 0 .. used - 1 : page = Page(k)
    BY <1>18, Zenon DEF FillUserPml4, WalkInv
  <2>2. newpml4 \in DOMAIN mem
    BY <1>18, Shape, Zenon DEF FillUserPml4, StageInv, RootInv
  <2>3. /\ CopyUpperHalf(page, newpml4) /\ home' = [home EXCEPT ![page] = Home(4, 0)]
        /\ used' = used /\ taken' = taken
    BY <1>18, Zenon DEF FillUserPml4, poolVars
  <2> QED
    BY <1>16, <2>1, <2>2, <2>3, Zenon
<1>19. ASSUME NEW a, NEW v \in Address, NEW b, GetUserPage(a, v, b) PROVE PoolInv'
  <2>1. /\ used < pages /\ used' = used + 1 /\ taken' = taken
        /\ mem' = [mem EXCEPT ![Page(used)] = empty] /\ home' = [home EXCEPT ![Page(used)] = Home(0, v)]
    BY <1>19, Zenon DEF GetUserPage, GiveRawPage, Clear
  <2>2. Page(used) \in PageList /\ Page(used) \notin taken
    BY <2>1, Fresh, Zenon
  <2> HIDE DEF empty
  <2>3. /\ mem' = [g \in DOMAIN BootTables \cup PageList' |-> [x \in Index |-> mem'[g][x]]]
        /\ \A g \in DOMAIN mem' : \A x \in Index : mem'[g][x].present \in BOOLEAN
    BY <1>3, <1>5, <2>1, <2>2, Zenon
  <2>4. Home(0, v) \in [level : -1 .. 4, virt : Address]
    BY <1>19 DEF Home
  <2>5. home' \in [PageList' -> [level : -1 .. 4, virt : Address]]
    BY <1>0, <1>2, <2>1, <2>4, Zenon
  <2>6. \A k \in used' .. pages - 1 : k \in used .. pages - 1 /\ Page(k) # Page(used) /\ Page(k) \in PageList
    BY <1>0, <2>1, PageNumbers DEF PageList
  <2>7. \A k \in used' .. pages' - 1 : home'[Page(k)].level = -1 /\ Page(k) \notin taken'
    BY <1>0, <1>1, <2>1, <2>6, Zenon
  <2>8. \A f \in taken' : f \in PageList' /\ home'[f].level = -1
    BY <1>0, <1>2, <2>1, <2>2, Zenon
  <2>9. used' \in 0 .. pages'
    BY <1>0, <1>1, <2>1
  <2> QED
    BY <1>0, <1>1, <2>3, <2>5, <2>7, <2>8, <2>9, Zenon DEF PoolInv
<1>20. ASSUME NEW c, c = [x \in Index |-> c[x]], \A x \in Index : c[x].present \in BOOLEAN,
              used < pages, mem' = [mem EXCEPT ![Page(used)] = c],
              taken' = taken \cup {Page(used)}, used' = used + 1, home' = home
       PROVE  PoolInv'
  <2>1. Page(used) \in PageList /\ Page(used) \notin taken /\ home[Page(used)].level = -1
    BY <1>20, Fresh, Zenon
  <2>2. /\ mem' = [g \in DOMAIN BootTables \cup PageList' |-> [x \in Index |-> mem'[g][x]]]
        /\ \A g \in DOMAIN mem' : \A x \in Index : mem'[g][x].present \in BOOLEAN
    BY <1>3, <1>20, <2>1, Zenon
  <2>3. \A k \in used' .. pages - 1 : k \in used .. pages - 1 /\ Page(k) # Page(used)
    BY <1>0, <1>20, PageNumbers
  <2>4. \A k \in used' .. pages' - 1 : home'[Page(k)].level = -1 /\ Page(k) \notin taken'
    BY <1>0, <1>1, <1>20, <2>3, Zenon
  <2>5. \A f \in taken' : f \in PageList' /\ home'[f].level = -1
    BY <1>0, <1>2, <1>20, <2>1, Zenon
  <2>6. used' \in 0 .. pages'
    BY <1>0, <1>1, <1>20
  <2> QED
    BY <1>0, <1>1, <1>2, <1>20, <2>2, <2>4, <2>5, <2>6, Zenon DEF PoolInv
<1>21. CASE GetBlock
  <2>1. /\ used < pages /\ mem' = [mem EXCEPT ![Page(used)] = empty]
        /\ taken' = taken \cup {Page(used)} /\ used' = used + 1 /\ home' = home
    BY <1>21, Zenon DEF GetBlock, Clear, rootVars
  <2> HIDE DEF empty
  <2> QED
    BY <1>5, <1>20, <2>1, Zenon
<1>22. CASE TakePage
  <2> DEFINE junk == [x \in Index |-> Junk]
  <2>1. /\ used < pages /\ mem' = [mem EXCEPT ![Page(used)] = junk]
        /\ taken' = taken \cup {Page(used)} /\ used' = used + 1 /\ home' = home
    BY <1>22, Zenon DEF TakePage, bootVars, rootVars
  <2>2. junk = [x \in Index |-> junk[x]] /\ \A x \in Index : junk[x].present \in BOOLEAN
    BY Zenon DEF Junk, Entry
  <2> HIDE DEF junk
  <2> QED
    BY <1>20, <2>1, <2>2, Zenon
<1> QED
  BY <1>10, <1>11, <1>12, <1>13, <1>14, <1>15, <1>17, <1>18, <1>19, <1>21, <1>22, Halves, Zenon
     DEF Next, map_page, user_space_init

-------------------------------------------------------------------------------
(* What a step leaves alone *)

\* What a page serves for does not change.
LEMMA HomeKept ==
  ASSUME Inv, Next, NEW g \in PageList, home[g].level # -1
  PROVE  home'[g] = home[g]
<1>1. home \in [PageList -> [level : -1 .. 4, virt : Address]]
  BY Zenon DEF Inv, PoolInv
<1>2. ASSUME NEW f, NEW h, f \in PageList => home[f].level = -1, home' = [home EXCEPT ![f] = h] PROVE home'[g] = home[g]
  BY <1>1, <1>2, Zenon
<1>3. CASE LinkTable
  <2>1. home[page].level = -1 /\ home' = [home EXCEPT ![page] = Home(level - 1, virt)]
    BY <1>3, Zenon DEF LinkTable, Inv, WalkInv
  <2> QED
    BY <1>2, <2>1, Zenon
<1>4. CASE FillPml4 \/ FillUserPml4
  <2>1. home[page].level = -1 /\ home' = [home EXCEPT ![page] = Home(4, 0)]
    BY <1>4, Zenon DEF FillPml4, FillUserPml4, Inv, WalkInv
  <2> QED
    BY <1>2, <2>1, Zenon
<1>5. ASSUME NEW a, NEW v, NEW b, GetUserPage(a, v, b) PROVE home'[g] = home[g]
  <2>1. used < pages /\ home' = [home EXCEPT ![Page(used)] = Home(0, v)]
    BY <1>5, Zenon DEF GetUserPage, GiveRawPage
  <2>2. home[Page(used)].level = -1
    BY <2>1, Fresh, Zenon DEF Inv
  <2> QED
    BY <1>2, <2>1, <2>2, Zenon
<1>6. CASE home' = home
  BY <1>6, Zenon
<1> QED
  BY <1>3, <1>4, <1>5, <1>6, Zenon
     DEF Next, map_page, user_space_init, WalkDown, GiveTable, ClearTable, StoreEntry, GetPml4,
         MapEcam, NextEcam, GetUserPml4, MapUserPage, UserPageDone,
         GetBlock, MapMmio, MmioDone, TakePage, OutOfPages, bootVars, rootVars

\* A table in use.
Serves(f) == f \in DOMAIN BootTables \/ (f \in PageList /\ home[f].level \in 1 .. 4)

\* Only LinkTable and StoreEntry write a table in use, and only where no entry is present.
LEMMA OnlyEntry ==
  ASSUME Inv, Next, NEW f \in DOMAIN mem, Serves(f), NEW x \in Index, mem'[f][x] # mem[f][x]
  PROVE  /\ f = table /\ x = EntryIndex(level, virt) /\ ~mem[f][x].present
         /\ \/ LinkTable /\ mem'[f][x] = Entry(page, TRUE)
            \/ StoreEntry /\ mem'[f][x] = Entry(phys, user)
<1>0. PoolInv /\ WalkInv
  BY Zenon DEF Inv
<1>1. ASSUME NEW g, NEW c, g \in PageList, home[g].level = -1, c = [y \in Index |-> c[y]], mem' = [mem EXCEPT ![g] = c]
      PROVE  FALSE
  <2>1. g \in DOMAIN mem
    BY <1>0, <1>1, Shape, Zenon
  <2>2. g # f
    BY <1>0, <1>1, Shape DEF Serves
  <2>3. \A h \in DOMAIN mem : h # g => mem'[h] = mem[h]
    BY <1>0, <1>1, <2>1, Filled, Zenon
  <2> QED
    BY <2>2, <2>3, Zenon
<1> DEFINE empty == [y \in Index |-> NotPresent]
           junk == [y \in Index |-> Junk]
           copy(r) == [y \in Index |-> IF y \in UpperHalf THEN mem[r][y] ELSE NotPresent]
<1>2. /\ empty = [y \in Index |-> empty[y]] /\ junk = [y \in Index |-> junk[y]]
      /\ \A r : copy(r) = [y \in Index |-> copy(r)[y]]
  OBVIOUS
<1>3. ASSUME used < pages PROVE Page(used) \in PageList /\ home[Page(used)].level = -1
  BY <1>0, <1>3, Fresh, Zenon
<1>4. CASE ClearTable
  <2>1. page \in PageList /\ home[page].level = -1 /\ mem' = [mem EXCEPT ![page] = empty]
    BY <1>0, <1>4, Zenon DEF ClearTable, Clear, WalkInv
  <2> HIDE DEF empty
  <2> QED
    BY <1>1, <1>2, <2>1, Zenon
<1>5. ASSUME NEW a, NEW v, NEW b, GetUserPage(a, v, b) PROVE FALSE
  <2>1. used < pages /\ mem' = [mem EXCEPT ![Page(used)] = empty]
    BY <1>5, Zenon DEF GetUserPage, GiveRawPage, Clear
  <2> HIDE DEF empty
  <2> QED
    BY <1>1, <1>2, <1>3, <2>1, Zenon
<1>6. CASE GetBlock
  <2>1. used < pages /\ mem' = [mem EXCEPT ![Page(used)] = empty]
    BY <1>6, Zenon DEF GetBlock, Clear
  <2> HIDE DEF empty
  <2> QED
    BY <1>1, <1>2, <1>3, <2>1, Zenon
<1>7. CASE TakePage
  <2>1. used < pages /\ mem' = [mem EXCEPT ![Page(used)] = junk]
    BY <1>7, Zenon DEF TakePage
  <2> HIDE DEF junk
  <2> QED
    BY <1>1, <1>2, <1>3, <2>1, Zenon
<1>8. CASE FillPml4 \/ FillUserPml4
  <2>1. PICK r : mem' = [mem EXCEPT ![page] = copy(r)]
    BY <1>8, Zenon DEF FillPml4, FillUserPml4, CopyUpperHalf
  <2>2. page \in PageList /\ home[page].level = -1
    BY <1>0, <1>8, Zenon DEF FillPml4, FillUserPml4, WalkInv
  <2> HIDE DEF copy
  <2> QED
    BY <1>1, <1>2, <2>1, <2>2, Zenon
<1>9. CASE LinkTable
  <2>1. PICK i \in Index :
          /\ i = EntryIndex(level, virt) /\ table \in DOMAIN mem
          /\ mem'[table][i] = Entry(page, TRUE)
          /\ \A g \in DOMAIN mem : \A y \in Index : (g # table \/ y # i) => mem'[g][y] = mem[g][y]
    BY <1>0, <1>9, Linked, Zenon
  <2>2. ~mem[table][i].present
    BY <1>0, <1>9, <2>1, Zenon DEF LinkTable, WalkInv, Slot
  <2> QED
    BY <1>9, <2>1, <2>2, Zenon
<1>10. CASE StoreEntry
  <2>1. ~Slot.present
    BY <1>10, Zenon DEF StoreEntry
  <2>2. PICK i \in Index :
          /\ i = EntryIndex(level, virt) /\ table \in DOMAIN mem
          /\ mem'[table][i] = Entry(phys, user)
          /\ \A g \in DOMAIN mem : \A y \in Index : (g # table \/ y # i) => mem'[g][y] = mem[g][y]
    BY <1>0, <1>10, <2>1, Stored, Zenon
  <2>3. ~mem[table][i].present
    BY <2>1, <2>2, Zenon DEF Slot
  <2> QED
    BY <1>10, <2>2, <2>3, Zenon
<1>11. CASE mem' = mem
  BY <1>11, Zenon
<1> QED
  BY <1>4, <1>5, <1>6, <1>7, <1>8, <1>9, <1>10, <1>11, Zenon
     DEF Next, map_page, user_space_init, WalkDown, GiveTable, GetPml4, MapEcam, NextEcam, GetUserPml4,
         MapUserPage, UserPageDone, MapMmio, MmioDone, OutOfPages

-------------------------------------------------------------------------------
(* The walk from a root *)

\* The level of a table in use.
Level(f) == IF f \in DOMAIN BootTables THEN BootLevel[f] ELSE home[f].level

\* A frame with a level is a table in use.
LEMMA LevelServes ==
  ASSUME PoolInv, NEW f \in DOMAIN mem
  PROVE  (Level(f) \in 1 .. 4 => Serves(f)) /\ (f \in PageList => Level(f) = home[f].level)
BY Shape, Zenon DEF Level, Serves

\* What is entered in page g, a table of level 2 or 3: a table of the level below.
LEMMA FitsTable ==
  ASSUME Inv, NEW g \in PageList, home[g].level \in 2 .. 3, NEW x \in Index, mem[g][x] # NotPresent
  PROVE  \E h \in PageList :
           /\ mem[g][x] = Entry(h, TRUE) /\ home[h].level = home[g].level - 1
           /\ SameTable(home[g].level, home[h].virt, home[g].virt)
           /\ EntryIndex(home[g].level, home[h].virt) = x
<1>1. Fits(g, x, mem[g][x])
  BY DEF Inv, BelowInv
<1>a. PICK v \in Address :
        /\ SameTable(home[g].level, v, home[g].virt) /\ EntryIndex(home[g].level, v) = x
        /\ IF home[g].level = 1 THEN PutAt(v, mem[g][x])
           ELSE \E h \in PageList : mem[g][x] = Entry(h, TRUE) /\ home[h] = Home(home[g].level - 1, v)
  BY <1>1, Zenon DEF Fits
<1>b. home[g].level # 1
  OBVIOUS
<1>2. PICK h \in PageList : mem[g][x] = Entry(h, TRUE) /\ home[h] = Home(home[g].level - 1, v)
  BY <1>a, <1>b, Zenon
<1>3. home[h].level = home[g].level - 1 /\ home[h].virt = v
  BY <1>2 DEF Home
<1> QED
  BY <1>a, <1>2, <1>3, Zenon

\* An entry above level 1 names a table of the level below, or is one of the boot loader's.
LEMMA Down ==
  ASSUME Inv, NEW f \in DOMAIN mem, Level(f) \in 2 .. 4, NEW x \in Index, mem[f][x].present
  PROVE  \/ mem[f][x].frame \in DOMAIN mem /\ Level(mem[f][x].frame) = Level(f) - 1
         \/ /\ mem[f][x].frame \notin DOMAIN mem
            /\ \E b \in DOMAIN BootTables : BootLevel[b] = Level(f) /\ mem[f][x] = BootTables[b][x]
<1>0. PoolInv /\ DOMAIN mem = DOMAIN BootTables \cup PageList /\ DOMAIN BootTables \cap PageList = {}
  BY Shape, Zenon DEF Inv
<1>1. ASSUME NEW b \in DOMAIN BootTables, BootLevel[b] = Level(f), mem[f][x] = BootTables[b][x]
      PROVE  \/ mem[f][x].frame \in DOMAIN mem /\ Level(mem[f][x].frame) = Level(f) - 1
             \/ mem[f][x].frame \notin DOMAIN mem
  <2>1. BootLevel[b] > 1 /\ BootTables[b][x].present
    BY <1>1
  <2>2. /\ \A k : mem[f][x].frame # Page(k)
        /\ mem[f][x].frame \in DOMAIN BootTables => BootLevel[mem[f][x].frame] = Level(f) - 1
    BY <1>1, <2>1, BootBelow, Zenon
  <2>3. mem[f][x].frame \notin PageList
    BY <2>2, Zenon DEF PageList
  <2> QED
    BY <1>0, <2>2, <2>3, Zenon DEF Level
<1>2. ASSUME NEW h \in PageList, mem[f][x] = Entry(h, TRUE), home[h].level = Level(f) - 1
      PROVE  mem[f][x].frame \in DOMAIN mem /\ Level(mem[f][x].frame) = Level(f) - 1
  BY <1>0, <1>2 DEF Entry, Level
<1>3. CASE f \in DOMAIN BootTables
  <2>1. CASE mem[f][x] = BootTables[f][x]
    BY <1>1, <1>3, <2>1, Zenon DEF Level
  <2>2. CASE mem[f][x] # BootTables[f][x]
    <3>1. f = LastTable /\ x = N - 1
      BY <1>3, <2>2, Zenon DEF Inv, BootInv
    <3>2. PICK g \in PageList : mem[f][x] = Entry(g, TRUE) /\ home[g].level = 2
      BY <2>2, <3>1, Zenon DEF Inv, BootInv
    <3>3. Level(f) = 3
      BY <1>3, <3>1, RootLevels, Zenon DEF Level
    <3>4. home[g].level = Level(f) - 1
      BY <3>2, <3>3
    <3> QED
      BY <1>2, <3>2, <3>4, Zenon
  <2> QED
    BY <2>1, <2>2, Zenon
<1>4. CASE f \in PageList /\ home[f].level = 4
  <2>1. Level(f) = 4 /\ f \in {newpml4, user_as} /\ f # None
    BY <1>0, <1>4, Shape, Zenon DEF Inv, RootInv, Level
  <2>2. CASE x \in UpperHalf
    <3>1. mem[f][x] = BootTables[BootPml4][x]
      BY <2>1, <2>2, Zenon DEF Inv, RootInv
    <3> QED
      BY <1>1, <2>1, <3>1, BootFrames, RootLevels, Zenon
  <2>3. CASE x \notin UpperHalf
    <3>1. mem[f][x] # NotPresent
      BY DEF NotPresent
    <3>2. f # newpml4 /\ user_as # None
      BY <2>1, <2>3, <3>1 DEF Inv, RootInv
    <3>a. \A y \in Index \ UpperHalf :
            \/ mem[user_as][y] = NotPresent
            \/ \E h \in PageList : mem[user_as][y] = Entry(h, TRUE) /\ home[h].level = 3
      BY <3>2, Zenon DEF Inv, RootInv
    <3>b. f = user_as /\ x \in Index \ UpperHalf
      BY <2>1, <2>3, <3>2, Zenon
    <3>3. PICK h \in PageList : mem[user_as][x] = Entry(h, TRUE) /\ home[h].level = 3
      BY <3>1, <3>a, <3>b, Zenon
    <3>4. home[h].level = Level(f) - 1
      BY <2>1, <3>3
    <3> QED
      BY <1>2, <3>3, <3>4, <3>b, Zenon
  <2> QED
    BY <2>2, <2>3, Zenon
<1>5. CASE f \in PageList /\ home[f].level \in 2 .. 3
  <2>1. mem[f][x] # NotPresent /\ Level(f) = home[f].level
    BY <1>0, <1>5 DEF NotPresent, Level
  <2>2. PICK h \in PageList : mem[f][x] = Entry(h, TRUE) /\ home[h].level = home[f].level - 1
    BY <1>5, <2>1, FitsTable, Zenon
  <2> QED
    BY <1>2, <2>1, <2>2, Zenon
<1>6. f \in PageList => Level(f) = home[f].level
  BY <1>0, Zenon DEF Level
<1> QED
  BY <1>0, <1>3, <1>4, <1>5, <1>6

\* From a root in use: every table on the way has its level.
LEMMA Tables ==
  ASSUME Inv, NEW s \in Spaces, NEW v \in Address
  PROVE  LET q == Path(s, v) IN
         /\ s \in DOMAIN mem /\ Level(s) = 4 /\ q[1] = mem[s][EntryIndex(4, v)]
         /\ \A k \in 1 .. 3 :
              /\ q[k].present /\ q[k].frame \in DOMAIN mem =>
                   Level(q[k].frame) = 4 - k /\ q[k + 1] = mem[q[k].frame][EntryIndex(4 - k, v)]
              /\ ~(q[k].present /\ q[k].frame \in DOMAIN mem) => q[k + 1] = q[k]
<1> DEFINE q == Path(s, v)
<1>0. PoolInv /\ DOMAIN mem = DOMAIN BootTables \cup PageList
  BY Shape, Zenon DEF Inv
<1>1. \A l \in 1 .. 4 : EntryIndex(l, v) \in Index
  BY IndexIn DEF Address
<1>2. s \in DOMAIN mem /\ Level(s) = 4
  <2>1. CASE s = BootPml4
    BY <1>0, <2>1, BootFrames, RootLevels, Zenon DEF Level
  <2>2. CASE s # BootPml4
    <3>1. s \in {newpml4, user_as} /\ s # None
      BY <2>2, Zenon DEF Spaces
    <3>2. s \in PageList /\ home[s].level = 4
      BY <3>1, Zenon DEF Inv, RootInv
    <3> QED
      BY <1>0, <3>2, LevelServes, Zenon
  <2> QED
    BY <2>1, <2>2, Zenon
<1>3. /\ q[1] = mem[s][EntryIndex(4, v)] /\ q[2] = Below(mem, q[1], 3, v)
      /\ q[3] = Below(mem, q[2], 2, v) /\ q[4] = Below(mem, q[3], 1, v)
  BY Zenon DEF Path, Walk
<1> HIDE DEF q
<1>4. ASSUME NEW e, NEW l \in 1 .. 3, e.present, e.frame \in DOMAIN mem
      PROVE  Below(mem, e, l, v) = mem[e.frame][EntryIndex(l, v)]
  BY <1>4, Zenon DEF Below
<1>5. ASSUME NEW e, NEW l \in 1 .. 3, ~(e.present /\ e.frame \in DOMAIN mem)
      PROVE  Below(mem, e, l, v) = e
  BY <1>5, Zenon DEF Below
<1>6. ASSUME NEW f \in DOMAIN mem, NEW l \in 2 .. 4, Level(f) = l,
             mem[f][EntryIndex(l, v)].present, mem[f][EntryIndex(l, v)].frame \in DOMAIN mem
      PROVE  Level(mem[f][EntryIndex(l, v)].frame) = l - 1
  BY <1>1, <1>6, Down
<1>7. q[1].present /\ q[1].frame \in DOMAIN mem => Level(q[1].frame) = 3 /\ q[2] = mem[q[1].frame][EntryIndex(3, v)]
  BY <1>2, <1>3, <1>4, <1>6
<1>8. ~(q[1].present /\ q[1].frame \in DOMAIN mem) => q[2] = q[1]
  BY <1>3, <1>5
<1>9. ~(q[2].present /\ q[2].frame \in DOMAIN mem) => q[3] = q[2]
  BY <1>3, <1>5
<1>10. ~(q[3].present /\ q[3].frame \in DOMAIN mem) => q[4] = q[3]
  BY <1>3, <1>5
<1>11. q[2].present /\ q[2].frame \in DOMAIN mem => Level(q[2].frame) = 2 /\ q[3] = mem[q[2].frame][EntryIndex(2, v)]
  <2> HAVE q[2].present /\ q[2].frame \in DOMAIN mem
  <2>1. q[1].present /\ q[1].frame \in DOMAIN mem
    BY <1>8, Zenon
  <2>2. q[3] = mem[q[2].frame][EntryIndex(2, v)]
    BY <1>3, <1>4
  <2> QED
    BY <1>6, <1>7, <2>1, <2>2
<1>12. q[3].present /\ q[3].frame \in DOMAIN mem => Level(q[3].frame) = 1 /\ q[4] = mem[q[3].frame][EntryIndex(1, v)]
  <2> HAVE q[3].present /\ q[3].frame \in DOMAIN mem
  <2>1. q[2].present /\ q[2].frame \in DOMAIN mem
    BY <1>9, Zenon
  <2>2. q[4] = mem[q[3].frame][EntryIndex(1, v)]
    BY <1>3, <1>4
  <2> QED
    BY <1>6, <1>11, <2>1, <2>2
<1>13. ASSUME NEW k \in 1 .. 3
       PROVE  /\ q[k].present /\ q[k].frame \in DOMAIN mem =>
                   Level(q[k].frame) = 4 - k /\ q[k + 1] = mem[q[k].frame][EntryIndex(4 - k, v)]
              /\ ~(q[k].present /\ q[k].frame \in DOMAIN mem) => q[k + 1] = q[k]
  <2>1. CASE k = 1
    BY <1>7, <1>8, <2>1
  <2>2. CASE k = 2
    BY <1>9, <1>11, <2>2
  <2>3. CASE k = 3
    BY <1>10, <1>12, <2>3
  <2> QED
    BY <2>1, <2>2, <2>3
<1> QED
  BY <1>2, <1>3, <1>13, Zenon DEF q

\* What the walk has found it finds again after any step.
LEMMA PathKept ==
  ASSUME Inv, Next, NEW s \in Spaces, NEW v \in Address, NEW k \in 1 .. 4, Path(s, v)[k].present
  PROVE  Walk(mem', s, v)[k] = Path(s, v)[k]
<1> DEFINE q == Path(s, v)
           r == Walk(mem', s, v)
<1>0. PoolInv /\ DOMAIN mem' = DOMAIN mem
  <2>1. PoolInv' /\ PageList' = PageList
    BY PoolStep, Zenon
  <2>2. mem' = [f \in DOMAIN BootTables \cup PageList |-> [x \in Index |-> mem'[f][x]]]
    BY <2>1, Zenon DEF PoolInv
  <2> QED
    BY <2>2, Shape, Zenon DEF Inv
<1>1. ASSUME NEW f \in DOMAIN mem, Level(f) \in 1 .. 4, NEW l \in 1 .. 4, mem[f][EntryIndex(l, v)].present
      PROVE  mem'[f][EntryIndex(l, v)] = mem[f][EntryIndex(l, v)]
  <2>1. EntryIndex(l, v) \in Index
    BY IndexIn DEF Address
  <2>2. Serves(f)
    BY <1>0, <1>1, LevelServes, Zenon
  <2> QED
    BY <1>1, <2>1, <2>2, OnlyEntry, Zenon
<1>2. /\ s \in DOMAIN mem /\ Level(s) = 4 /\ q[1] = mem[s][EntryIndex(4, v)]
      /\ \A j \in 1 .. 3 :
           /\ q[j].present /\ q[j].frame \in DOMAIN mem =>
                Level(q[j].frame) = 4 - j /\ q[j + 1] = mem[q[j].frame][EntryIndex(4 - j, v)]
           /\ ~(q[j].present /\ q[j].frame \in DOMAIN mem) => q[j + 1] = q[j]
  BY Tables, Zenon
<1>3. /\ r[1] = mem'[s][EntryIndex(4, v)] /\ r[2] = Below(mem', r[1], 3, v)
      /\ r[3] = Below(mem', r[2], 2, v) /\ r[4] = Below(mem', r[3], 1, v)
  BY Zenon DEF Walk
<1>4. q[k].present
  OBVIOUS
<1> SUFFICES r[k] = q[k]
  BY Zenon
<1> HIDE DEF q, r
<1>5. q[1].present => r[1] = q[1]
  BY <1>1, <1>2, <1>3
<1>6. ASSUME NEW j \in 1 .. 3, q[j].present => r[j] = q[j], q[j + 1].present
      PROVE  r[j + 1] = q[j + 1]
  <2>1. q[j].present /\ r[j] = q[j]
    BY <1>2, <1>6, Zenon
  <2>2. r[j + 1] = Below(mem', r[j], 4 - j, v)
    <3>1. CASE j = 1
      BY <1>3, <3>1
    <3>2. CASE j = 2
      BY <1>3, <3>2
    <3>3. CASE j = 3
      BY <1>3, <3>3
    <3> QED
      BY <3>1, <3>2, <3>3
  <2>3. CASE q[j].frame \in DOMAIN mem
    <3>1. Level(q[j].frame) = 4 - j /\ q[j + 1] = mem[q[j].frame][EntryIndex(4 - j, v)]
      BY <1>2, <2>1, <2>3, Zenon
    <3>2. r[j + 1] = mem'[q[j].frame][EntryIndex(4 - j, v)]
      BY <1>0, <2>1, <2>2, <2>3 DEF Below
    <3>3. 4 - j \in 1 .. 4
      OBVIOUS
    <3> QED
      BY <1>1, <1>6, <2>3, <3>1, <3>2, <3>3, Zenon
  <2>4. CASE q[j].frame \notin DOMAIN mem
    <3>1. q[j + 1] = q[j]
      BY <1>2, <2>4, Zenon
    <3> QED
      BY <1>0, <2>1, <2>2, <2>4, <3>1, Zenon DEF Below
  <2> QED
    BY <2>3, <2>4, Zenon
<1>7. q[2].present => r[2] = q[2]
  BY <1>5, <1>6
<1>8. q[3].present => r[3] = q[3]
  BY <1>6, <1>7
<1>9. q[4].present => r[4] = q[4]
  BY <1>6, <1>8
<1> QED
  BY <1>4, <1>5, <1>7, <1>8, <1>9

\* No step of map_page or of its callers changes where a mapped address leads.
LEMMA NextKeeps == Inv /\ Next => KeepsMappings
<1> SUFFICES ASSUME Inv, Next, NEW s \in Spaces, NEW v \in Address, Translate(s, v).present
             PROVE  Translate(s, v)' = Translate(s, v)
  BY Zenon DEF KeepsMappings
<1>1. Path(s, v)[4].present
  BY Zenon DEF Translate
<1>2. Walk(mem', s, v)[4] = Path(s, v)[4]
  BY <1>1, PathKept
<1> QED
  BY <1>2, Zenon DEF Translate, Path

-------------------------------------------------------------------------------
(* The invariant is kept *)

\* What map_page was called for in the windows stays so.
LEMMA CalledStep == ASSUME Inv, Next PROVE Called \cap Windows \subseteq Called'
<1>1. /\ pc \in {"walk", "clear", "link", "return"} <=> stage \in Calling
      /\ off \in Nat /\ offst \in Nat
      /\ stage = "ecam_next" => virt = PCI_ECAM_BASE + off
      /\ stage = "mmio" => virt = MMIO_BASE + offst
      /\ stage = "code_done" => virt = USER_CODE
      /\ stage = "stack_done" => virt = USER_STACK
  <2>1. {PCI_ECAM_SIZE, MmioCalls} \subseteq Nat
    BY TableAssumption, Zenon
  <2>2. off \in 0 .. PCI_ECAM_SIZE /\ offst \in 0 .. MmioCalls
    BY Zenon DEF Inv, StageInv
  <2>3. off \in Nat /\ offst \in Nat
    BY <2>1, <2>2
  <2> QED
    BY <2>3, Zenon DEF Inv, StageInv
<1>2. (off' = off \/ off' = off + 1) /\ (offst' = offst \/ offst' = offst + 1)
  <2>1. CASE NextEcam
    BY <2>1, Zenon DEF NextEcam
  <2>2. CASE MmioDone
    BY <2>2, Zenon DEF MmioDone
  <2> QED
    BY <2>1, <2>2, Zenon
       DEF Next, map_page, user_space_init, WalkDown, GiveTable, ClearTable, LinkTable, StoreEntry, GetPml4,
           FillPml4, MapEcam, GetUserPml4, FillUserPml4, GetUserPage, MapUserPage, UserPageDone,
           GetBlock, MapMmio, TakePage, OutOfPages, bootVars
<1>3. /\ 0 .. off - 1 \subseteq 0 .. off' - 1
      /\ 0 .. offst - 1 \subseteq 0 .. offst' - 1
  BY <1>1, <1>2
<1>4. ASSUME pc = "return", virt \in Windows PROVE virt \in Called'
  <2>1. stage \in {"ecam_next", "mmio"}
    BY <1>1, <1>4, Halves, Zenon DEF Calling
  <2>2. CASE NextEcam
    <3>1. off \in 0 .. off' - 1 /\ virt = PCI_ECAM_BASE + off
      BY <1>1, <2>2 DEF NextEcam
    <3> QED
      BY <3>1, Zenon DEF Called
  <2>3. CASE MmioDone
    <3>1. offst \in 0 .. offst' - 1 /\ virt = MMIO_BASE + offst
      BY <1>1, <2>3 DEF MmioDone
    <3> QED
      BY <3>1, Zenon DEF Called
  <2>4. CASE TakePage
    <3>1. pc' = "return" /\ virt' = virt
      BY <1>4, <2>4, Zenon DEF TakePage, callVars, argVars
    <3> QED
      BY <3>1, Zenon DEF Called
  <2> QED
    BY <1>4, <2>1, <2>2, <2>3, <2>4, Zenon
       DEF Next, map_page, user_space_init, WalkDown, GiveTable, ClearTable, LinkTable, StoreEntry, GetPml4,
           FillPml4, MapEcam, GetUserPml4, FillUserPml4, GetUserPage, MapUserPage, UserPageDone,
           GetBlock, MapMmio, OutOfPages
<1>5. ASSUME NEW v \in Called, v \in Windows PROVE v \in Called'
  <2>1. CASE v \in {PCI_ECAM_BASE + o : o \in 0 .. off - 1}
    BY <1>3, <2>1, Zenon DEF Called
  <2>2. CASE v \in {MMIO_BASE + o : o \in 0 .. offst - 1}
    BY <1>3, <2>2, Zenon DEF Called
  <2>3. CASE pc = "return" /\ v = virt
    BY <1>4, <1>5, <2>3, Zenon
  <2> QED
    BY <1>5, <2>1, <2>2, <2>3, Zenon DEF Called
<1> QED
  BY <1>5, Zenon

\* What was put at an address counts as put there after any step.
LEMMA PutKept ==
  ASSUME Inv, Next, NEW v, NEW e, PutAt(v, e)
  PROVE  PutAt(v, e)'
<1>1. PageList' = PageList
  BY PoolStep, Zenon
<1>2. CASE /\ v \in Windows \cap Called
           /\ \E f \in Devices \cup {<<"ecam", o>> : o \in 0 .. PCI_ECAM_SIZE - 1} : e = Entry(f, FALSE)
  <2>1. v \in Windows \cap Called'
    BY <1>2, CalledStep, Zenon
  <2> QED
    BY <1>2, <2>1, Zenon DEF PutAt
<1>3. CASE v \in {USER_CODE, USER_STACK} /\ \E h \in PageList : e = Entry(h, TRUE) /\ home[h] = Home(0, v)
  <2>1. PICK h \in PageList : e = Entry(h, TRUE) /\ home[h] = Home(0, v)
    BY <1>3, Zenon
  <2>2. home[h].level # -1
    BY <2>1 DEF Home
  <2>3. home'[h] = home[h]
    BY <2>2, HomeKept, Zenon
  <2> QED
    BY <1>1, <1>3, <2>1, <2>3, Zenon DEF PutAt
<1> QED
  BY <1>2, <1>3, Zenon DEF PutAt

\* An entry that is right for its table stays right.
LEMMA FitsKept ==
  ASSUME Inv, Next, NEW g \in PageList, home[g].level \in 1 .. 3, NEW x, NEW e, Fits(g, x, e)
  PROVE  Fits(g, x, e)'
<1>1. PageList' = PageList
  BY PoolStep, Zenon
<1>2. home'[g] = home[g]
  BY HomeKept
<1>3. PICK v \in Address :
        /\ SameTable(home[g].level, v, home[g].virt) /\ EntryIndex(home[g].level, v) = x
        /\ IF home[g].level = 1 THEN PutAt(v, e)
           ELSE \E h \in PageList : e = Entry(h, TRUE) /\ home[h] = Home(home[g].level - 1, v)
  BY Zenon DEF Fits
<1>4. IF home[g].level = 1 THEN PutAt(v, e)'
      ELSE \E h \in PageList : e = Entry(h, TRUE) /\ home'[h] = Home(home[g].level - 1, v)
  <2>1. CASE home[g].level = 1
    BY <1>3, <2>1, PutKept, Zenon
  <2>2. CASE home[g].level # 1
    <3>1. PICK h \in PageList : e = Entry(h, TRUE) /\ home[h] = Home(home[g].level - 1, v)
      BY <1>3, <2>2, Zenon
    <3>2. home[h].level # -1
      BY <3>1 DEF Home
    <3>3. home'[h] = home[h]
      BY <3>2, HomeKept, Zenon
    <3> QED
      BY <2>2, <3>1, <3>3, Zenon
  <2> QED
    BY <2>1, <2>2, Zenon
<1> QED
  BY <1>1, <1>2, <1>3, <1>4, Zenon DEF Fits

\* The root map_page works on, and the half its address lies in.
LEMMA CallRoot ==
  ASSUME Inv, stage \in Calling
  PROVE  /\ Root \in PageList /\ Root \in Spaces /\ home[Root].level = 4
         /\ \/ Root = newpml4 /\ virt \in Windows
            \/ Root = user_as /\ virt \in {USER_CODE, USER_STACK}
<1>1. CASE stage \in {"code_done", "stack_done"}
  <2>1. Root = user_as /\ user_as # None /\ virt \in {USER_CODE, USER_STACK}
    BY <1>1, Zenon DEF Root, Inv, StageInv
  <2> QED
    BY <2>1, Zenon DEF Inv, RootInv, Spaces
<1>2. CASE stage \in {"ecam_next", "mmio"}
  <2>1. Root = newpml4 /\ newpml4 # None
    BY <1>2, Zenon DEF Root, Inv, StageInv
  <2>2. virt \in Address /\ Address \subseteq Nat
    BY DEF Inv, WalkInv, Address
  <2>3. /\ {PCI_ECAM_BASE, MMIO_BASE} \subseteq Address /\ {PCI_ECAM_SIZE, MMIO_SIZE, MmioCalls} \subseteq Nat
        /\ MMIO_BASE + MMIO_SIZE <= PCI_ECAM_BASE
    BY TableAssumption, Zenon
  <2>4. off \in 0 .. PCI_ECAM_SIZE /\ offst \in 0 .. MmioCalls
    BY Zenon DEF Inv, StageInv
  <2>5. virt = PCI_ECAM_BASE + off \/ virt = MMIO_BASE + offst
    BY <1>2, Zenon DEF Inv, StageInv
  <2>a. PCI_ECAM_BASE \in Nat /\ MMIO_BASE \in Nat /\ MMIO_SIZE \in Nat /\ MMIO_BASE + MMIO_SIZE <= PCI_ECAM_BASE
    BY <2>2, <2>3, Zenon
  <2>b. off \in Nat /\ offst \in Nat
    BY <2>3, <2>4
  <2>6. MMIO_BASE <= virt
    BY <2>a, <2>b, <2>5
  <2>7. virt \in Windows
    BY <2>2, <2>3, <2>6 DEF Windows, Address
  <2> QED
    BY <2>1, <2>7, Zenon DEF Inv, RootInv, Spaces
<1> QED
  BY <1>1, <1>2, Zenon DEF Calling

\* The table map_page is at.
LEMMA CallTable ==
  ASSUME Inv, pc \in {"walk", "clear", "link"}
  PROVE  /\ stage \in Calling /\ table \in DOMAIN mem /\ Serves(table) /\ level \in 1 .. 4
         /\ virt \in Address /\ EntryIndex(level, virt) \in Index
         /\ \/ /\ table \in PageList /\ home[table].level = level
               /\ SameTable(level, home[table].virt, virt) /\ (level = 4 => table = Root)
            \/ table = LastTable /\ level = 3 /\ virt \in Windows
<1>1. stage \in Calling /\ level \in 1 .. 4 /\ table \in DOMAIN mem /\ virt \in Address
  BY Zenon DEF Inv, StageInv, WalkInv
<1>2. EntryIndex(level, virt) \in Index
  BY <1>1, IndexIn DEF Address
<1>3. CASE level = 4
  <2>1. table = Root /\ table \in PageList /\ home[table].level = level
    BY <1>1, <1>3, CallRoot, Zenon DEF Inv, WalkInv
  <2>2. SameTable(level, home[table].virt, virt)
    BY <1>3 DEF SameTable
  <2> QED
    BY <1>1, <1>2, <1>3, <2>1, <2>2, Zenon DEF Serves
<1>4. CASE level # 4
  <2>1. level < 4
    BY <1>1, <1>4
  <2>2. \/ level = 3 /\ table = LastTable /\ virt \in Windows
        \/ /\ table \in PageList /\ home[table].level = level
           /\ SameTable(level, home[table].virt, virt)
    BY <2>1, Zenon DEF Inv, WalkInv
  <2> QED
    BY <1>1, <1>2, <1>4, <2>2, BootFrames, Zenon DEF Serves
<1> QED
  BY <1>3, <1>4, Zenon

\* Of the boot loader's tables only the last entry of the last one changes: a table is linked.
LEMMA BootStep == ASSUME Inv, Next PROVE BootInv'
<1>0. /\ PageList' = PageList /\ PoolInv /\ DOMAIN mem = DOMAIN BootTables \cup PageList
      /\ DOMAIN BootTables \cap PageList = {}
  BY PoolStep, Shape, Zenon DEF Inv
<1>1. ASSUME NEW f \in DOMAIN BootTables, NEW x \in Index, mem'[f][x] # mem[f][x]
      PROVE  /\ f = LastTable /\ x = N - 1 /\ page \in PageList /\ mem'[f][x] = Entry(page, TRUE)
             /\ home'[page].level = 2 /\ home'[page].virt \in Windows
  <2>1. f \in DOMAIN mem /\ Serves(f)
    BY <1>0, Zenon DEF Serves
  <2>2. /\ f = table /\ x = EntryIndex(level, virt)
        /\ \/ LinkTable /\ mem'[f][x] = Entry(page, TRUE)
           \/ StoreEntry
    BY <1>1, <2>1, OnlyEntry, Zenon
  <2>3. pc \in {"walk", "clear", "link"} /\ (StoreEntry => level = 1)
    BY <2>2, Zenon DEF LinkTable, StoreEntry
  <2>4. table = LastTable /\ level = 3 /\ virt \in Windows
    BY <1>0, <2>2, <2>3, CallTable, Zenon
  <2>5. x = N - 1
    BY <2>2, <2>4, Halves, Zenon
  <2>a. ~StoreEntry
    BY <2>4 DEF StoreEntry
  <2>6. LinkTable /\ mem'[f][x] = Entry(page, TRUE)
    BY <2>2, <2>a, Zenon
  <2>7. page \in PageList /\ home' = [home EXCEPT ![page] = Home(level - 1, virt)]
    BY <2>6, Zenon DEF LinkTable, Inv, WalkInv
  <2>b. home \in [PageList -> [level : -1 .. 4, virt : Address]] /\ level - 1 = 2
    BY <2>4 DEF Inv, PoolInv
  <2>8. home'[page] = Home(2, virt)
    BY <2>7, <2>b, Zenon
  <2>9. home'[page].level = 2 /\ home'[page].virt = virt
    BY <2>8 DEF Home
  <2> QED
    BY <2>2, <2>4, <2>5, <2>6, <2>7, <2>9, Zenon
<1>2. \A f \in DOMAIN BootTables : \A x \in Index :
        <<f, x>> = <<LastTable, N - 1>> \/ mem'[f][x] = BootTables[f][x]
  BY <1>1, Zenon DEF Inv, BootInv
<1>3. N - 1 \in Index /\ LastTable \in DOMAIN BootTables
  BY Halves, BootFrames, Zenon
<1>4. \/ mem'[LastTable][N - 1] = BootTables[LastTable][N - 1]
      \/ \E g \in PageList : /\ mem'[LastTable][N - 1] = Entry(g, TRUE)
                             /\ home'[g].level = 2 /\ home'[g].virt \in Windows
  <2>1. CASE mem'[LastTable][N - 1] # mem[LastTable][N - 1]
    BY <1>1, <1>3, <2>1, Zenon
  <2>2. CASE /\ mem'[LastTable][N - 1] = mem[LastTable][N - 1]
             /\ mem[LastTable][N - 1] # BootTables[LastTable][N - 1]
    <3>1. PICK g \in PageList : /\ mem[LastTable][N - 1] = Entry(g, TRUE)
                                /\ home[g].level = 2 /\ home[g].virt \in Windows
      BY <2>2, Zenon DEF Inv, BootInv
    <3>2. home'[g] = home[g]
      BY <3>1, HomeKept
    <3> QED
      BY <2>2, <3>1, <3>2, Zenon
  <2> QED
    BY <2>1, <2>2, Zenon
<1> QED
  BY <1>0, <1>2, <1>4, Zenon DEF BootInv

\* Where a page newly serves for something.
LEMMA NewHome ==
  ASSUME Inv, Next, NEW g \in PageList, home'[g] # home[g]
  PROVE  /\ home[g].level = -1
         /\ \/ LinkTable /\ g = page /\ home'[g] = Home(level - 1, virt)
            \/ (FillPml4 \/ FillUserPml4) /\ g = page /\ home'[g] = Home(4, 0)
            \/ home'[g].level = 0
<1>1. home \in [PageList -> [level : -1 .. 4, virt : Address]]
  BY Zenon DEF Inv, PoolInv
<1>2. home[g].level = -1
  BY HomeKept, Zenon
<1>3. ASSUME NEW f, NEW h, home' = [home EXCEPT ![f] = h] PROVE g = f /\ home'[g] = h
  BY <1>1, <1>3, Zenon
<1>4. CASE LinkTable
  BY <1>2, <1>3, <1>4, Zenon DEF LinkTable
<1>5. CASE FillPml4 \/ FillUserPml4
  <2>1. home' = [home EXCEPT ![page] = Home(4, 0)]
    BY <1>5, Zenon DEF FillPml4, FillUserPml4
  <2>2. g = page /\ home'[g] = Home(4, 0)
    BY <1>3, <2>1, Zenon
  <2> QED
    BY <1>2, <1>5, <2>2, Zenon
<1>6. ASSUME NEW a, NEW v, NEW b, GetUserPage(a, v, b) PROVE home'[g].level = 0
  <2>1. home' = [home EXCEPT ![page'] = Home(0, v)]
    BY <1>6, Zenon DEF GetUserPage
  <2>2. home'[g] = Home(0, v)
    BY <1>1, <2>1, Zenon
  <2> QED
    BY <2>2 DEF Home
<1>7. CASE home' = home
  BY <1>7, Zenon
<1> QED
  BY <1>2, <1>4, <1>5, <1>6, <1>7, Zenon
     DEF Next, map_page, user_space_init, WalkDown, GiveTable, ClearTable, StoreEntry, GetPml4,
         MapEcam, NextEcam, GetUserPml4, MapUserPage, UserPageDone,
         GetBlock, MapMmio, MmioDone, TakePage, OutOfPages, bootVars, rootVars

\* What StoreEntry stores is put at its address.
LEMMA StorePuts ==
  ASSUME Inv, Next, StoreEntry
  PROVE  PutAt(virt, Entry(phys, user))'
<1>1. stage \in Calling
  BY CallTable, Zenon DEF StoreEntry
<1>2. PageList' = PageList
  BY PoolStep, Zenon
<1>3. UNCHANGED <<virt, phys, user, home>> /\ pc' = "return"
  BY Zenon DEF StoreEntry, argVars, bootVars, rootVars
<1>4. CASE stage \in {"ecam_next", "mmio"}
  <2>1. virt \in Windows
    BY <1>1, <1>4, CallRoot, Halves, Zenon DEF Root, Inv, RootInv, StageInv
  <2>2. virt' \in Called'
    BY <1>3, Zenon DEF Called
  <2>3. user = FALSE /\ phys \in Devices \cup {<<"ecam", o>> : o \in 0 .. PCI_ECAM_SIZE - 1}
    <3>1. CASE stage = "ecam_next"
      <4>1. off \in 0 .. PCI_ECAM_SIZE - 1 /\ phys = <<"ecam", off>> /\ user = FALSE
        BY <3>1, TableAssumption DEF Inv, StageInv
      <4> QED
        BY <4>1, Zenon
    <3>2. CASE stage = "mmio"
      BY <3>2, Zenon DEF Inv, StageInv
    <3> QED
      BY <1>4, <3>1, <3>2, Zenon
  <2> QED
    BY <1>3, <2>1, <2>2, <2>3, Zenon DEF PutAt
<1>5. CASE stage \in {"code_done", "stack_done"}
  <2>1. /\ phys \in PageList /\ home[phys] = Home(0, virt) /\ user = TRUE
        /\ virt \in {USER_CODE, USER_STACK}
    BY <1>5, Zenon DEF Inv, StageInv
  <2> QED
    BY <1>2, <1>3, <2>1, Zenon DEF PutAt
<1> QED
  BY <1>1, <1>4, <1>5, Zenon DEF Calling

\* The entries of the tables below the roots stay right: LinkTable and StoreEntry.
LEMMA BelowStep == ASSUME Inv, Next PROVE BelowInv'
<1>0. PageList' = PageList /\ PoolInv /\ DOMAIN mem = DOMAIN BootTables \cup PageList
  BY PoolStep, Shape, Zenon DEF Inv
<1>1. home \in [PageList -> [level : -1 .. 4, virt : Address]]
  BY Zenon DEF Inv, PoolInv
<1> SUFFICES ASSUME NEW g \in PageList, NEW x \in Index, home'[g].level \in 1 .. 3, mem'[g][x] # NotPresent,
                    NEW e, e = mem'[g][x]
             PROVE  Fits(g, x, e)'
  BY <1>0, Zenon DEF BelowInv
<1>2. CASE home'[g] = home[g] /\ mem'[g][x] = mem[g][x]
  <2>1. Fits(g, x, e)
    BY <1>2, Zenon DEF Inv, BelowInv
  <2> QED
    BY <1>2, <2>1, FitsKept, Zenon
<1>3. CASE home'[g] = home[g] /\ mem'[g][x] # mem[g][x]
  <2>1. home[g].level \in 1 .. 3 /\ g \in DOMAIN mem /\ Serves(g)
    BY <1>0, <1>3 DEF Serves
  <2>2. /\ g = table /\ x = EntryIndex(level, virt)
        /\ \/ LinkTable /\ mem'[g][x] = Entry(page, TRUE)
           \/ StoreEntry /\ mem'[g][x] = Entry(phys, user)
    BY <1>3, <2>1, OnlyEntry, Zenon
  <2>3. pc \in {"walk", "clear", "link"}
    BY <2>2, Zenon DEF LinkTable, StoreEntry
  <2>4. g \notin DOMAIN BootTables
    BY <1>0, Shape, Zenon
  <2>5. home[g].level = level /\ SameTable(level, home[g].virt, virt) /\ virt \in Address /\ level \in 1 .. 4
    BY <2>2, <2>3, <2>4, CallTable, BootFrames, Zenon
  <2>6. SameTable(level, virt, home[g].virt)
    BY <2>5, Zenon DEF SameTable
  <2>7. CASE LinkTable /\ e = Entry(page, TRUE)
    <3>1. level > 1 /\ page \in PageList /\ home' = [home EXCEPT ![page] = Home(level - 1, virt)]
      BY <2>7, Zenon DEF LinkTable, Inv, WalkInv
    <3>2. home'[page] = Home(level - 1, virt) /\ home'[g].level # 1
      BY <1>1, <1>3, <2>5, <3>1
    <3> QED
      BY <1>0, <1>3, <2>2, <2>5, <2>6, <2>7, <3>1, <3>2, Zenon DEF Fits
  <2>8. CASE StoreEntry /\ e = Entry(phys, user)
    <3>1. level = 1 /\ UNCHANGED <<virt, phys, user>>
      BY <2>8, Zenon DEF StoreEntry, argVars
    <3>2. PICK w : w = virt
      OBVIOUS
    <3>3. PutAt(w, e)'
      BY <2>8, <3>1, <3>2, StorePuts, Zenon
    <3> QED
      BY <1>3, <2>2, <2>5, <2>6, <3>1, <3>2, <3>3, Zenon DEF Fits
  <2> QED
    BY <2>2, <2>7, <2>8, Zenon
<1>4. CASE home'[g] # home[g]
  <2>1. LinkTable /\ g = page
    <3>1. home'[g] # Home(4, 0) /\ home'[g].level # 0
      BY DEF Home
    <3> QED
      BY <1>4, <3>1, NewHome, Zenon
  <2>2. home[page].level = -1 /\ mem[page][x] = NotPresent /\ page \in DOMAIN mem /\ pc = "link"
    BY <1>0, <2>1, Zenon DEF LinkTable, Inv, WalkInv
  <2>3. page # table
    <3>1. (table \in PageList /\ home[table].level = level /\ level \in 1 .. 4) \/ table = LastTable
      BY <2>2, CallTable, Zenon
    <3>2. CASE table \in PageList /\ home[table].level = level /\ level \in 1 .. 4
      BY <2>2, <3>2
    <3>3. CASE table = LastTable
      <4>1. LastTable \notin PageList
        BY <1>0, BootFrames, Shape, Zenon
      <4> QED
        BY <2>1, <3>3, <4>1, Zenon
    <3> QED
      BY <3>1, <3>2, <3>3, Zenon
  <2>4. PICK i \in Index :
          \A h \in DOMAIN mem : \A y \in Index : (h # table \/ y # i) => mem'[h][y] = mem[h][y]
    BY <2>1, Linked, Zenon DEF Inv
  <2> QED
    BY <2>1, <2>2, <2>3, <2>4, Zenon
<1> QED
  BY <1>2, <1>3, <1>4, Zenon

\* A root in use changes only where user_space_init's map_page links a table.
LEMMA RootEntry ==
  ASSUME Inv, Next, NEW s \in {newpml4, user_as} \ {None}, NEW x \in Index, mem'[s][x] # mem[s][x]
  PROVE  /\ s = user_as /\ s # newpml4 /\ x \notin UpperHalf /\ page \in PageList /\ mem'[s][x] = Entry(page, TRUE)
         /\ home'[page].level = 3 /\ EntryIndex(4, home'[page].virt) = x
<1>0. PoolInv /\ DOMAIN mem = DOMAIN BootTables \cup PageList
  BY Shape, Zenon DEF Inv
<1>1. s \in PageList /\ home[s].level = 4 /\ (\A y \in UpperHalf : mem[s][y] = BootTables[BootPml4][y])
  BY Zenon DEF Inv, RootInv
<1>2. s \in DOMAIN mem /\ Serves(s) /\ s \notin DOMAIN BootTables
  BY <1>0, <1>1, Shape DEF Serves
<1>3. /\ s = table /\ x = EntryIndex(level, virt) /\ ~mem[s][x].present
      /\ \/ LinkTable /\ mem'[s][x] = Entry(page, TRUE)
         \/ StoreEntry
  BY <1>2, OnlyEntry, Zenon
<1>4. pc \in {"walk", "clear", "link"}
  BY <1>3, Zenon DEF LinkTable, StoreEntry
<1>5. level = 4 /\ table = Root /\ stage \in Calling
  BY <1>1, <1>2, <1>3, <1>4, CallTable, BootFrames, Zenon
<1>6. LinkTable /\ mem'[s][x] = Entry(page, TRUE)
  <2>1. ~StoreEntry
    BY <1>5 DEF StoreEntry
  <2> QED
    BY <1>3, <2>1, Zenon
<1>7. ~(virt \in Windows)
  <2> SUFFICES ASSUME virt \in Windows PROVE FALSE
    BY Zenon
  <2>1. x = N - 1 /\ N - 1 \in UpperHalf
    BY <1>3, <1>5, Halves, Zenon
  <2> QED
    BY <1>1, <1>3, <2>1, BootFrames, Zenon
<1>8. s = user_as /\ virt \in {USER_CODE, USER_STACK}
  BY <1>3, <1>5, <1>7, CallRoot, Zenon
<1>9. x \notin UpperHalf
  BY <1>3, <1>5, <1>8, Halves, Zenon
<1>10. s # newpml4
  BY <1>8, Zenon DEF Inv, RootInv
<1>11. page \in PageList /\ home' = [home EXCEPT ![page] = Home(level - 1, virt)]
  BY <1>6, Zenon DEF LinkTable, Inv, WalkInv
<1>12. home'[page] = Home(3, virt)
  <2>1. home \in [PageList -> [level : -1 .. 4, virt : Address]] /\ level - 1 = 3
    BY <1>5 DEF Inv, PoolInv
  <2> QED
    BY <1>11, <2>1, Zenon
<1>13. home'[page].level = 3 /\ home'[page].virt = virt
  BY <1>12 DEF Home
<1> QED
  BY <1>3, <1>5, <1>6, <1>8, <1>9, <1>10, <1>11, <1>13, Zenon

\* The new root of FillPml4 and FillUserPml4.
LEMMA RootFilled ==
  ASSUME Inv, Next, NEW r \in DOMAIN mem, CopyUpperHalf(page, r), stage \in {"fill_pml4", "fill_user"},
         \A x \in UpperHalf : mem[r][x] = BootTables[BootPml4][x],
         home' = [home EXCEPT ![page] = Home(4, 0)]
  PROVE  /\ page \in PageList /\ page # None /\ home'[page].level = 4 /\ home[page].level = -1
         /\ \A x \in UpperHalf : mem'[page][x] = BootTables[BootPml4][x]
         /\ \A x \in Index \ UpperHalf : mem'[page][x] = NotPresent
<1>1. page \in PageList /\ home[page].level = -1 /\ PoolInv
  BY Zenon DEF Inv, WalkInv
<1>2. page \in DOMAIN mem /\ page # None
  BY <1>1, Shape, Zenon
<1>3. PICK c : c = [x \in Index |-> IF x \in UpperHalf THEN mem[r][x] ELSE NotPresent]
  BY Zenon
<1>4. c = [x \in Index |-> c[x]] /\ mem' = [mem EXCEPT ![page] = c]
  BY <1>3, Zenon DEF CopyUpperHalf
<1>5. mem'[page] = c
  BY <1>1, <1>2, <1>4, Filled, Zenon
<1>6. home'[page] = Home(4, 0)
  BY <1>1, Zenon DEF PoolInv
<1>7. home'[page].level = 4
  BY <1>6 DEF Home
<1>8. ASSUME NEW x \in UpperHalf PROVE mem'[page][x] = BootTables[BootPml4][x]
  <2>1. x \in Index
    BY Halves, Zenon
  <2> QED
    BY <1>3, <1>5, <2>1, Zenon
<1>9. ASSUME NEW x \in Index \ UpperHalf PROVE mem'[page][x] = NotPresent
  BY <1>3, <1>5, Zenon
<1> QED
  BY <1>1, <1>2, <1>7, <1>8, <1>9, Zenon

\* The roots share their upper half and keep it: FillPml4, FillUserPml4 and the links.
LEMMA RootStep == ASSUME Inv, Next PROVE RootInv'
<1>0. PageList' = PageList /\ PoolInv /\ None \notin PageList
  BY PoolStep, Shape, Zenon DEF Inv
<1>1. /\ \A g \in PageList : home[g].level = 4 <=> g \in {newpml4, user_as}
      /\ \A s \in {newpml4, user_as} \ {None} :
           s \in PageList /\ \A x \in UpperHalf : mem[s][x] = BootTables[BootPml4][x]
      /\ newpml4 # None => \A x \in Index \ UpperHalf : mem[newpml4][x] = NotPresent
      /\ user_as # None => \A x \in Index \ UpperHalf :
           \/ mem[user_as][x] = NotPresent
           \/ \E h \in PageList : /\ mem[user_as][x] = Entry(h, TRUE)
                                  /\ home[h].level = 3 /\ EntryIndex(4, home[h].virt) = x
      /\ newpml4 # None => newpml4 # user_as
  BY Zenon DEF Inv, RootInv
<1>2. CASE FillPml4
  <2>1. /\ newpml4 = None /\ user_as = None /\ newpml4' = page /\ user_as' = None
        /\ CopyUpperHalf(page, BootPml4) /\ stage = "fill_pml4" /\ home' = [home EXCEPT ![page] = Home(4, 0)]
    BY <1>2, Zenon DEF FillPml4, Inv, StageInv
  <2>2. BootPml4 \in DOMAIN mem /\ BootPml4 # LastTable
    BY <1>0, Shape, BootFrames, RootLevels, Zenon
  <2>3. \A x \in UpperHalf : mem[BootPml4][x] = BootTables[BootPml4][x]
    BY <2>2, BootFrames, Halves, Zenon DEF Inv, BootInv
  <2>4. /\ page \in PageList /\ page # None /\ home'[page].level = 4
        /\ \A x \in UpperHalf : mem'[page][x] = BootTables[BootPml4][x]
        /\ \A x \in Index \ UpperHalf : mem'[page][x] = NotPresent
    BY <2>1, <2>2, <2>3, RootFilled, Zenon
  <2>5. \A g \in PageList : home'[g].level = 4 <=> g \in {newpml4', user_as'}
    <3>1. \A g \in PageList : g # page => home'[g] = home[g]
      BY <1>0, <2>1, Zenon DEF PoolInv
    <3> QED
      BY <1>0, <1>1, <2>1, <2>4, <3>1, Zenon
  <2> QED
    BY <1>0, <2>1, <2>4, <2>5, Zenon DEF RootInv
<1>3. CASE FillUserPml4
  <2>1. /\ newpml4 # None /\ user_as = None /\ newpml4' = newpml4 /\ user_as' = page
        /\ CopyUpperHalf(page, newpml4) /\ stage = "fill_user" /\ home' = [home EXCEPT ![page] = Home(4, 0)]
    BY <1>3, Zenon DEF FillUserPml4, Inv, StageInv
  <2>2. newpml4 \in PageList /\ newpml4 \in DOMAIN mem /\ home[newpml4].level = 4
    BY <1>0, <1>1, <2>1, Shape, Zenon
  <2>3. \A x \in UpperHalf : mem[newpml4][x] = BootTables[BootPml4][x]
    BY <1>1, <2>1, Zenon
  <2>4. /\ page \in PageList /\ page # None /\ home'[page].level = 4 /\ home[page].level = -1
        /\ \A x \in UpperHalf : mem'[page][x] = BootTables[BootPml4][x]
        /\ \A x \in Index \ UpperHalf : mem'[page][x] = NotPresent
    BY <2>1, <2>2, <2>3, RootFilled, Zenon
  <2>5. newpml4 # page
    BY <2>2, <2>4
  <2>6. \A g \in PageList : home'[g].level = 4 <=> g \in {newpml4', user_as'}
    <3>1. \A g \in PageList : g # page => home'[g] = home[g]
      BY <1>0, <2>1, Zenon DEF PoolInv
    <3> QED
      BY <1>0, <1>1, <2>1, <2>4, <3>1, Zenon
  <2>7. \A x \in Index : mem'[newpml4][x] = mem[newpml4][x]
    BY <2>1, RootEntry, Zenon
  <2>8. \A x \in Index \ UpperHalf : mem'[newpml4][x] = NotPresent
    BY <1>1, <2>1, <2>7, Zenon
  <2>9. \A x \in UpperHalf : mem'[newpml4][x] = BootTables[BootPml4][x]
    BY <2>3, <2>7, Halves, Zenon
  <2> QED
    BY <1>0, <2>1, <2>2, <2>4, <2>5, <2>6, <2>8, <2>9, Zenon DEF RootInv
<1>4. CASE ~FillPml4 /\ ~FillUserPml4
  <2>1. newpml4' = newpml4 /\ user_as' = user_as
    BY <1>4, Zenon DEF Next, map_page, user_space_init, WalkDown, GiveTable, ClearTable, LinkTable, StoreEntry, GetPml4,
         MapEcam, NextEcam, GetUserPml4, GetUserPage, MapUserPage, UserPageDone,
         GetBlock, MapMmio, MmioDone, TakePage, OutOfPages, bootVars, rootVars
  <2>2. ASSUME NEW g \in PageList PROVE home'[g].level = 4 <=> home[g].level = 4
    <3>1. CASE home'[g] = home[g]
      BY <3>1, Zenon
    <3>2. CASE home'[g] # home[g]
      <4>1. /\ home[g].level = -1
            /\ \/ pc = "link" /\ home'[g] = Home(level - 1, virt)
               \/ home'[g].level = 0
        BY <1>4, <3>2, NewHome, Zenon DEF LinkTable
      <4>2. level \in 1 .. 4
        BY Zenon DEF Inv, WalkInv
      <4> QED
        BY <4>1, <4>2 DEF Home
    <3> QED
      BY <3>1, <3>2, Zenon
  <2>3. \A g \in PageList : home'[g].level = 4 <=> g \in {newpml4', user_as'}
    BY <1>1, <2>1, <2>2, Zenon
  <2>4. ASSUME NEW s \in {newpml4, user_as} \ {None}, NEW x \in UpperHalf PROVE mem'[s][x] = BootTables[BootPml4][x]
    <3>1. mem'[s][x] = mem[s][x]
      BY RootEntry, Halves, Zenon
    <3> QED
      BY <1>1, <3>1, Zenon
  <2>5. ASSUME newpml4 # None, NEW x \in Index \ UpperHalf PROVE mem'[newpml4][x] = NotPresent
    <3>1. mem'[newpml4][x] = mem[newpml4][x]
      BY <2>5, RootEntry, Zenon
    <3> QED
      BY <1>1, <2>5, <3>1, Zenon
  <2>6. ASSUME user_as # None, NEW x \in Index \ UpperHalf
        PROVE  \/ mem'[user_as][x] = NotPresent
               \/ \E h \in PageList : /\ mem'[user_as][x] = Entry(h, TRUE)
                                      /\ home'[h].level = 3 /\ EntryIndex(4, home'[h].virt) = x
    <3>1. CASE mem'[user_as][x] # mem[user_as][x]
      BY <2>6, <3>1, RootEntry, Zenon
    <3>2. CASE mem'[user_as][x] = mem[user_as][x] /\ mem[user_as][x] # NotPresent
      <4>1. PICK h \in PageList : /\ mem[user_as][x] = Entry(h, TRUE)
                                  /\ home[h].level = 3 /\ EntryIndex(4, home[h].virt) = x
        BY <1>1, <2>6, <3>2, Zenon
      <4>2. home'[h] = home[h]
        BY <4>1, HomeKept
      <4> QED
        BY <3>2, <4>1, <4>2, Zenon
    <3> QED
      BY <3>1, <3>2, Zenon
  <2> QED
    BY <1>0, <1>1, <2>1, <2>3, <2>4, <2>5, <2>6, Zenon DEF RootInv
<1> QED
  BY <1>2, <1>3, <1>4, Zenon

===============================================================================
