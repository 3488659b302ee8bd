------------------------------ MODULE PageTables ------------------------------
(***************************************************************************)
(* The four-level page tables of memory/memory.c: map_page, called by      *)
(* virtual_memory_init (kernel space), user_space_init (user space) and    *)
(* map_mmio.  The bootstrap CPU runs on the kernel space; the application  *)
(* processors stay on the boot loader's, whose upper half both new spaces  *)
(* copy entry by entry, so that all three share the tables below it.       *)
(*                                                                         *)
(* Addresses count pages.  A frame is a page of page_list, a table of the  *)
(* boot loader, or memory that is only mapped.  __giverawpage takes the    *)
(* first unused page, and no code returns one (module PageAllocator has    *)
(* its interleavings); a page's old contents are junk.                     *)
(***************************************************************************)
EXTENDS Integers

CONSTANTS N,                 \* entries of a table: 512
          PCI_ECAM_BASE, PCI_ECAM_SIZE, MMIO_BASE, MMIO_SIZE, USER_CODE, USER_STACK,
          BootTables,        \* the boot loader's tables: frame -> index -> entry
          BootPml4,          \* the root of them, in cr3 at the start
          Devices,           \* the frames map_mmio is asked for
          PageCounts,        \* the lengths of page_list
          MmioCalls, Others  \* bounds: calls of map_mmio, pages given to others

Top == N * N * N * N
Address == 0 .. Top - 1
Index == 0 .. N - 1
UpperHalf == N \div 2 .. N - 1

\* (virt >> 39) & 0x1FF for level 4, down to (virt >> 12) & 0x1FF for level 1.
Span == <<1, N, N * N, N * N * N>>
EntryIndex(l, v) == (v \div Span[l]) % N

\* The addresses from map_mmio's window up, PCI_ECAM's included.
Windows == MMIO_BASE .. Top - 1

\* memory.h and memory.c: the windows lie below the last entry of the last root slot's
\* table, the code and the stack in the lower half.
ASSUME TableAssumption ==
  /\ N \in Nat /\ N % 2 = 0 /\ N > 0
  /\ {PCI_ECAM_BASE, MMIO_BASE, USER_CODE, USER_STACK} \subseteq Address
  /\ {PCI_ECAM_SIZE, MMIO_SIZE, MmioCalls} \subseteq Nat /\ PageCounts \subseteq Nat
  /\ PCI_ECAM_BASE + PCI_ECAM_SIZE <= Top
  /\ MMIO_BASE + MMIO_SIZE <= PCI_ECAM_BASE
  /\ MMIO_BASE + MmioCalls <= Top
  /\ \A v \in Windows : EntryIndex(4, v) = N - 1 /\ EntryIndex(3, v) = N - 1
  /\ {EntryIndex(4, USER_CODE), EntryIndex(4, USER_STACK)} \cap UpperHalf = {}

VARIABLES mem,       \* the contents of the tables and of the pages of page_list
          pages,     \* the length of page_list
          used,      \* how many of its pages are used
          stage,     \* where the bootstrap CPU is in the callers of map_page
          page,      \* what __giverawpage returned last to it
          off,       \* the local of virtual_memory_init's loop
          offst,     \* the static of map_mmio
          newpml4, user_as,                     \* the roots
          home,      \* history: what each page of page_list serves for
          pc, level, table, virt, phys, user,   \* map_page: control, locals, arguments
          mmio,      \* history: what map_mmio was asked for and what it returned
          taken      \* history: the pages of other callers

poolVars == <<pages, used, page, taken>>
rootVars == <<newpml4, user_as, home>>
argVars == <<virt, phys, user>>
callVars == <<pc, level, table, argVars>>
bootVars == <<stage, off, offst, rootVars, mmio>>
vars == <<mem, poolVars, bootVars, callVars>>

NotPresent == [present |-> FALSE, frame |-> <<"none", 0>>, user |-> FALSE]
Entry(f, u) == [present |-> TRUE, frame |-> f, user |-> u]
Junk == Entry(<<"junk", 0>>, TRUE)
Page(k) == <<"page", k>>
None == <<"none", 0>>

\* The tables of the boot loader lie in levels; what a table above level 1 names is a
\* table of the level below it or a large page.
Layered(lev) ==
  /\ lev[BootPml4] = 4
  /\ \A f \in DOMAIN BootTables : \A x \in Index :
       LET e == BootTables[f][x] IN
       lev[f] > 1 /\ e.present =>
         IF e.frame \in DOMAIN BootTables THEN lev[e.frame] = lev[f] - 1
         ELSE e.frame[1] \notin {"page", "ecam"} /\ e.frame \notin Devices

BootLevel == CHOOSE lev \in [DOMAIN BootTables -> 1 .. 4] : Layered(lev)

\* The table of the last root slot: the kernel image is below it (linker.ld), under
\* another entry than the last.
LastTable == BootTables[BootPml4][N - 1].frame

\* What the boot loader leaves: tables of their own memory, outside page_list, that map
\* nothing for user mode.
ASSUME BootAssumption ==
  /\ BootPml4 \in DOMAIN BootTables
  /\ \A f \in DOMAIN BootTables :
       /\ f[1] \notin {"none", "page", "ecam"}
       /\ BootTables[f] = [x \in Index |-> BootTables[f][x]]
       /\ \A x \in Index : BootTables[f][x].present \in BOOLEAN /\ BootTables[f][x] # Junk
  /\ \E lev \in [DOMAIN BootTables -> 1 .. 4] : Layered(lev)
  /\ \A f \in DOMAIN BootTables : \A x \in Index :
       LET e == BootTables[f][x] IN
       e.present /\ (BootLevel[f] = 1 \/ e.frame \notin DOMAIN BootTables) => ~e.user
  /\ BootTables[BootPml4][N - 1].present /\ LastTable \in DOMAIN BootTables
  /\ ~BootTables[LastTable][N - 1].present
  /\ \A d \in Devices : d[1] # "page" /\ d \notin DOMAIN BootTables

PageList == {Page(k) : k \in 0 .. pages - 1}

\* A page that serves for nothing here; the root is the table of level 4, a page mapped
\* at virt has level 0.
NoHome == [level |-> -1, virt |-> 0]
Home(l, v) == [level |-> l, virt |-> v]

Init ==
  /\ pages \in PageCounts
  /\ mem = [f \in DOMAIN BootTables \cup {Page(k) : k \in 0 .. pages - 1} |->
              IF f \in DOMAIN BootTables THEN BootTables[f] ELSE [x \in Index |-> Junk]]
  /\ used = 0 /\ page = None /\ taken = {}
  /\ stage = "get_pml4" /\ off = 0 /\ offst = 0 /\ mmio = {}
  /\ newpml4 = None /\ user_as = None /\ home = [f \in PageList |-> NoHome]
  /\ pc = "idle" /\ level = 4 /\ table = BootPml4
  /\ virt = 0 /\ phys = None /\ user = FALSE

\* Mutant: the page is not marked used.
PageNotMarked ==
  /\ used < pages
  /\ page' = Page(used)
  /\ UNCHANGED <<pages, used, taken>>

\* __giverawpage: the first unused page (OutOfPages below if there is none).
GiveRawPage ==
  /\ used < pages
  /\ page' = Page(used)
  /\ used' = used + 1
  /\ UNCHANGED <<pages, taken>>

\* memset of the whole page.
Clear(f) == mem' = [mem EXCEPT ![f] = [x \in Index |-> NotPresent]]

-------------------------------------------------------------------------------
(* map_page *)

MapPage(space, v, f, u) ==
  /\ pc = "idle" /\ pc' = "walk"
  /\ level' = 4 /\ table' = space /\ virt' = v /\ phys' = f /\ user' = u

Slot == mem[table][EntryIndex(level, virt)]

\* Mutant: the flags are not masked out of the address.
WalkUnmasked ==
  /\ pc = "walk" /\ level > 1 /\ Slot.present
  /\ level' = level - 1
  /\ table' = <<"unmasked", Slot.frame[2]>>
  /\ UNCHANGED <<mem, poolVars, bootVars, pc, argVars>>

\* The entry is present: on to the table it names.
WalkDown ==
  /\ pc = "walk" /\ level > 1 /\ Slot.present
  /\ level' = level - 1
  /\ table' = Slot.frame
  /\ UNCHANGED <<mem, poolVars, bootVars, pc, argVars>>

\* It is not: a page for the next table.
GiveTable ==
  /\ pc = "walk" /\ level > 1 /\ ~Slot.present
  /\ GiveRawPage
  /\ pc' = "clear"
  /\ UNCHANGED <<mem, bootVars, level, table, argVars>>

\* Mutant: the new table is not cleared.
TableNotCleared ==
  /\ pc = "clear" /\ pc' = "link"
  /\ UNCHANGED <<mem, poolVars, bootVars, level, table, argVars>>

ClearTable ==
  /\ pc = "clear" /\ pc' = "link"
  /\ Clear(page)
  /\ UNCHANGED <<poolVars, bootVars, level, table, argVars>>

LinkTable ==
  /\ pc = "link" /\ pc' = "walk"
  /\ mem' = [mem EXCEPT ![table][EntryIndex(level, virt)] = Entry(page, TRUE)]
  /\ home' = [home EXCEPT ![page] = Home(level - 1, virt)]
  /\ UNCHANGED <<poolVars, stage, off, offst, newpml4, user_as, mmio, level, table, argVars>>

\* Mutant: no test whether the address is mapped already.
StoreAlways ==
  /\ pc = "walk" /\ level = 1
  /\ mem' = [mem EXCEPT ![table][EntryIndex(1, virt)] = Entry(phys, user)]
  /\ pc' = "return"
  /\ UNCHANGED <<poolVars, bootVars, level, table, argVars>>

\* The last level: the entry is stored, or left if it is present (-1, which every
\* caller ignores).
StoreEntry ==
  /\ pc = "walk" /\ level = 1
  /\ mem' = IF Slot.present THEN mem
            ELSE [mem EXCEPT ![table][EntryIndex(1, virt)] = Entry(phys, user)]
  /\ pc' = "return"
  /\ UNCHANGED <<poolVars, bootVars, level, table, argVars>>

map_page == WalkDown \/ GiveTable \/ ClearTable \/ LinkTable \/ StoreEntry

-------------------------------------------------------------------------------
(* virtual_memory_init *)

GetPml4 ==
  /\ stage = "get_pml4" /\ stage' = "fill_pml4"
  /\ GiveRawPage
  /\ UNCHANGED <<mem, off, offst, rootVars, mmio, callVars>>

\* Mutant: one entry too few.
AllButLast(f, from) ==
  mem' = [mem EXCEPT ![f] = [x \in Index |-> IF x \in UpperHalf \ {N - 1} THEN mem[from][x]
                                             ELSE NotPresent]]

\* The upper half of a root is copied, the lower half cleared.
CopyUpperHalf(f, from) ==
  mem' = [mem EXCEPT ![f] = [x \in Index |-> IF x \in UpperHalf THEN mem[from][x]
                                             ELSE NotPresent]]

FillPml4 ==
  /\ stage = "fill_pml4" /\ stage' = "ecam"
  /\ CopyUpperHalf(page, BootPml4)
  /\ newpml4' = page
  /\ home' = [home EXCEPT ![page] = Home(4, 0)]
  /\ UNCHANGED <<poolVars, off, offst, user_as, mmio, callVars>>

MapEcam ==
  /\ stage = "ecam" /\ off < PCI_ECAM_SIZE
  /\ MapPage(newpml4, PCI_ECAM_BASE + off, <<"ecam", off>>, FALSE)
  /\ stage' = "ecam_next"
  /\ UNCHANGED <<mem, poolVars, off, offst, rootVars, mmio>>

NextEcam ==
  /\ stage = "ecam_next" /\ stage' = "ecam"
  /\ pc = "return" /\ pc' = "idle"
  /\ off' = off + 1
  /\ UNCHANGED <<mem, poolVars, offst, rootVars, mmio, level, table, argVars>>

\* write_cr3, and on to user_space_init: a page for the user's root.
GetUserPml4 ==
  /\ stage = "ecam" /\ off = PCI_ECAM_SIZE
  /\ stage' = "fill_user"
  /\ GiveRawPage
  /\ UNCHANGED <<mem, off, offst, rootVars, mmio, callVars>>

-------------------------------------------------------------------------------
(* user_space_init *)

FillUserPml4 ==
  /\ stage = "fill_user" /\ stage' = "get_code"
  /\ CopyUpperHalf(page, newpml4)
  /\ user_as' = page
  /\ home' = [home EXCEPT ![page] = Home(4, 0)]
  /\ UNCHANGED <<poolVars, off, offst, newpml4, mmio, callVars>>

\* A page, cleared, for address v of the user space.
GetUserPage(from, v, to) ==
  /\ stage = from /\ stage' = to
  /\ GiveRawPage
  /\ Clear(page')
  /\ home' = [home EXCEPT ![page'] = Home(0, v)]
  /\ UNCHANGED <<off, offst, newpml4, user_as, mmio, callVars>>

MapUserPage(from, v, to) ==
  /\ stage = from /\ stage' = to
  /\ MapPage(user_as, v, page, TRUE)
  /\ UNCHANGED <<mem, poolVars, off, offst, rootVars, mmio>>

UserPageDone(from, to) ==
  /\ stage = from /\ stage' = to
  /\ pc = "return" /\ pc' = "idle"
  /\ UNCHANGED <<mem, poolVars, off, offst, rootVars, mmio, level, table, argVars>>

\* setupbspcpudata takes a page for the per-CPU block, and clears it.
GetBlock ==
  /\ stage = "get_block" /\ stage' = "ready"
  /\ used < pages
  /\ Clear(Page(used))
  /\ taken' = taken \cup {Page(used)}
  /\ used' = used + 1
  /\ UNCHANGED <<pages, page, off, offst, rootVars, mmio, callVars>>

user_space_init ==
  \/ FillUserPml4
  \/ GetUserPage("get_code", USER_CODE, "map_code")
  \/ MapUserPage("map_code", USER_CODE, "code_done")
  \/ UserPageDone("code_done", "get_stack")
  \/ GetUserPage("get_stack", USER_STACK, "map_stack")
  \/ MapUserPage("map_stack", USER_STACK, "stack_done")
  \/ UserPageDone("stack_done", "get_block")
  \/ GetBlock

-------------------------------------------------------------------------------
(* map_mmio, and the other users of pages *)

MapMmio(d) ==
  /\ stage = "ready" /\ stage' = "mmio"
  /\ offst < MmioCalls
  /\ MapPage(newpml4, MMIO_BASE + offst, d, FALSE)
  /\ UNCHANGED <<mem, poolVars, off, offst, rootVars, mmio>>

\* Mutant: the address of the next call is returned.
MmioNext ==
  /\ stage = "mmio" /\ stage' = "ready"
  /\ pc = "return" /\ pc' = "idle"
  /\ offst' = offst + 1
  /\ mmio' = mmio \cup {[virt |-> MMIO_BASE + offst', phys |-> phys]}
  /\ UNCHANGED <<mem, poolVars, off, rootVars, level, table, argVars>>

MmioDone ==
  /\ stage = "mmio" /\ stage' = "ready"
  /\ pc = "return" /\ pc' = "idle"
  /\ offst' = offst + 1
  /\ mmio' = mmio \cup {[virt |-> MMIO_BASE + offst' - 1, phys |-> phys]}
  /\ UNCHANGED <<mem, poolVars, off, rootVars, level, table, argVars>>

\* An application processor gets the page of its per-CPU block and writes it.
TakePage ==
  /\ stage \in {"ready", "mmio"} /\ used < pages /\ used < Others
  /\ taken' = taken \cup {Page(used)}
  /\ used' = used + 1
  /\ mem' = [mem EXCEPT ![Page(used)] = [x \in Index |-> Junk]]
  /\ UNCHANGED <<pages, page, bootVars, callVars>>

\* __giverawpage without an unused page: panic.  KGetPage returns NULL instead, and
\* setupbspcpudata faults on it.
OutOfPages ==
  /\ used = pages
  /\ \/ pc = "walk" /\ level > 1 /\ ~Slot.present
     \/ stage \in {"get_pml4", "get_code", "get_stack", "get_block"}
     \/ stage = "ecam" /\ off = PCI_ECAM_SIZE
  /\ stage' = "panic" /\ pc' = "panic"
  /\ UNCHANGED <<mem, poolVars, off, offst, rootVars, mmio, level, table, argVars>>

Next == \/ map_page \/ user_space_init
        \/ GetPml4 \/ FillPml4 \/ MapEcam \/ NextEcam \/ GetUserPml4
        \/ \E d \in Devices : MapMmio(d)
        \/ MmioDone \/ TakePage \/ OutOfPages

Spec == Init /\ [][Next]_vars

-------------------------------------------------------------------------------
(* What the CPU's table walk finds *)

Below(m, e, l, v) ==
  IF e.present /\ e.frame \in DOMAIN m THEN m[e.frame][EntryIndex(l, v)] ELSE e

\* The entries from the root down to the page.
Walk(m, root, v) ==
  LET e4 == m[root][EntryIndex(4, v)]
      e3 == Below(m, e4, 3, v)
      e2 == Below(m, e3, 2, v)
  IN  <<e4, e3, e2, Below(m, e2, 1, v)>>

Path(root, v) == Walk(mem, root, v)

Translate(root, v) == Path(root, v)[4]

UserReads(root, v) == \A k \in 1 .. 4 : Path(root, v)[k].present /\ Path(root, v)[k].user

\* The roots in use: the application processors', the kernel's and the user's.
Spaces == {BootPml4} \cup ({newpml4, user_as} \ {None})

\* The upper half of the address space.
KernelAddress == {v \in Address : EntryIndex(4, v) \in UpperHalf}

\* The mappings of the boot loader; its direct map reaches the pages of page_list too.
BootMapping == [v \in Address |-> Walk(BootTables, BootPml4, v)[4]]

-------------------------------------------------------------------------------
(* Properties *)

\* The values of the tables and of the locals.
TypeOK ==
  /\ \A f \in DOMAIN mem : \A x \in Index : mem[f][x].present \in BOOLEAN
  /\ used \in 0 .. pages
  /\ off \in 0 .. PCI_ECAM_SIZE /\ offst \in 0 .. MmioCalls
  /\ pc \in {"idle", "walk", "clear", "link", "return", "panic"} /\ level \in 1 .. 4
  /\ table \in DOMAIN mem /\ virt \in Address
  /\ Spaces \subseteq DOMAIN mem

\* All spaces agree on the kernel's half at every moment, although each has a copy of
\* the root that is made once: an address from map_mmio (lapic) that the bootstrap CPU
\* maps later is good on the application processors and under the user's root too.
KernelHalfShared ==
  \A s \in Spaces : \A v \in KernelAddress : Translate(s, v) = Translate(BootPml4, v)

\* No walk from a root in use ends in the old contents of a page, not even between
\* the steps of map_page: a table is cleared before it is linked.
NoJunkReachable ==
  \A s \in Spaces : \A v \in Address : \A k \in 1 .. 4 : Path(s, v)[k] # Junk

\* What is mapped stays mapped to the same frame with the same rights, in every space.
KeepsMappings ==
  \A s \in Spaces : \A v \in Address :
    Translate(s, v).present => Translate(s, v)' = Translate(s, v)

\* The walks that end at a page, the frames of the tables on their way, and those of the pages
\* that map_page has mapped.
Reached == {w \in {[at |-> v, path |-> Path(s, v)] : s \in Spaces, v \in Address} : w.path[4].present}
TablesReached == {w.path[k].frame : w \in Reached, k \in 1 .. 3}
PagesReached == {w.path[4].frame : w \in {w \in Reached : w.path[4] # BootMapping[w.at]}}

\* Tables, the pages that map_page has mapped and the pages of other callers are different
\* frames, and none of them is unused.
FramesApart ==
  LET tables == Spaces \cup TablesReached
      leaves == PagesReached
  IN  /\ tables \cap leaves = {} /\ tables \cap taken = {} /\ leaves \cap taken = {}
      /\ \A k \in used .. pages - 1 : Page(k) \notin tables \cup leaves

\* A mapping leads where its caller meant it to.  An address that map_mmio returned leads
\* to the frame it was asked for, as long as it lies in the window (past MMIO_SIZE calls
\* it would be one of PCI_ECAM's); and in user mode only the code and the stack page can
\* be reached, each with a page of its own, although every table map_page makes is open
\* to user mode.
MappedAsMeant ==
  /\ \A r \in mmio : r.virt < MMIO_BASE + MMIO_SIZE => Translate(newpml4, r.virt).frame = r.phys
  /\ \A s \in Spaces : \A v \in Address :
       UserReads(s, v) =>
         /\ s = user_as /\ v \in {USER_CODE, USER_STACK}
         /\ USER_CODE # USER_STACK => Translate(s, USER_CODE).frame # Translate(s, USER_STACK).frame

\* From the first step of virtual_memory_init on, the address spaces share their upper
\* half, hold no entry of an uncleared page, give each table and page one purpose, and map
\* what their callers meant.
AddressSpacesRight ==
  /\ TypeOK
  /\ stage # "get_pml4" =>
       KernelHalfShared /\ NoJunkReachable /\ FramesApart /\ MappedAsMeant

\* Whatever the callers of map_page map next, every address that is mapped leads where it
\* led before.
MappingsKept == [][KeepsMappings]_vars

-------------------------------------------------------------------------------
(* The inductive invariant of the proofs (module PageTablesProofs) *)

\* v and w lie below the same table of level l.
SameTable(l, v, w) == \A k \in l + 1 .. 4 : EntryIndex(k, v) = EntryIndex(k, w)

\* The contents, and what a page serves for: unused pages and those of others for nothing.
PoolInv ==
  /\ pages \in Nat /\ used \in 0 .. pages
  /\ mem = [f \in DOMAIN BootTables \cup PageList |-> [x \in Index |-> mem[f][x]]]
  /\ \A f \in DOMAIN mem : \A x \in Index : mem[f][x].present \in BOOLEAN
  /\ home \in [PageList -> [level : -1 .. 4, virt : Address]]
  /\ \A k \in used .. pages - 1 : home[Page(k)].level = -1 /\ Page(k) \notin taken
  /\ \A f \in taken : f \in PageList /\ home[f].level = -1

\* Of the boot loader's tables only one entry changes: the last of the last root slot's
\* table gets a table for the windows.
BootInv ==
  /\ \A f \in DOMAIN BootTables : \A x \in Index :
       <<f, x>> = <<LastTable, N - 1>> \/ mem[f][x] = BootTables[f][x]
  /\ LET e == mem[LastTable][N - 1] IN
     \/ e = BootTables[LastTable][N - 1]
     \/ \E g \in PageList : /\ e = Entry(g, TRUE)
                            /\ home[g].level = 2 /\ home[g].virt \in Windows

\* The addresses of the windows that map_page has been called for.
Called == {PCI_ECAM_BASE + o : o \in 0 .. off - 1} \cup {MMIO_BASE + o : o \in 0 .. offst - 1}
          \cup (IF pc = "return" THEN {virt} ELSE {})

\* e is what a caller has put at address v.
PutAt(v, e) ==
  \/ /\ v \in Windows \cap Called
     /\ \E f \in Devices \cup {<<"ecam", o>> : o \in 0 .. PCI_ECAM_SIZE - 1} : e = Entry(f, FALSE)
  \/ /\ v \in {USER_CODE, USER_STACK}
     /\ \E h \in PageList : e = Entry(h, TRUE) /\ home[h] = Home(0, v)

\* e may stand at index x of page g, a table: it belongs to the addresses g is for.  It is a
\* table of the level below, or at level 1 what was put there.
Fits(g, x, e) ==
  LET l == home[g].level IN
  \E v \in Address :
    /\ SameTable(l, v, home[g].virt) /\ EntryIndex(l, v) = x
    /\ IF l = 1 THEN PutAt(v, e)
       ELSE \E h \in PageList : e = Entry(h, TRUE) /\ home[h] = Home(l - 1, v)

BelowInv ==
  \A g \in PageList : \A x \in Index :
    home[g].level \in 1 .. 3 /\ mem[g][x] # NotPresent => Fits(g, x, mem[g][x])

\* The roots: the upper half is the boot loader's; the lower half of the kernel's is empty.
RootInv ==
  /\ \A g \in PageList : home[g].level = 4 <=> g \in {newpml4, user_as}
  /\ \A s \in {newpml4, user_as} \ {None} :
       s \in PageList /\ \A x \in UpperHalf : mem[s][x] = BootTables[BootPml4][x]
  /\ newpml4 # None => \A x \in Index \ UpperHalf : mem[newpml4][x] = NotPresent
  /\ user_as # None => \A x \in Index \ UpperHalf :
       \/ mem[user_as][x] = NotPresent
       \/ \E h \in PageList : /\ mem[user_as][x] = Entry(h, TRUE)
                              /\ home[h].level = 3 /\ EntryIndex(4, home[h].virt) = x
  /\ newpml4 # None => newpml4 # user_as

\* The callers: who runs map_page for what, and which roots there are.
Calling == {"ecam_next", "code_done", "stack_done", "mmio"}
StageInv ==
  /\ pc \in {"walk", "clear", "link", "return"} <=> stage \in Calling
  /\ pc = "panic" <=> stage = "panic"
  /\ off \in 0 .. PCI_ECAM_SIZE /\ offst \in 0 .. MmioCalls
  /\ stage = "ecam_next" => /\ virt = PCI_ECAM_BASE + off /\ off < PCI_ECAM_SIZE
                            /\ phys = <<"ecam", off>> /\ user = FALSE
  /\ stage = "mmio" => /\ virt = MMIO_BASE + offst /\ offst < MmioCalls
                       /\ phys \in Devices /\ user = FALSE
  /\ stage = "map_code" => page \in PageList /\ home[page] = Home(0, USER_CODE)
  /\ stage = "map_stack" => page \in PageList /\ home[page] = Home(0, USER_STACK)
  /\ stage = "code_done" => /\ phys \in PageList /\ home[phys] = Home(0, USER_CODE)
                            /\ virt = USER_CODE /\ user = TRUE
  /\ stage = "stack_done" => /\ phys \in PageList /\ home[phys] = Home(0, USER_STACK)
                             /\ virt = USER_STACK /\ user = TRUE
  /\ stage \in {"get_pml4", "fill_pml4"} => newpml4 = None
  /\ stage \notin {"get_pml4", "fill_pml4", "panic"} => newpml4 # None
  /\ stage \in {"get_pml4", "fill_pml4", "ecam", "ecam_next", "fill_user"} => user_as = None
  /\ stage \in {"get_code", "map_code", "code_done", "get_stack", "map_stack", "stack_done"} =>
       user_as # None

\* The root map_page was called with.
Root == IF stage \in {"code_done", "stack_done"} THEN user_as ELSE newpml4

\* map_page: its table is the one of its level for its address, and the CPU's walk comes by
\* it; a page that is to become a table serves for nothing yet.
WalkInv ==
  /\ pc \in {"idle", "walk", "clear", "link", "return", "panic"}
  /\ level \in 1 .. 4 /\ virt \in Address /\ table \in DOMAIN mem
  /\ pc \in {"walk", "clear", "link"} =>
       /\ level = 4 => table = Root
       /\ level < 4 =>
            /\ Path(Root, virt)[4 - level].present /\ Path(Root, virt)[4 - level].frame = table
            /\ \/ level = 3 /\ table = LastTable /\ virt \in Windows
               \/ /\ table \in PageList /\ home[table].level = level
                  /\ SameTable(level, home[table].virt, virt)
  /\ pc \in {"clear", "link"} => level > 1 /\ ~Slot.present
  /\ pc \in {"clear", "link"} \/ stage \in {"fill_pml4", "fill_user"} =>
       page \in PageList \ taken /\ home[page].level = -1 /\ \E k \in 0 .. used - 1 : page = Page(k)
  /\ pc = "link" => \A x \in Index : mem[page][x] = NotPresent

\* What map_mmio has mapped, in its window, leads to the frame it was asked for.
MmioInv ==
  /\ mmio # {} => newpml4 # None
  /\ \A r \in mmio : /\ r.virt \in MMIO_BASE .. MMIO_BASE + offst - 1
                     /\ r.virt < MMIO_BASE + MMIO_SIZE => Translate(newpml4, r.virt) = Entry(r.phys, FALSE)
  /\ stage = "mmio" /\ pc = "return" /\ virt < MMIO_BASE + MMIO_SIZE =>
       Translate(newpml4, virt) = Entry(phys, FALSE)

Inv == PoolInv /\ BootInv /\ BelowInv /\ RootInv /\ StageInv /\ WalkInv /\ MmioInv
===============================================================================
