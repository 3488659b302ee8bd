--------------------------- MODULE PageTablesProofs ---------------------------
(***************************************************************************)
(* Proofs about PageTables, for tables of any even size, any tables of the *)
(* boot loader, any windows at the end of the address space and any number *)
(* of pages: the control flow and the calls keep their parts of the        *)
(* invariant, and what the invariant says of the address spaces.           *)
(***************************************************************************)
EXTENDS PageTablesLemmas, TLAPS

\* The callers of map_page pass on what they mean to map, and each root is there when used.
LEMMA StageStep == ASSUME Inv, Next PROVE StageInv'
<1> USE DEF Calling
<1>0. PageList' = PageList /\ PoolInv /\ None \notin PageList
  BY PoolStep, Shape, Zenon DEF Inv
<1>1. /\ pc \in {"walk", "clear", "link", "return"} <=> stage \in Calling
      /\ pc = "panic" <=> stage = "panic"
      /\ off \in 0 .. PCI_ECAM_SIZE /\ offst \in 0 .. MmioCalls
      /\ stage = "ecam_next" => /\ virt = PCI_ECAM_BASE + off /\ off < PCI_ECAM_SIZE
                                /\ phys = <<"ecam", off>> /\ user = FALSE
      /\ stage = "mmio" => /\ virt = MMIO_BASE + offst /\ offst < MmioCalls
                           /\ phys \in Devices /\ user = FALSE
      /\ stage = "map_code" => page \in PageList /\ home[page] = Home(0, USER_CODE)
      /\ stage = "map_stack" => page \in PageList /\ home[page] = Home(0, USER_STACK)
      /\ stage = "code_done" => /\ phys \in PageList /\ home[phys] = Home(0, USER_CODE)
                                /\ virt = USER_CODE /\ user = TRUE
      /\ stage = "stack_done" => /\ phys \in PageList /\ home[phys] = Home(0, USER_STACK)
                                 /\ virt = USER_STACK /\ user = TRUE
      /\ stage \in {"get_pml4", "fill_pml4"} => newpml4 = None
      /\ stage \notin {"get_pml4", "fill_pml4", "panic"} => newpml4 # None
      /\ stage \in {"get_pml4", "fill_pml4", "ecam", "ecam_next", "fill_user"} => user_as = None
      /\ stage \in {"get_code", "map_code", "code_done", "get_stack", "map_stack", "stack_done"} =>
           user_as # None
  BY Zenon DEF Inv, StageInv
\* A page mapped for the user stays one.
<1>2. ASSUME NEW f \in PageList, NEW v, home[f] = Home(0, v) PROVE home'[f] = Home(0, v)
  <2>1. home[f].level # -1
    BY <1>2 DEF Home
  <2> QED
    BY <1>2, <2>1, HomeKept, Zenon
<1>3. {PCI_ECAM_SIZE, MmioCalls} \subseteq Nat
  BY TableAssumption, Zenon
\* map_page goes on.
<1>4. CASE WalkDown \/ GiveTable \/ ClearTable \/ LinkTable \/ StoreEntry
  <2>1. /\ pc \in {"walk", "clear", "link"} /\ pc' \in {"walk", "clear", "link", "return"}
        /\ UNCHANGED <<stage, off, offst, newpml4, user_as, virt, phys, user>>
    BY <1>4, Zenon DEF WalkDown, GiveTable, ClearTable, LinkTable, StoreEntry, bootVars, rootVars, argVars
  <2> QED
    BY <1>0, <1>1, <1>2, <2>1, Zenon DEF StageInv
<1>5. CASE GetPml4
  BY <1>0, <1>1, <1>5, Zenon DEF StageInv, GetPml4, rootVars, callVars
<1>6. CASE FillPml4
  <2>1. page \in PageList
    BY <1>6, Zenon DEF FillPml4, Inv, WalkInv
  <2> QED
    BY <1>0, <1>1, <1>6, <2>1, Zenon DEF StageInv, FillPml4, callVars
<1>7. CASE MapEcam
  BY <1>0, <1>1, <1>7, Zenon DEF StageInv, MapEcam, MapPage, rootVars
<1>8. CASE NextEcam
  <2>1. off' \in 0 .. PCI_ECAM_SIZE
    BY <1>1, <1>3, <1>8 DEF NextEcam
  <2> QED
    BY <1>0, <1>1, <1>8, <2>1, Zenon DEF StageInv, NextEcam, rootVars
<1>9. CASE GetUserPml4
  BY <1>0, <1>1, <1>9, Zenon DEF StageInv, GetUserPml4, rootVars, callVars
<1>10. CASE FillUserPml4
  <2>1. page \in PageList
    BY <1>10, Zenon DEF FillUserPml4, Inv, WalkInv
  <2> QED
    BY <1>0, <1>1, <1>10, <2>1, Zenon DEF StageInv, FillUserPml4, callVars
<1>11. ASSUME NEW a, NEW v, NEW b, GetUserPage(a, v, b)
       PROVE  page' \in PageList /\ home'[page'] = Home(0, v)
  <2>1. used < pages /\ page' = Page(used) /\ home' = [home EXCEPT ![page'] = Home(0, v)]
    BY <1>11, Zenon DEF GetUserPage, GiveRawPage
  <2>2. Page(used) \in PageList
    BY <1>0, <2>1, Fresh, Zenon
  <2> QED
    BY <1>0, <2>1, <2>2, Zenon DEF PoolInv
<1>12. CASE GetUserPage("get_code", USER_CODE, "map_code")
  <2>1. page' \in PageList /\ home'[page'] = Home(0, USER_CODE)
    BY <1>11, <1>12, Zenon
  <2> QED
    BY <1>0, <1>1, <1>12, <2>1, Zenon DEF StageInv, GetUserPage, callVars
<1>13. CASE GetUserPage("get_stack", USER_STACK, "map_stack")
  <2>1. page' \in PageList /\ home'[page'] = Home(0, USER_STACK)
    BY <1>11, <1>13, Zenon
  <2> QED
    BY <1>0, <1>1, <1>13, <2>1, Zenon DEF StageInv, GetUserPage, callVars
<1>14. CASE MapUserPage("map_code", USER_CODE, "code_done")
  BY <1>0, <1>1, <1>14, Zenon DEF StageInv, MapUserPage, MapPage, rootVars
<1>15. CASE MapUserPage("map_stack", USER_STACK, "stack_done")
  BY <1>0, <1>1, <1>15, Zenon DEF StageInv, MapUserPage, MapPage, rootVars
<1>16. CASE UserPageDone("code_done", "get_stack") \/ UserPageDone("stack_done", "get_block")
  BY <1>0, <1>1, <1>16, Zenon DEF StageInv, UserPageDone, rootVars
<1>17. CASE GetBlock
  BY <1>0, <1>1, <1>17, Zenon DEF StageInv, GetBlock, rootVars, callVars
<1>18. ASSUME NEW d \in Devices, MapMmio(d) PROVE StageInv'
  BY <1>0, <1>1, <1>18, Zenon DEF StageInv, MapMmio, MapPage, rootVars
<1>19. CASE MmioDone
  <2>1. offst' \in 0 .. MmioCalls
    BY <1>1, <1>3, <1>19 DEF MmioDone
  <2> QED
    BY <1>0, <1>1, <1>19, <2>1, Zenon DEF StageInv, MmioDone, rootVars
<1>20. CASE TakePage
  BY <1>0, <1>1, <1>20, Zenon DEF StageInv, TakePage, bootVars, rootVars, callVars, argVars
<1>21. CASE OutOfPages
  BY <1>0, <1>1, <1>21, Zenon DEF StageInv, OutOfPages, rootVars
<1> QED
  BY <1>4, <1>5, <1>6, <1>7, <1>8, <1>9, <1>10, <1>12, <1>13, <1>14, <1>15, <1>16, <1>17, <1>18, <1>19, <1>20, <1>21, Zenon
     DEF Next, map_page, user_space_init

\* map_page's table is still the right one, whatever is written meanwhile.
AtTable ==
  /\ level = 4 => table = Root
  /\ level < 4 =>
       /\ Path(Root, virt)[4 - level].present /\ Path(Root, virt)[4 - level].frame = table
       /\ \/ level = 3 /\ table = LastTable /\ virt \in Windows
          \/ /\ table \in PageList /\ home[table].level = level
             /\ SameTable(level, home[table].virt, virt)

\* No step adds or removes a table's memory.
LEMMA Domains == ASSUME Inv, Next PROVE DOMAIN mem' = DOMAIN mem
<1>1. PoolInv' /\ PageList' = PageList
  BY PoolStep, Zenon
<1>2. mem' = [f \in DOMAIN BootTables \cup PageList |-> [x \in Index |-> mem'[f][x]]]
  BY <1>1, Zenon DEF PoolInv
<1> QED
  BY <1>2, Shape, Zenon DEF Inv

\* The walk stays at the table it has reached while it is not moved.
LEMMA TableKept ==
  ASSUME Inv, Next, pc \in {"walk", "clear", "link"}, UNCHANGED <<stage, level, table, virt, newpml4, user_as>>
  PROVE  AtTable'
<1>1. AtTable
  BY Zenon DEF Inv, WalkInv, AtTable
<1>2. Root' = Root /\ PageList' = PageList
  BY PoolStep, Zenon DEF Root
<1>3. CASE level = 4
  BY <1>1, <1>2, <1>3 DEF AtTable
<1>4. CASE level < 4
  <2>1. PICK r : r = Root
    OBVIOUS
  <2>2. PICK v \in Address : v = virt
    BY Zenon DEF Inv, WalkInv
  <2>3. r \in Spaces
    BY <2>1, CallTable, CallRoot, Zenon
  <2>4. PICK k \in 1 .. 3 : k = 4 - level
    BY <1>4 DEF Inv, WalkInv
  <2>5. Path(r, v)[k].present /\ Path(r, v)[k].frame = table
    BY <1>1, <1>4, <2>1, <2>2, <2>4, Zenon DEF AtTable
  <2>6. Walk(mem', r, v)[k] = Path(r, v)[k]
    BY <2>3, <2>5, PathKept
  <2>7. Path(Root, virt)'[4 - level'] = Path(r, v)[k]
    BY <1>2, <2>1, <2>2, <2>4, <2>6, Zenon DEF Path
  <2>8. table \in PageList /\ home[table].level = level => home'[table] = home[table]
    BY HomeKept DEF Inv, WalkInv
  <2> QED
    BY <1>1, <1>2, <1>4, <2>5, <2>7, <2>8, Zenon DEF AtTable
<1> QED
  BY <1>3, <1>4 DEF Inv, WalkInv

\* The entry map_page looks at, if nothing is written there.
LEMMA SlotKept ==
  ASSUME Inv, Next, pc \in {"walk", "clear", "link"}, ~LinkTable, ~StoreEntry, UNCHANGED <<level, table, virt>>
  PROVE  Slot' = Slot
<1>1. table \in DOMAIN mem /\ Serves(table) /\ EntryIndex(level, virt) \in Index
  BY CallTable, Zenon
<1>2. PICK f \in DOMAIN mem, x \in Index : f = table /\ x = EntryIndex(level, virt)
  BY <1>1, Zenon
<1>3. mem'[f][x] = mem[f][x]
  BY <1>1, <1>2, OnlyEntry, Zenon
<1> QED
  BY <1>2, <1>3, Zenon DEF Slot

\* The next table is the one of its level for the address.
LEMMA StepsDown == ASSUME Inv, Next, WalkDown PROVE AtTable' /\ table' \in DOMAIN mem
<1>1. PICK x \in Index : x = EntryIndex(level, virt)
  BY CallTable, Zenon DEF WalkDown
<1>2. PICK e : e = Slot
  OBVIOUS
<1>3. e = mem[table][x] /\ e.present /\ level \in 2 .. 4 /\ table' = e.frame /\ level' = level - 1
  BY <1>1, <1>2 DEF WalkDown, Slot, Inv, WalkInv
<1>4. UNCHANGED <<mem, stage, virt, newpml4, user_as, home, pages>> /\ Root' = Root /\ PageList' = PageList
  BY Zenon DEF WalkDown, bootVars, rootVars, argVars, poolVars, Root, PageList
<1>5. AtTable /\ stage \in Calling /\ virt \in Address
  BY CallTable, Zenon DEF Inv, WalkInv, AtTable, WalkDown
<1>6. PICK r \in Spaces : r = Root
  BY <1>5, CallRoot, Zenon
<1>7. PICK v \in Address : v = virt
  BY <1>5, Zenon
<1>8. PICK q : q = Path(r, v)
  OBVIOUS
<1>9. q[5 - level] = e
  <2>1. CASE level = 4
    <3>1. table = r /\ q[1] = mem[r][EntryIndex(4, v)]
      BY <1>5, <1>6, <1>8, <2>1, Tables, Zenon DEF AtTable
    <3> QED
      BY <1>1, <1>3, <1>7, <2>1, <3>1
  <2>2. CASE level < 4
    <3>1. PICK k \in 1 .. 3 : k = 4 - level
      BY <1>3, <2>2
    <3>2. q[k].present /\ q[k].frame = table /\ table \in DOMAIN mem
      BY <1>5, <1>6, <1>7, <1>8, <2>2, <3>1, CallTable, Zenon DEF AtTable, WalkDown
    <3>3. q[k + 1] = mem[table][EntryIndex(4 - k, v)]
      BY <1>8, <3>2, Tables, Zenon
    <3>4. 4 - k = level /\ k + 1 = 5 - level
      BY <1>3, <3>1
    <3> QED
      BY <1>1, <1>3, <1>7, <3>3, <3>4, Zenon
  <2> QED
    BY <1>3, <2>1, <2>2
<1>10. Path(Root, virt)'[4 - level'] = e
  <2>1. Path(Root, virt)' = q
    BY <1>4, <1>6, <1>7, <1>8, Zenon DEF Path
  <2>2. 4 - level' = 5 - level
    BY <1>3
  <2> QED
    BY <1>9, <2>1, <2>2, Zenon
<1>11. e # NotPresent
  BY <1>3 DEF NotPresent
<1>12. /\ table' \in DOMAIN mem
       /\ \/ level' = 3 /\ table' = LastTable /\ virt \in Windows
          \/ /\ table' \in PageList /\ home[table'].level = level'
             /\ SameTable(level', home[table'].virt, virt)
  <2>1. DOMAIN mem = DOMAIN BootTables \cup PageList
    BY Shape, Zenon DEF Inv
  <2>2. CASE level = 4 /\ Root = newpml4 /\ virt \in Windows
    <3>1. x = N - 1 /\ x \in UpperHalf /\ table = newpml4 /\ newpml4 \in {newpml4, user_as} \ {None}
      BY <1>1, <1>5, <1>6, <2>2, Halves, CallRoot, Shape, Zenon DEF AtTable, Inv
    <3>2. e = BootTables[BootPml4][N - 1]
      BY <1>3, <3>1, Zenon DEF Inv, RootInv
    <3> QED
      BY <1>3, <2>1, <2>2, <3>2, BootFrames DEF LastTable
  <2>3. CASE level = 4 /\ Root = user_as /\ virt \in {USER_CODE, USER_STACK}
    <3>1. x \in Index \ UpperHalf /\ table = user_as /\ user_as # None
      BY <1>1, <1>5, <1>6, <2>3, Halves, CallRoot, Shape, Zenon DEF AtTable, Inv
    <3>2. PICK h \in PageList : e = Entry(h, TRUE) /\ home[h].level = 3 /\ EntryIndex(4, home[h].virt) = x
      BY <1>3, <1>11, <3>1, Zenon DEF Inv, RootInv
    <3>3. table' = h /\ level' = 3
      BY <1>3, <2>3, <3>2 DEF Entry
    <3>4. SameTable(3, home[h].virt, virt)
      BY <1>1, <2>3, <3>2 DEF SameTable
    <3> QED
      BY <2>1, <3>2, <3>3, <3>4, Zenon
  <2>4. CASE level = 3 /\ table = LastTable /\ virt \in Windows
    <3>1. x = N - 1
      BY <1>1, <2>4, Halves, Zenon
    <3>2. e # BootTables[LastTable][N - 1]
      BY <1>3, BootFrames, Zenon
    <3>3. PICK g \in PageList : e = Entry(g, TRUE) /\ home[g].level = 2 /\ home[g].virt \in Windows
      BY <1>3, <2>4, <3>1, <3>2, Zenon DEF Inv, BootInv
    <3>4. table' = g /\ level' = 2
      BY <1>3, <2>4, <3>3 DEF Entry
    <3>5. SameTable(2, home[g].virt, virt)
      BY <2>4, <3>3, Halves DEF SameTable
    <3> QED
      BY <2>1, <3>3, <3>4, <3>5, Zenon
  <2>5. CASE level \in 2 .. 3 /\ table \in PageList /\ home[table].level = level /\ SameTable(level, home[table].virt, virt)
    <3>1. PICK h \in PageList : /\ e = Entry(h, TRUE) /\ home[h].level = level - 1
                                /\ SameTable(level, home[h].virt, home[table].virt)
                                /\ EntryIndex(level, home[h].virt) = x
      BY <1>3, <1>11, <2>5, FitsTable, Zenon
    <3>2. table' = h
      BY <1>3, <3>1 DEF Entry
    <3>3. SameTable(level - 1, home[h].virt, virt)
      BY <1>1, <2>5, <3>1 DEF SameTable
    <3> QED
      BY <1>3, <2>1, <3>1, <3>2, <3>3, Zenon
  <2> QED
    BY <1>3, <1>5, <2>2, <2>3, <2>4, <2>5, CallRoot DEF AtTable
<1>13. level' < 4 /\ level' # 4
  BY <1>3
<1>14. \/ level' = 3 /\ table' = LastTable /\ virt' \in Windows
       \/ table' \in PageList' /\ home'[table'].level = level' /\ SameTable(level, home[table].virt, virt)'
  BY <1>4, <1>12, Zenon DEF SameTable
<1> QED
  BY <1>3, <1>10, <1>12, <1>13, <1>14, Zenon DEF AtTable

\* Outside map_page it has no page of its own, and the roots are filled at once.
Waits == pc \in {"clear", "link"} \/ stage \in {"fill_pml4", "fill_user"}

\* How a page comes to wait between its allocation and its use as a table.
LEMMA WaitStep ==
  ASSUME Inv, Next, Waits'
  PROVE  \/ (GiveTable \/ GetPml4 \/ GetUserPml4) /\ GiveRawPage /\ home' = home
         \/ Waits /\ (ClearTable \/ TakePage)
<1> USE DEF Waits
<1>1. /\ pc \in {"walk", "clear", "link", "return"} <=> stage \in Calling
      /\ pc = "panic" <=> stage = "panic"
  BY Zenon DEF Inv, StageInv
<1>2. CASE map_page
  BY <1>1, <1>2, Zenon DEF map_page, WalkDown, GiveTable, ClearTable, LinkTable, StoreEntry, bootVars, rootVars, Calling
<1>3. CASE user_space_init
  BY <1>1, <1>3, Zenon DEF user_space_init, FillUserPml4, GetUserPage, MapUserPage, MapPage, UserPageDone, GetBlock, callVars, Calling
<1>4. CASE GetPml4 \/ GetUserPml4
  BY <1>4, Zenon DEF GetPml4, GetUserPml4, rootVars
<1>5. CASE FillPml4 \/ MapEcam \/ NextEcam \/ MmioDone \/ \E d \in Devices : MapMmio(d)
  BY <1>1, <1>5, Zenon DEF FillPml4, MapEcam, NextEcam, MmioDone, MapMmio, MapPage, callVars, Calling
<1>6. CASE TakePage
  BY <1>6, Zenon DEF TakePage, bootVars, callVars
<1>7. CASE OutOfPages
  BY <1>7, Zenon DEF OutOfPages
<1> QED
  BY <1>2, <1>3, <1>4, <1>5, <1>6, <1>7, Zenon DEF Next

\* A page that waits serves for nothing yet.
LEMMA FreshStep ==
  ASSUME Inv, Next, Waits'
  PROVE  page' \in PageList' \ taken' /\ home'[page'].level = -1 /\ \E k \in 0 .. used' - 1 : page' = Page(k)
<1>0. used \in Nat
  BY DEF Inv, PoolInv
<1>1. PageList' = PageList /\ used \in Nat
  BY <1>0, PoolStep, Zenon
<1>2. CASE GiveRawPage /\ home' = home
  <2>1. page' = Page(used) /\ used' = used + 1 /\ taken' = taken /\ used < pages
    BY <1>2, Zenon DEF GiveRawPage
  <2>2. Page(used) \in PageList /\ home[Page(used)].level = -1 /\ Page(used) \notin taken
    BY <2>1, Fresh, Zenon DEF Inv
  <2>3. used \in 0 .. used' - 1
    BY <1>1, <2>1
  <2> QED
    BY <1>1, <1>2, <2>1, <2>2, <2>3, Zenon
<1>3. CASE Waits /\ (ClearTable \/ TakePage)
  <2>1. page \in PageList \ taken /\ home[page].level = -1
    BY <1>3, Zenon DEF Inv, WalkInv, Waits
  <2>2. PICK k \in 0 .. used - 1 : page = Page(k)
    BY <1>3, Zenon DEF Inv, WalkInv, Waits
  <2>3. page' = page /\ home' = home /\ used' \in {used, used + 1} /\ taken' \in {taken, taken \cup {Page(used)}}
    BY <1>3, Zenon DEF ClearTable, TakePage, poolVars, bootVars, rootVars
  <2>4. page # Page(used)
    BY <1>1, <2>2, PageNumbers
  <2>5. used' = used \/ used' = used + 1
    BY <2>3, Zenon
  <2>7. k \in 0 .. used' - 1
    BY <1>0, <2>2, <2>5
  <2>6. page \notin taken'
    BY <2>1, <2>3, <2>4, Zenon
  <2> QED
    BY <1>1, <2>1, <2>2, <2>3, <2>6, <2>7, Zenon
<1> QED
  BY <1>2, <1>3, WaitStep, Zenon

\* A table is linked after it has been cleared.
LEMMA ClearedStep ==
  ASSUME Inv, Next, pc' = "link"
  PROVE  \A x \in Index : mem'[page'][x] = NotPresent
<1>1. Waits'
  BY Zenon DEF Waits
<1>2. CASE ClearTable
  <2>1. page \in DOMAIN mem /\ page' = page
    BY <1>2, Shape, Zenon DEF ClearTable, Inv, WalkInv, poolVars
  <2>2. PICK c : c = [x \in Index |-> NotPresent]
    BY Zenon
  <2>3. mem'[page] = c
    BY <1>2, <2>1, <2>2, Filled, Zenon DEF ClearTable, Clear, Inv
  <2> QED
    BY <2>1, <2>2, <2>3, Zenon
<1>3. CASE Waits /\ TakePage
  <2>1. pc = "link" /\ page' = page /\ mem' = [mem EXCEPT ![Page(used)] = [x \in Index |-> Junk]] /\ used < pages
    BY <1>3, Zenon DEF TakePage, callVars
  <2>2. PICK k \in 0 .. used - 1 : page = Page(k)
    BY <2>1, Zenon DEF Inv, WalkInv
  <2>3. page \in PageList /\ page # Page(used)
    BY <2>1, <2>2, PageNumbers DEF Inv, WalkInv, PoolInv
  <2>4. mem'[page] = mem[page]
    BY <2>1, <2>3, Shape, Zenon DEF Inv
  <2> QED
    BY <2>1, <2>4, Zenon DEF Inv, WalkInv
<1>4. ~(GiveTable \/ GetPml4 \/ GetUserPml4)
  <2>1. ~GiveTable
    BY Zenon DEF GiveTable
  <2>2. ~GetPml4 /\ ~GetUserPml4
    BY Zenon DEF GetPml4, GetUserPml4, callVars, Inv, StageInv, Calling
  <2> QED
    BY <2>1, <2>2, Zenon
<1> QED
  BY <1>1, <1>2, <1>3, <1>4, WaitStep, Zenon

\* map_page is called for a root that there is.
LEMMA Starts ==
  ASSUME Inv, Next, pc = "idle", pc' = "walk"
  PROVE  /\ level' = 4 /\ table' = Root' /\ virt' \in Address /\ table' \in DOMAIN mem
<1>0. Top \in Nat
  BY Spans, Product
<1>1. \A s \in {newpml4, user_as} : s # None => s \in DOMAIN mem
  BY Shape, Zenon DEF Inv, RootInv
<1>2. /\ stage \in {"ecam", "ready"} => newpml4 # None
      /\ stage \in {"map_code", "map_stack"} => user_as # None
      /\ off \in 0 .. PCI_ECAM_SIZE /\ offst \in 0 .. MmioCalls
  BY Zenon DEF Inv, StageInv
<1>3. CASE MapEcam
  <2>1. level' = 4 /\ table' = newpml4 /\ virt' = PCI_ECAM_BASE + off /\ Root' = newpml4
    BY <1>3, Zenon DEF MapEcam, MapPage, Root, rootVars
  <2>2. off < PCI_ECAM_SIZE /\ stage = "ecam"
    BY <1>3, Zenon DEF MapEcam
  <2>3. PCI_ECAM_BASE + off \in Address
    BY <1>0, <1>2, <2>2, TableAssumption DEF Address
  <2> QED
    BY <1>1, <1>2, <2>1, <2>2, <2>3, Zenon
<1>4. CASE \E d \in Devices : MapMmio(d)
  <2>1. level' = 4 /\ table' = newpml4 /\ virt' = MMIO_BASE + offst /\ Root' = newpml4
    BY <1>4, Zenon DEF MapMmio, MapPage, Root, rootVars
  <2>2. offst < MmioCalls /\ stage = "ready"
    BY <1>4, Zenon DEF MapMmio
  <2>3. MMIO_BASE + offst \in Address
    BY <1>0, <1>2, <2>2, TableAssumption DEF Address
  <2> QED
    BY <1>1, <1>2, <2>1, <2>2, <2>3, Zenon
<1>5. CASE user_space_init
  <2>1. \/ MapUserPage("map_code", USER_CODE, "code_done")
        \/ MapUserPage("map_stack", USER_STACK, "stack_done")
    BY <1>5, Zenon DEF user_space_init, FillUserPml4, GetUserPage, UserPageDone, GetBlock, callVars
  <2>2. level' = 4 /\ table' = user_as /\ virt' \in {USER_CODE, USER_STACK} /\ Root' = user_as
    BY <2>1, Zenon DEF MapUserPage, MapPage, Root, rootVars
  <2>3. stage \in {"map_code", "map_stack"}
    BY <2>1, Zenon DEF MapUserPage
  <2> QED
    BY <1>1, <1>2, <2>2, <2>3, Halves, Zenon
<1>6. ~map_page
  BY Zenon DEF map_page, WalkDown, GiveTable, ClearTable, LinkTable, StoreEntry
<1>7. ~(GetPml4 \/ FillPml4 \/ NextEcam \/ GetUserPml4 \/ MmioDone \/ TakePage \/ OutOfPages)
  BY Zenon DEF GetPml4, FillPml4, NextEcam, GetUserPml4, MmioDone, TakePage, OutOfPages, callVars
<1> QED
  BY <1>3, <1>4, <1>5, <1>6, <1>7, Zenon DEF Next

\* map_page itself, with what an application processor does meanwhile.
LEMMA Goes ==
  ASSUME Inv, Next, pc' \in {"walk", "clear", "link"}
  PROVE  \/ pc = "idle" /\ pc' = "walk"
         \/ pc = "walk" /\ pc' = "walk" /\ WalkDown
         \/ /\ pc \in {"walk", "clear", "link"} /\ ~StoreEntry
            /\ UNCHANGED <<stage, level, table, virt, newpml4, user_as>>
<1>1. stage \in {"fill_pml4", "fill_user", "get_pml4", "ecam", "get_code", "get_stack", "get_block", "ready"}
        => pc \notin {"walk", "clear", "link"}
  BY Zenon DEF Inv, StageInv, Calling
<1>2. CASE map_page
  BY <1>2, Zenon DEF map_page, WalkDown, GiveTable, ClearTable, LinkTable, StoreEntry, bootVars, rootVars, argVars
<1>3. CASE user_space_init
  BY <1>1, <1>3, Zenon DEF user_space_init, FillUserPml4, GetUserPage, MapUserPage, MapPage, UserPageDone, GetBlock, callVars
<1>4. CASE GetPml4 \/ FillPml4 \/ GetUserPml4
  BY <1>1, <1>4, Zenon DEF GetPml4, FillPml4, GetUserPml4, callVars
<1>5. CASE MapEcam \/ NextEcam \/ MmioDone \/ OutOfPages \/ \E d \in Devices : MapMmio(d)
  BY <1>5, Zenon DEF MapEcam, NextEcam, MmioDone, OutOfPages, MapMmio, MapPage
<1>6. CASE TakePage
  <2>1. UNCHANGED <<stage, pc, level, table, virt, newpml4, user_as>>
    BY <1>6, Zenon DEF TakePage, bootVars, rootVars, callVars, argVars
  <2>2. ~StoreEntry
    BY <2>1, Zenon DEF StoreEntry
  <2> QED
    BY <2>1, <2>2, Zenon
<1> QED
  BY <1>2, <1>3, <1>4, <1>5, <1>6, Zenon DEF Next

\* The locals of map_page keep their types.
LEMMA CallTypes ==
  ASSUME Inv, Next
  PROVE  /\ pc' \in {"idle", "walk", "clear", "link", "return", "panic"}
         /\ level' \in 1 .. 4 /\ virt' \in Address /\ table' \in DOMAIN mem'
<1>1. /\ pc \in {"idle", "walk", "clear", "link", "return", "panic"}
      /\ level \in 1 .. 4 /\ virt \in Address /\ table \in DOMAIN mem
  BY Zenon DEF Inv, WalkInv
<1>2. DOMAIN mem' = DOMAIN mem
  BY Domains, Zenon
<1>3. CASE pc = "idle" /\ pc' = "walk"
  BY <1>2, <1>3, Starts
<1>4. CASE WalkDown
  <2>1. pc' = pc /\ level' = level - 1 /\ level > 1 /\ virt' = virt
    BY <1>4, Zenon DEF WalkDown, argVars
  <2> QED
    BY <1>1, <1>2, <1>4, <2>1, StepsDown
<1>5. CASE /\ pc' \in {pc, "idle", "walk", "clear", "link", "return", "panic"}
           /\ UNCHANGED <<level, table, virt>>
  BY <1>1, <1>2, <1>5, Zenon
<1>6. CASE map_page
  BY <1>4, <1>5, <1>6, Zenon DEF map_page, GiveTable, ClearTable, LinkTable, StoreEntry, argVars
<1>7. CASE user_space_init
  BY <1>3, <1>5, <1>7, Zenon DEF user_space_init, FillUserPml4, GetUserPage, MapUserPage, MapPage, UserPageDone, GetBlock,
                          callVars, argVars
<1>8. CASE GetPml4 \/ FillPml4 \/ GetUserPml4 \/ NextEcam \/ MmioDone \/ TakePage \/ OutOfPages
  BY <1>5, <1>8, Zenon DEF GetPml4, FillPml4, GetUserPml4, NextEcam, MmioDone, TakePage, OutOfPages, callVars, argVars
<1>9. CASE MapEcam \/ \E d \in Devices : MapMmio(d)
  BY <1>3, <1>9, Zenon DEF MapEcam, MapMmio, MapPage
<1> QED
  BY <1>6, <1>7, <1>8, <1>9, Zenon DEF Next

\* The walk of map_page stands at the table of its address, whatever was linked meanwhile.
LEMMA WalkStep == ASSUME Inv, Next PROVE WalkInv'
<1>1. /\ pc' \in {"idle", "walk", "clear", "link", "return", "panic"}
      /\ level' \in 1 .. 4 /\ virt' \in Address /\ table' \in DOMAIN mem'
  BY CallTypes, Zenon
<1>2. ASSUME pc' \in {"walk", "clear", "link"} PROVE AtTable'
  <2>1. CASE pc = "idle" /\ pc' = "walk"
    BY <1>2, <2>1, Starts DEF AtTable
  <2>2. CASE WalkDown
    BY <2>2, StepsDown, Zenon
  <2>3. CASE /\ pc \in {"walk", "clear", "link"}
             /\ UNCHANGED <<stage, level, table, virt, newpml4, user_as>>
    BY <2>3, TableKept, Zenon
  <2> QED
    BY <1>2, <2>1, <2>2, <2>3, Goes, Zenon
<1>3. ASSUME pc' \in {"clear", "link"} PROVE level' > 1 /\ ~Slot'.present
  <2>1. /\ pc \in {"walk", "clear", "link"} /\ ~StoreEntry
        /\ UNCHANGED <<level, table, virt>>
    BY <1>3, Goes, Zenon
  <2>2. ~LinkTable
    BY <1>3, Zenon DEF LinkTable
  <2>3. Slot' = Slot
    BY <2>1, <2>2, SlotKept, Zenon
  <2>4. level > 1 /\ ~Slot.present
    <3>1. CASE pc \in {"clear", "link"}
      BY <3>1, Zenon DEF Inv, WalkInv
    <3>2. CASE pc = "walk"
      <4>1. Waits' /\ ~(Waits /\ (ClearTable \/ TakePage)) /\ ~GetPml4 /\ ~GetUserPml4
        BY <1>3, <3>2, Zenon DEF Waits, ClearTable, TakePage, GetPml4, GetUserPml4, callVars
      <4> QED
        BY <4>1, WaitStep, Zenon DEF GiveTable
    <3> QED
      BY <2>1, <3>1, <3>2, Zenon
  <2> QED
    BY <2>1, <2>3, <2>4, Zenon
<1>4. Waits' =>
        page' \in PageList' \ taken' /\ home'[page'].level = -1 /\ \E k \in 0 .. used' - 1 : page' = Page(k)
  BY FreshStep, Zenon
<1>5. pc' = "link" => \A x \in Index : mem'[page'][x] = NotPresent
  BY ClearedStep, Zenon
<1> QED
  BY <1>1, <1>2, <1>3, <1>4, <1>5, Zenon DEF WalkInv, AtTable, Waits

-------------------------------------------------------------------------------
(* map_mmio *)

\* In its window, the address is one that nothing has been mapped at.
LEMMA WindowFree ==
  ASSUME Inv, pc = "walk", level = 1, stage = "mmio", virt < MMIO_BASE + MMIO_SIZE
  PROVE  ~Slot.present
<1> SUFFICES ASSUME Slot.present PROVE FALSE
  OBVIOUS
<1>1. /\ table \in PageList /\ home[table].level = 1 /\ SameTable(1, home[table].virt, virt)
      /\ virt \in Address /\ EntryIndex(1, virt) \in Index /\ stage \in Calling
  BY CallTable
<1>2. PICK g \in PageList : g = table
  BY <1>1, Zenon
<1>3. PICK x \in Index : x = EntryIndex(1, virt)
  BY <1>1, Zenon
<1>4. PICK e : e = mem[g][x] /\ e.present
  BY <1>2, <1>3, Zenon DEF Slot
<1>5. e # NotPresent
  BY <1>4 DEF NotPresent
<1>6. Fits(g, x, e)
  BY <1>1, <1>2, <1>4, <1>5 DEF Inv, BelowInv
<1>7. PICK v \in Address : SameTable(1, v, home[g].virt) /\ EntryIndex(1, v) = x /\ PutAt(v, e)
  BY <1>1, <1>2, <1>6, Zenon DEF Fits
<1>8. v = virt
  <2>1. \A k \in 2 .. 4 : EntryIndex(k, v) = EntryIndex(k, virt)
    BY <1>1, <1>2, <1>7 DEF SameTable
  <2>2. \A k \in 1 .. 4 : EntryIndex(k, v) = EntryIndex(k, virt)
    BY <1>3, <1>7, <2>1
  <2> QED
    BY <1>1, <2>2, SameAddress, Zenon
<1>9. virt = MMIO_BASE + offst /\ offst \in Nat /\ off \in Nat
  BY TableAssumption DEF Inv, StageInv
<1>10. virt \in Windows
  BY <1>1, <1>9, TableAssumption DEF Windows, Address
<1>11. virt \in Called
  BY <1>7, <1>8, <1>10, Halves, Zenon DEF PutAt
<1>12. \/ \E o \in 0 .. off - 1 : virt = PCI_ECAM_BASE + o
       \/ \E o \in 0 .. offst - 1 : virt = MMIO_BASE + o
  BY <1>11, Zenon DEF Called
<1>13. {PCI_ECAM_BASE, MMIO_BASE, MMIO_SIZE} \subseteq Nat /\ MMIO_BASE + MMIO_SIZE <= PCI_ECAM_BASE
  BY TableAssumption DEF Address
<1> QED
  BY <1>9, <1>12, <1>13

\* A frame that map_page stores is what the CPU finds at the address.
LEMMA StoreFound ==
  ASSUME Inv, Next, StoreEntry, ~Slot.present
  PROVE  Walk(mem', Root, virt)[4] = Entry(phys, user)
<1>1. level = 1 /\ pc = "walk"
  BY Zenon DEF StoreEntry
<1>2. AtTable /\ stage \in Calling
  BY <1>1, CallTable, Zenon DEF Inv, WalkInv, AtTable
<1>3. PICK r \in Spaces : r = Root
  BY <1>2, CallRoot, Zenon
<1>4. PICK v \in Address : v = virt
  BY <1>1, CallTable, Zenon
<1>5. Path(r, v)[3].present /\ Path(r, v)[3].frame = table
  BY <1>1, <1>2, <1>3, <1>4 DEF AtTable
<1>6. Walk(mem', r, v)[3] = Path(r, v)[3]
  BY <1>5, PathKept
<1>7. Walk(mem', r, v)[4] = Below(mem', Walk(mem', r, v)[3], 1, v)
  BY Zenon DEF Walk
<1>8. mem'[table][EntryIndex(1, virt)] = Entry(phys, user) /\ table \in DOMAIN mem'
  BY <1>1, Stored, Zenon DEF Inv
<1>9. Walk(mem', r, v)[4] = mem'[table][EntryIndex(1, v)]
  BY <1>5, <1>6, <1>7, <1>8, Zenon DEF Below
<1> QED
  BY <1>3, <1>4, <1>8, <1>9, Zenon

\* What a step may change of the record of map_mmio's results.
LEMMA MmioVars ==
  ASSUME Inv, Next
  PROVE  /\ mmio # {} => newpml4' = newpml4
         /\ offst' \in {offst, offst + 1}
         /\ mmio' = mmio \/ MmioDone
         /\ stage' = "mmio" /\ pc' = "return" =>
              \/ StoreEntry /\ stage = "mmio" /\ UNCHANGED <<virt, phys, user, newpml4>>
              \/ stage = "mmio" /\ pc = "return" /\ UNCHANGED <<virt, phys, user, newpml4>>
<1>1. stage = "fill_pml4" => mmio = {}
  BY Zenon DEF Inv, MmioInv, StageInv
<1>2. CASE map_page
  BY <1>2, Zenon DEF map_page, WalkDown, GiveTable, ClearTable, LinkTable, StoreEntry, bootVars, rootVars, argVars
<1>3. CASE user_space_init
  BY <1>3, Zenon DEF user_space_init, FillUserPml4, GetUserPage, MapUserPage, MapPage, UserPageDone, GetBlock, rootVars
<1>4. CASE GetPml4 \/ FillPml4 \/ GetUserPml4
  BY <1>1, <1>4, Zenon DEF GetPml4, FillPml4, GetUserPml4, rootVars
<1>5. CASE MapEcam \/ NextEcam \/ MmioDone \/ \E d \in Devices : MapMmio(d)
  BY <1>5, Zenon DEF MapEcam, NextEcam, MmioDone, MapMmio, MapPage, rootVars
<1>6. CASE TakePage \/ OutOfPages
  BY <1>6, Zenon DEF TakePage, OutOfPages, bootVars, rootVars, callVars, argVars
<1> QED
  BY <1>2, <1>3, <1>4, <1>5, <1>6, Zenon DEF Next

\* Each address map_mmio has returned leads to the frame it was called with.
LEMMA MmioStep == ASSUME Inv, Next PROVE MmioInv'
<1>1. newpml4 # None => newpml4 \in Spaces
  BY Zenon DEF Spaces
<1>2. MMIO_BASE \in Nat /\ offst \in Nat /\ Top \in Nat /\ MMIO_BASE + MmioCalls <= Top /\ offst <= MmioCalls /\ MmioCalls \in Nat
  BY TableAssumption, Spans, Product DEF Inv, StageInv, Address
<1>3. offst' = offst \/ offst' = offst + 1
  BY MmioVars, Zenon
<1>4. ASSUME NEW r \in mmio
      PROVE  /\ r.virt \in MMIO_BASE .. MMIO_BASE + offst' - 1
             /\ r.virt < MMIO_BASE + MMIO_SIZE => Walk(mem', newpml4', r.virt)[4] = Entry(r.phys, FALSE)
  <2>1. r.virt \in MMIO_BASE .. MMIO_BASE + offst - 1
    BY Zenon DEF Inv, MmioInv
  <2>2. r.virt \in MMIO_BASE .. MMIO_BASE + offst' - 1
    BY <1>2, <1>3, <2>1
  <2>3. ASSUME r.virt < MMIO_BASE + MMIO_SIZE PROVE Walk(mem', newpml4', r.virt)[4] = Entry(r.phys, FALSE)
    <3>1. newpml4' = newpml4 /\ newpml4 \in Spaces
      BY <1>1, MmioVars, Zenon DEF Inv, MmioInv
    <3>2. PICK s \in Spaces : s = newpml4
      BY <3>1, Zenon
    <3>3. PICK v \in Address : v = r.virt
      BY <1>2, <2>1 DEF Address
    <3>4. Path(s, v)[4] = Entry(r.phys, FALSE)
      BY <2>3, <3>2, <3>3, Zenon DEF Inv, MmioInv, Translate
    <3>5. Walk(mem', s, v)[4] = Path(s, v)[4]
      BY <3>4, PathKept DEF Entry
    <3> QED
      BY <3>1, <3>2, <3>3, <3>4, <3>5, Zenon DEF Translate, Path
  <2> QED
    BY <2>2, <2>3, Zenon
<1>5. ASSUME stage' = "mmio", pc' = "return", virt' < MMIO_BASE + MMIO_SIZE
      PROVE  Walk(mem', newpml4', virt')[4] = Entry(phys', FALSE)
  <2>1. stage = "mmio" /\ UNCHANGED <<virt, phys, user, newpml4>>
    BY <1>5, MmioVars, Zenon
  <2>2. user = FALSE /\ Root = newpml4 /\ newpml4 # None
    BY <2>1, Zenon DEF Inv, StageInv, Root
  <2>3. CASE StoreEntry
    <3>1. ~Slot.present
      BY <1>5, <2>1, <2>3, WindowFree, Zenon DEF StoreEntry
    <3> QED
      BY <2>1, <2>2, <2>3, <3>1, StoreFound, Zenon DEF Translate, Path
  <2>4. CASE pc = "return"
    <3>1. PICK s \in Spaces : s = newpml4
      BY <1>1, <2>2, Zenon
    <3>2. PICK v \in Address : v = virt
      BY Zenon DEF Inv, WalkInv
    <3>3. Path(s, v)[4] = Entry(phys, FALSE)
      BY <1>5, <2>1, <2>4, <3>1, <3>2, Zenon DEF Inv, MmioInv, Translate
    <3>4. Walk(mem', s, v)[4] = Path(s, v)[4]
      BY <3>3, PathKept DEF Entry
    <3> QED
      BY <2>1, <3>1, <3>2, <3>3, <3>4, Zenon DEF Translate, Path
  <2> QED
    BY <1>5, <2>3, <2>4, MmioVars, Zenon
<1>6. CASE mmio' = mmio
  BY <1>4, <1>5, <1>6, MmioVars, Zenon DEF Inv, MmioInv, Translate, Path
<1>7. CASE MmioDone
  <2>1. /\ stage = "mmio" /\ pc = "return" /\ stage' = "ready" /\ offst' = offst + 1
        /\ mmio' = mmio \cup {[virt |-> MMIO_BASE + offst' - 1, phys |-> phys]}
        /\ UNCHANGED <<mem, newpml4>>
    BY <1>7, Zenon DEF MmioDone, rootVars
  <2>2. virt = MMIO_BASE + offst /\ newpml4 # None
    BY <2>1, Zenon DEF Inv, StageInv
  <2>3. virt \in MMIO_BASE .. MMIO_BASE + offst' - 1 /\ MMIO_BASE + offst' - 1 = virt
    BY <1>2, <2>1, <2>2
  <2>4. virt < MMIO_BASE + MMIO_SIZE => Walk(mem', newpml4', virt)[4] = Entry(phys, FALSE)
    BY <2>1, Zenon DEF Inv, MmioInv, Translate, Path
  <2>5. ASSUME NEW r \in mmio'
        PROVE  /\ r.virt \in MMIO_BASE .. MMIO_BASE + offst' - 1
               /\ r.virt < MMIO_BASE + MMIO_SIZE => Walk(mem', newpml4', r.virt)[4] = Entry(r.phys, FALSE)
    <3>1. CASE r \in mmio
      BY <1>4, <3>1, Zenon
    <3>2. CASE r = [virt |-> virt, phys |-> phys]
      BY <2>3, <2>4, <3>2, Zenon
    <3> QED
      BY <2>1, <2>3, <3>1, <3>2, Zenon
  <2> QED
    BY <2>1, <2>2, <2>5, Zenon DEF MmioInv, Translate, Path
<1> QED
  BY <1>6, <1>7, MmioVars, Zenon

-------------------------------------------------------------------------------
(* The invariant holds *)

\* The tables as the boot loader leaves them satisfy the invariant.
LEMMA InitInv == Init => Inv
<1> SUFFICES ASSUME Init PROVE Inv
  OBVIOUS
<1>1. pages \in Nat /\ DOMAIN mem = DOMAIN BootTables \cup PageList /\ home = [f \in PageList |-> NoHome]
  BY TableAssumption, Zenon DEF Init, PageList
<1>2. PageList = {Page(k) : k \in 0 .. pages - 1} /\ DOMAIN BootTables \cap PageList = {} /\ None \notin PageList
  BY BootFrames, Zenon DEF PageList, Page, None
<1>3. /\ \A f \in DOMAIN BootTables : mem[f] = BootTables[f]
      /\ \A f \in PageList : mem[f] = [x \in Index |-> Junk]
  BY <1>2, Zenon DEF Init, PageList
<1>4. 0 \in Address
  <2>1. Top \in Nat
    BY Spans, Product
  <2> QED
    BY <2>1, TableAssumption DEF Address
<1>5. PoolInv
  <2>1. \A f \in DOMAIN mem : mem[f] = [x \in Index |-> mem[f][x]]
    <3>1. ASSUME NEW f \in DOMAIN BootTables PROVE mem[f] = [x \in Index |-> mem[f][x]]
      BY <1>3, BootAssumption
    <3>2. ASSUME NEW f \in PageList PROVE mem[f] = [x \in Index |-> mem[f][x]]
      BY <1>3, Zenon
    <3> QED
      BY <1>1, <3>1, <3>2, Zenon
  <2>2. mem = [f \in DOMAIN BootTables \cup PageList |-> mem[f]]
    BY <1>1, Zenon DEF Init, PageList
  <2>3. mem = [f \in DOMAIN BootTables \cup PageList |-> [x \in Index |-> mem[f][x]]]
    BY <1>1, <2>1, <2>2, Zenon
  <2>4. \A f \in DOMAIN mem : \A x \in Index : mem[f][x].present \in BOOLEAN
    <3>1. ASSUME NEW f \in DOMAIN BootTables, NEW x \in Index PROVE mem[f][x].present \in BOOLEAN
      BY <1>3, BootEntries, Zenon
    <3>2. ASSUME NEW f \in PageList, NEW x \in Index PROVE mem[f][x].present \in BOOLEAN
      <4>1. mem[f][x] = Junk
        BY <1>3, Zenon
      <4>2. Junk.present = TRUE
        BY Zenon DEF Junk, Entry
      <4> QED
        BY <4>1, <4>2, Zenon
    <3> QED
      BY <1>1, <3>1, <3>2, Zenon
  <2>5. home \in [PageList -> [level : -1 .. 4, virt : Address]]
    BY <1>1, <1>4 DEF NoHome
  <2>6. \A k \in 0 .. pages - 1 : home[Page(k)].level = -1
    BY <1>1, <1>2, Zenon DEF NoHome
  <2>7. used = 0 /\ taken = {}
    BY Zenon DEF Init
  <2>8. pages \in Nat /\ used \in 0 .. pages
    BY <1>1, <2>7
  <2>9. \A k \in used .. pages - 1 : home[Page(k)].level = -1 /\ Page(k) \notin taken
    BY <2>6, <2>7, Zenon
  <2> QED
    BY <2>3, <2>4, <2>5, <2>7, <2>8, <2>9, Zenon DEF PoolInv
<1>6. \A g \in PageList : home[g].level = -1
  BY <1>1, Zenon DEF NoHome
<1>7. BootInv
  BY <1>3, BootFrames, TableAssumption, Zenon DEF BootInv, Index
<1>8. BelowInv
  BY <1>6 DEF BelowInv
<1>9. RootInv
  BY <1>2, <1>6 DEF RootInv, Init
<1>10. StageInv
  BY TableAssumption DEF StageInv, Init, Calling
<1>11. WalkInv
  BY <1>1, <1>4, BootFrames DEF WalkInv, Init
<1>12. MmioInv
  BY Zenon DEF MmioInv, Init
<1> QED
  BY <1>5, <1>7, <1>8, <1>9, <1>10, <1>11, <1>12, Zenon DEF Inv

\* Every step preserves the invariant.
LEMMA NextInv == Inv /\ [Next]_vars => Inv'
<1>1. Inv /\ Next => Inv'
  BY PoolStep, BootStep, BelowStep, RootStep, StageStep, WalkStep, MmioStep, Zenon DEF Inv
<1>2. ASSUME Inv, UNCHANGED vars PROVE Inv'
  <2>1. /\ UNCHANGED <<mem, pages, used, page, taken, stage, off, offst, newpml4, user_as, home, mmio>>
        /\ UNCHANGED <<pc, level, table, virt, phys, user>>
    BY <1>2, Zenon DEF vars, poolVars, bootVars, rootVars, callVars, argVars
  <2>2. PageList' = PageList /\ Called' = Called /\ Root' = Root /\ Slot' = Slot
    BY <2>1, Zenon DEF PageList, Called, Root, Slot
  <2>3. \A v, e : PutAt(v, e)' <=> PutAt(v, e)
    BY <2>1, <2>2, Zenon DEF PutAt
  <2>4. PoolInv' /\ BootInv'
    BY <1>2, <2>1, <2>2, Zenon DEF Inv, PoolInv, BootInv
  <2>5. BelowInv'
    BY <1>2, <2>1, <2>2, <2>3, Zenon DEF Inv, BelowInv, Fits
  <2>6. RootInv' /\ StageInv'
    BY <1>2, <2>1, <2>2, Zenon DEF Inv, RootInv, StageInv
  <2>7. WalkInv'
    BY <1>2, <2>1, <2>2, Zenon DEF Inv, WalkInv, Path
  <2>8. MmioInv'
    BY <1>2, <2>1, Zenon DEF Inv, MmioInv, Translate, Path
  <2> QED
    BY <2>4, <2>5, <2>6, <2>7, <2>8, Zenon DEF Inv
<1> QED
  BY <1>1, <1>2, Zenon

\* Whatever the tables of the boot loader, the lengths of page_list and the addresses are, the
\* inductive invariant holds: every table that map_page and the callers have made is the table of
\* one level for one part of the address space, and holds what they put there.
THEOREM Invariant == Spec => []Inv
BY InitInv, NextInv, PTL DEF Spec

-------------------------------------------------------------------------------
(* What a walk of the CPU meets *)

\* The user's half of the user's space, where nothing is the boot loader's.
Low(s, v) == s = user_as /\ EntryIndex(4, v) \notin UpperHalf

\* The k-th entry e of a walk is one of the boot loader, where it would be without map_page.
Theirs(s, v, k, e) ==
  /\ ~Low(s, v) /\ e.present /\ e = Walk(BootTables, BootPml4, v)[k]
  /\ \E b \in DOMAIN BootTables : \E x \in Index :
       /\ e = BootTables[b][x] /\ BootLevel[b] \in 5 - k .. 4
       /\ BootLevel[b] # 5 - k => e.frame \notin DOMAIN BootTables

Nothing(s, v, e) == ~e.present /\ (Low(s, v) => e = NotPresent)

\* It leads to a table of map_page: for the address in the user's half, for the windows
\* elsewhere.
Ours(s, v, k, e) ==
  \E h \in PageList :
    /\ k < 4 /\ e = Entry(h, TRUE) /\ home[h].level = 4 - k
    /\ IF Low(s, v) THEN SameTable(4 - k, home[h].virt, v) ELSE EntryIndex(4, home[h].virt) = N - 1

\* It maps what a caller of map_page has put there.
Mapped(s, v, k, e) ==
  \E u \in Address : k = 4 /\ PutAt(u, e) /\ IF Low(s, v) THEN u = v ELSE EntryIndex(4, u) = N - 1

Kind(s, v, k, e) == Theirs(s, v, k, e) \/ Nothing(s, v, e) \/ Ours(s, v, k, e) \/ Mapped(s, v, k, e)

\* The copies of the root's upper half.
LEMMA Copies ==
  ASSUME Inv, NEW s \in Spaces, NEW x \in UpperHalf
  PROVE  mem[s][x] = BootTables[BootPml4][x]
<1>1. CASE s = BootPml4
  BY <1>1, BootFrames, RootLevels, Halves, Zenon DEF Inv, BootInv
<1>2. CASE s \in {newpml4, user_as} \ {None}
  BY <1>2, Zenon DEF Inv, RootInv
<1> QED
  BY <1>1, <1>2, Zenon DEF Spaces

\* The entries a walk of the boot loader's own tables meets.
LEMMA BootWalk ==
  ASSUME NEW v \in Address
  PROVE  LET w == Walk(BootTables, BootPml4, v) IN
         /\ w[1] = BootTables[BootPml4][EntryIndex(4, v)]
         /\ \A k \in 1 .. 3 : w[k + 1] = Below(BootTables, w[k], 4 - k, v)
<1>1. /\ Walk(BootTables, BootPml4, v)[1] = BootTables[BootPml4][EntryIndex(4, v)]
      /\ Walk(BootTables, BootPml4, v)[2] = Below(BootTables, Walk(BootTables, BootPml4, v)[1], 3, v)
      /\ Walk(BootTables, BootPml4, v)[3] = Below(BootTables, Walk(BootTables, BootPml4, v)[2], 2, v)
      /\ Walk(BootTables, BootPml4, v)[4] = Below(BootTables, Walk(BootTables, BootPml4, v)[3], 1, v)
  BY Zenon DEF Walk
<1>2. PICK w : w = Walk(BootTables, BootPml4, v)
  OBVIOUS
<1>3. w[2] = Below(BootTables, w[1], 3, v) /\ w[3] = Below(BootTables, w[2], 2, v) /\ w[4] = Below(BootTables, w[3], 1, v)
  BY <1>1, <1>2, Zenon
<1>4. ASSUME NEW k \in 1 .. 3 PROVE w[k + 1] = Below(BootTables, w[k], 4 - k, v)
  BY <1>3
<1> QED
  BY <1>1, <1>2, <1>4, Zenon

\* The entry of a root is of one of the four kinds.
LEMMA KindTop ==
  ASSUME Inv, NEW s \in Spaces, NEW v \in Address
  PROVE  Kind(s, v, 1, Path(s, v)[1])
<1>1. PICK x \in Index : x = EntryIndex(4, v)
  BY IndexIn DEF Address
<1>2. PICK e : e = Path(s, v)[1]
  OBVIOUS
<1>3. e = mem[s][x] /\ s \in DOMAIN mem
  BY <1>1, <1>2, Tables, Zenon
<1>4. e.present \in BOOLEAN
  BY <1>3, Zenon DEF Inv, PoolInv
<1>5. ASSUME e = BootTables[BootPml4][x], ~Low(s, v), e.present PROVE Theirs(s, v, 1, e)
  <2>1. e = Walk(BootTables, BootPml4, v)[1]
    BY <1>1, <1>5, BootWalk, Zenon
  <2>2. BootPml4 \in DOMAIN BootTables /\ BootLevel[BootPml4] = 4
    BY BootFrames, RootLevels, Zenon
  <2>3. BootLevel[BootPml4] \in 5 - 1 .. 4 /\ BootLevel[BootPml4] = 5 - 1
    BY <2>2
  <2>4. \E b \in DOMAIN BootTables : \E y \in Index :
          /\ e = BootTables[b][y] /\ BootLevel[b] \in 5 - 1 .. 4
          /\ BootLevel[b] # 5 - 1 => e.frame \notin DOMAIN BootTables
    BY <1>5, <2>2, <2>3, Zenon
  <2> QED
    BY <1>5, <2>1, <2>4, Zenon DEF Theirs
<1>6. CASE x \in UpperHalf
  BY <1>1, <1>2, <1>3, <1>4, <1>5, <1>6, Copies, Zenon DEF Kind, Nothing, Low
<1>7. CASE s = BootPml4
  <2>1. s # user_as \/ x \in UpperHalf
    BY <1>7, BootFrames, Shape, Zenon DEF Inv, RootInv
  <2>2. e = BootTables[BootPml4][x]
    BY <1>3, <1>7, BootFrames, RootLevels, Zenon DEF Inv, BootInv
  <2> QED
    BY <1>1, <1>2, <1>5, <2>1, <2>2, Zenon DEF Kind, Nothing, Low
<1>8. CASE s = newpml4 /\ s # None /\ x \notin UpperHalf
  <2>1. e = NotPresent
    BY <1>3, <1>8, Zenon DEF Inv, RootInv
  <2> QED
    BY <1>2, <2>1 DEF Kind, Nothing, NotPresent
<1>9. CASE s = user_as /\ s # None /\ x \notin UpperHalf
  <2>1. CASE e = NotPresent
    BY <1>2, <2>1 DEF Kind, Nothing, NotPresent
  <2>2. CASE e # NotPresent
    <3>1. PICK h \in PageList : e = Entry(h, TRUE) /\ home[h].level = 3 /\ EntryIndex(4, home[h].virt) = x
      BY <1>3, <1>9, <2>2, Zenon DEF Inv, RootInv
    <3>2. SameTable(4 - 1, home[h].virt, v) /\ Low(s, v) /\ home[h].level = 4 - 1
      BY <1>1, <1>9, <3>1 DEF SameTable, Low
    <3>3. 1 < 4
      OBVIOUS
    <3>4. Ours(s, v, 1, e)
      BY <3>1, <3>2, <3>3, Zenon DEF Ours
    <3> QED
      BY <1>2, <3>4, Zenon DEF Kind
  <2> QED
    BY <2>1, <2>2, Zenon
<1> QED
  BY <1>6, <1>7, <1>8, <1>9, Zenon DEF Spaces

\* Below an entry of the boot loader.
LEMMA KindBelowTheirs ==
  ASSUME Inv, NEW s \in Spaces, NEW v \in Address, NEW k \in 1 .. 3, Theirs(s, v, k, Path(s, v)[k])
  PROVE  Kind(s, v, k + 1, Path(s, v)[k + 1])
<1>1. PICK j \in 2 .. 4 : j = k + 1
  OBVIOUS
<1>2. PICK x \in Index : x = EntryIndex(4 - k, v)
  BY IndexIn DEF Address
<1>3. PICK e : e = Path(s, v)[k]
  OBVIOUS
<1>4. PICK d : d = Path(s, v)[j]
  OBVIOUS
<1>5. PICK b \in DOMAIN BootTables, y \in Index :
        /\ e = BootTables[b][y] /\ BootLevel[b] \in 5 - k .. 4
        /\ BootLevel[b] # 5 - k => e.frame \notin DOMAIN BootTables
  BY <1>3, Zenon DEF Theirs
<1>6. ~Low(s, v) /\ e.present /\ e = Walk(BootTables, BootPml4, v)[k]
  BY <1>3, Zenon DEF Theirs
<1>7. BootLevel[b] > 1
  BY <1>5
<1>8. /\ \A i : e.frame # Page(i)
      /\ e.frame \in DOMAIN BootTables => BootLevel[e.frame] = BootLevel[b] - 1
  BY <1>5, <1>6, <1>7, BootBelow, Zenon
<1>9. DOMAIN mem = DOMAIN BootTables \cup PageList /\ e.frame \notin PageList
  BY <1>8, Shape, Zenon DEF Inv
<1>10. Walk(BootTables, BootPml4, v)[j] = Below(BootTables, e, 4 - k, v)
  BY <1>1, <1>6, BootWalk, Zenon
<1>11. CASE e.frame \in DOMAIN BootTables
  <2>1. PICK f \in DOMAIN BootTables : f = e.frame
    BY <1>11, Zenon
  <2>2. BootLevel[f] = 5 - j
    BY <1>1, <1>5, <1>8, <2>1
  <2>3. d = mem[f][x]
    <3>1. Path(s, v)[k].present /\ Path(s, v)[k].frame = f /\ f \in DOMAIN mem
      BY <1>3, <1>6, <1>9, <2>1, Zenon
    <3>2. Path(s, v)[k + 1] = mem[f][EntryIndex(4 - k, v)]
      BY <3>1, Tables, Zenon
    <3> QED
      BY <1>1, <1>2, <1>4, <3>2, Zenon
  <2>4. Walk(BootTables, BootPml4, v)[j] = BootTables[f][x]
    BY <1>2, <1>6, <1>10, <2>1, Zenon DEF Below
  <2>5. CASE d = BootTables[f][x]
    <3>1. CASE d.present
      <4>1. BootLevel[f] \in 5 - j .. 4
        BY <2>2, BootLevels
      <4>2. Theirs(s, v, j, d)
        BY <1>6, <2>2, <2>4, <2>5, <3>1, <4>1, Zenon DEF Theirs
      <4> QED
        BY <1>1, <1>4, <4>2, Zenon DEF Kind
    <3>2. CASE ~d.present
      BY <1>1, <1>4, <1>6, <3>2, Zenon DEF Kind, Nothing
    <3> QED
      BY <3>1, <3>2, Zenon
  <2>6. CASE d # BootTables[f][x]
    <3>1. f = LastTable /\ x = N - 1
      BY <2>3, <2>6, Zenon DEF Inv, BootInv
    <3>2. PICK g \in PageList : d = Entry(g, TRUE) /\ home[g].level = 2 /\ home[g].virt \in Windows
      BY <2>3, <2>6, <3>1, Zenon DEF Inv, BootInv
    <3>3. j = 2 /\ j < 4 /\ 4 - j = 2
      BY <2>2, <3>1, RootLevels
    <3>4. EntryIndex(4, home[g].virt) = N - 1
      BY <3>2, Halves, Zenon
    <3>5. Ours(s, v, j, d)
      BY <1>6, <3>2, <3>3, <3>4, Zenon DEF Ours
    <3> QED
      BY <1>1, <1>4, <3>5, Zenon DEF Kind
  <2> QED
    BY <2>5, <2>6, Zenon
<1>12. CASE e.frame \notin DOMAIN BootTables
  <2>1. d = e
    <3>1. Path(s, v)[k].frame \notin DOMAIN mem
      BY <1>3, <1>9, <1>12, Zenon
    <3>2. Path(s, v)[k + 1] = Path(s, v)[k]
      BY <3>1, Tables, Zenon
    <3> QED
      BY <1>1, <1>3, <1>4, <3>2, Zenon
  <2>2. e = Walk(BootTables, BootPml4, v)[j]
    BY <1>10, <1>12, Zenon DEF Below
  <2>3. BootLevel[b] \in 5 - j .. 4
    BY <1>1, <1>5
  <2>4. Theirs(s, v, j, d)
    BY <1>5, <1>6, <1>12, <2>1, <2>2, <2>3, Zenon DEF Theirs
  <2> QED
    BY <1>1, <1>4, <2>4, Zenon DEF Kind
<1> QED
  BY <1>11, <1>12, Zenon

\* Below an entry map_page has linked.
LEMMA KindBelowOurs ==
  ASSUME Inv, NEW s \in Spaces, NEW v \in Address, NEW k \in 1 .. 3, Ours(s, v, k, Path(s, v)[k])
  PROVE  Kind(s, v, k + 1, Path(s, v)[k + 1])
<1>1. PICK j \in 2 .. 4 : j = k + 1
  OBVIOUS
<1>2. PICK l \in 1 .. 3 : l = 4 - k
  OBVIOUS
<1>3. PICK x \in Index : x = EntryIndex(l, v)
  BY IndexIn DEF Address
<1>4. PICK d : d = Path(s, v)[j]
  OBVIOUS
<1>5. PICK g \in PageList :
        /\ Path(s, v)[k] = Entry(g, TRUE) /\ home[g].level = l
        /\ IF Low(s, v) THEN SameTable(l, home[g].virt, v) ELSE EntryIndex(4, home[g].virt) = N - 1
  BY <1>2, Zenon DEF Ours
<1>6. d = mem[g][x]
  <2>1. g \in DOMAIN mem /\ Path(s, v)[k].present /\ Path(s, v)[k].frame = g
    BY <1>5, Shape DEF Entry, Inv
  <2> QED
    BY <1>1, <1>2, <1>3, <1>4, <2>1, Tables, Zenon
<1>7. CASE d = NotPresent
  <2>1. ~NotPresent.present
    BY Zenon DEF NotPresent
  <2>2. Nothing(s, v, d)
    BY <1>7, <2>1, Zenon DEF Nothing
  <2> QED
    BY <1>1, <1>4, <2>2, Zenon DEF Kind
<1>8. CASE d # NotPresent /\ l \in 2 .. 3
  <2>1. PICK h \in PageList : /\ d = Entry(h, TRUE) /\ home[h].level = l - 1
                              /\ SameTable(l, home[h].virt, home[g].virt) /\ EntryIndex(l, home[h].virt) = x
    BY <1>5, <1>6, <1>8, FitsTable, Zenon
  <2>2. j < 4 /\ 4 - j = l - 1
    BY <1>1, <1>2, <1>8
  <2>3. ASSUME Low(s, v) PROVE SameTable(l - 1, home[h].virt, v)
    <3>1. SameTable(l, home[g].virt, v)
      BY <1>5, <2>3, Zenon
    <3> QED
      BY <1>3, <2>1, <3>1 DEF SameTable
  <2>4. ASSUME ~Low(s, v) PROVE EntryIndex(4, home[h].virt) = N - 1
    <3>1. EntryIndex(4, home[g].virt) = N - 1
      BY <1>5, <2>4, Zenon
    <3> QED
      BY <1>8, <2>1, <3>1 DEF SameTable
  <2>5. Ours(s, v, j, d)
    BY <2>1, <2>2, <2>3, <2>4, Zenon DEF Ours
  <2> QED
    BY <1>1, <1>4, <2>5, Zenon DEF Kind
<1>9. CASE d # NotPresent /\ l = 1
  <2>1. Fits(g, x, d)
    BY <1>5, <1>6, <1>9, Zenon DEF Inv, BelowInv
  <2>2. PICK u \in Address : SameTable(1, u, home[g].virt) /\ EntryIndex(1, u) = x /\ PutAt(u, d)
    BY <1>5, <1>9, <2>1, Zenon DEF Fits
  <2>3. ASSUME Low(s, v) PROVE u = v
    <3>1. SameTable(1, home[g].virt, v)
      BY <1>5, <1>9, <2>3, Zenon
    <3>2. \A i \in 2 .. 4 : EntryIndex(i, u) = EntryIndex(i, v)
      BY <2>2, <3>1 DEF SameTable
    <3>3. \A i \in 1 .. 4 : EntryIndex(i, u) = EntryIndex(i, v)
      BY <1>3, <1>9, <2>2, <3>2
    <3> QED
      BY <3>3, SameAddress, Zenon
  <2>4. ASSUME ~Low(s, v) PROVE EntryIndex(4, u) = N - 1
    <3>1. EntryIndex(4, home[g].virt) = N - 1
      BY <1>5, <2>4, Zenon
    <3> QED
      BY <2>2, <3>1 DEF SameTable
  <2>5. j = 4
    BY <1>1, <1>2, <1>9
  <2>6. Mapped(s, v, j, d)
    BY <2>2, <2>3, <2>4, <2>5, Zenon DEF Mapped
  <2> QED
    BY <1>1, <1>4, <2>6, Zenon DEF Kind
<1> QED
  BY <1>7, <1>8, <1>9

\* Every entry a walk meets, in any space, is of one of the four kinds.
LEMMA Kinds ==
  ASSUME Inv, NEW s \in Spaces, NEW v \in Address, NEW k \in 1 .. 4
  PROVE  Kind(s, v, k, Path(s, v)[k])
<1>1. ASSUME NEW i \in 1 .. 3, Kind(s, v, i, Path(s, v)[i]) PROVE Kind(s, v, i + 1, Path(s, v)[i + 1])
  <2>1. CASE Theirs(s, v, i, Path(s, v)[i])
    BY <2>1, KindBelowTheirs, Zenon
  <2>2. CASE Ours(s, v, i, Path(s, v)[i])
    BY <2>2, KindBelowOurs, Zenon
  <2>3. CASE Nothing(s, v, Path(s, v)[i])
    <3>1. ~Path(s, v)[i].present
      BY <2>3, Zenon DEF Nothing
    <3>2. Path(s, v)[i + 1] = Path(s, v)[i]
      BY <3>1, Tables, Zenon
    <3> QED
      BY <2>3, <3>2, Zenon DEF Kind
  <2>4. CASE Mapped(s, v, i, Path(s, v)[i])
    BY <2>4 DEF Mapped
  <2> QED
    BY <1>1, <2>1, <2>2, <2>3, <2>4, Zenon DEF Kind
<1>2. Kind(s, v, 1, Path(s, v)[1])
  BY KindTop, Zenon
<1>3. Kind(s, v, 1 + 1, Path(s, v)[1 + 1])
  BY <1>1, <1>2
<1>4. Kind(s, v, 2, Path(s, v)[2]) /\ 1 + 1 = 2
  BY <1>3
<1>5. Kind(s, v, 2 + 1, Path(s, v)[2 + 1])
  BY <1>1, <1>4
<1>6. Kind(s, v, 3, Path(s, v)[3])
  BY <1>5
<1>7. Kind(s, v, 3 + 1, Path(s, v)[3 + 1])
  BY <1>1, <1>6
<1>8. Kind(s, v, 4, Path(s, v)[4])
  BY <1>7
<1> QED
  BY <1>2, <1>4, <1>6, <1>8

-------------------------------------------------------------------------------
(* What the invariant says of the address spaces *)

\* The invariant implies the types.
LEMMA Types == Inv => TypeOK
<1> SUFFICES ASSUME Inv PROVE TypeOK
  OBVIOUS
<1>1. \A f \in DOMAIN mem : \A x \in Index : mem[f][x].present \in BOOLEAN
  BY Zenon DEF Inv, PoolInv
<1>2. used \in 0 .. pages
  BY Zenon DEF Inv, PoolInv
<1>3. off \in 0 .. PCI_ECAM_SIZE /\ offst \in 0 .. MmioCalls
  BY Zenon DEF Inv, StageInv
<1>4. /\ pc \in {"idle", "walk", "clear", "link", "return", "panic"} /\ level \in 1 .. 4
      /\ table \in DOMAIN mem /\ virt \in Address
  BY Zenon DEF Inv, WalkInv
<1>5. Spaces \subseteq DOMAIN mem
  BY BootFrames, Shape, Zenon DEF Inv, RootInv, Spaces
<1> QED
  BY <1>1, <1>2, <1>3, <1>4, <1>5, Zenon DEF TypeOK

\* The spaces agree on every kernel address: the roots share the entries of the upper half.
LEMMA Shared == Inv => KernelHalfShared
<1> SUFFICES ASSUME Inv, NEW s \in Spaces, NEW v \in KernelAddress PROVE Translate(s, v) = Translate(BootPml4, v)
  BY Zenon DEF KernelHalfShared
<1>1. PICK x \in UpperHalf : x = EntryIndex(4, v)
  BY Zenon DEF KernelAddress
<1>2. BootPml4 \in Spaces
  BY Zenon DEF Spaces
<1>3. mem[s][x] = mem[BootPml4][x]
  BY <1>2, Copies, Zenon
<1> QED
  BY <1>1, <1>3, Zenon DEF Translate, Path, Walk

\* No walk meets the old contents of a page: tables are cleared before they are linked.
LEMMA NoJunk == Inv => NoJunkReachable
<1> SUFFICES ASSUME Inv, NEW s \in Spaces, NEW v \in Address, NEW k \in 1 .. 4 PROVE Path(s, v)[k] # Junk
  BY Zenon DEF NoJunkReachable
<1>1. PICK e : e = Path(s, v)[k]
  OBVIOUS
<1>2. CASE Theirs(s, v, k, e)
  <2>1. PICK b \in DOMAIN BootTables : \E x \in Index : e = BootTables[b][x]
    BY <1>2, ZenonT(30) DEF Theirs
  <2> QED
    BY <1>1, <2>1, BootEntries, ZenonT(30)
<1>3. CASE Nothing(s, v, e)
  BY <1>1, <1>3 DEF Nothing, Junk, Entry
<1>4. \A h \in PageList : Entry(h, TRUE) # Junk
  BY DEF PageList, Page, Junk, Entry
<1>5. CASE Ours(s, v, k, e)
  BY <1>1, <1>4, <1>5, Zenon DEF Ours
<1>6. CASE Mapped(s, v, k, e)
  <2>1. \A f : Entry(f, FALSE) # Junk
    BY Zenon DEF Entry, Junk
  <2> QED
    BY <1>1, <1>4, <1>6, <2>1, Zenon DEF Mapped, PutAt
<1> QED
  BY <1>1, <1>2, <1>3, <1>5, <1>6, Kinds, Zenon DEF Kind

\* The frames of tables, or of large pages of the boot loader, and those of pages.
IsTable(f) ==
  \/ f \in DOMAIN BootTables
  \/ f \in PageList /\ home[f].level \in 1 .. 4
  \/ f \notin Devices /\ \A i : f # Page(i) /\ f # <<"ecam", i>>

IsLeaf(f) == f \in Devices \/ (\E i : f = <<"ecam", i>>) \/ (f \in PageList /\ home[f].level = 0)

\* What a walk passes through is a table.
LEMMA TableFrames ==
  ASSUME Inv, NEW s \in Spaces, NEW v \in Address, Path(s, v)[4].present, NEW k \in 1 .. 3
  PROVE  IsTable(Path(s, v)[k].frame)
<1>1. PICK e : e = Path(s, v)[k]
  OBVIOUS
<1>2. e.present
  <2>1. ASSUME NEW i \in 1 .. 3, Path(s, v)[i + 1].present PROVE Path(s, v)[i].present
    BY <2>1, Tables, Zenon
  <2>2. Path(s, v)[3 + 1].present
    OBVIOUS
  <2>3. Path(s, v)[3].present
    BY <2>1, <2>2
  <2>4. Path(s, v)[2].present
    <3>1. Path(s, v)[2 + 1].present
      BY <2>3
    <3> QED
      BY <2>1, <3>1
  <2>5. Path(s, v)[1].present
    <3>1. Path(s, v)[1 + 1].present
      BY <2>4
    <3> QED
      BY <2>1, <3>1
  <2> QED
    BY <1>1, <2>3, <2>4, <2>5
<1>3. CASE Theirs(s, v, k, e)
  <2>1. PICK b \in DOMAIN BootTables, y \in Index : e = BootTables[b][y] /\ BootLevel[b] \in 5 - k .. 4
    BY <1>3, Zenon DEF Theirs
  <2>2. BootLevel[b] > 1
    BY <2>1
  <2> QED
    BY <1>1, <1>2, <2>1, <2>2, BootBelow, Zenon DEF IsTable
<1>4. CASE Ours(s, v, k, e)
  <2>1. PICK h \in PageList : e = Entry(h, TRUE) /\ home[h].level = 4 - k
    BY <1>4, Zenon DEF Ours
  <2>2. e.frame = h /\ home[h].level \in 1 .. 4
    BY <2>1 DEF Entry
  <2> QED
    BY <1>1, <2>2, Zenon DEF IsTable
<1> QED
  BY <1>1, <1>2, <1>3, <1>4, Kinds DEF Kind, Nothing, Mapped

\* What a mapping of the kernel's own ends in is a page or a device, never a table.
LEMMA LeafFrames ==
  ASSUME Inv, NEW s \in Spaces, NEW v \in Address, Path(s, v)[4].present, Path(s, v)[4] # BootMapping[v]
  PROVE  IsLeaf(Path(s, v)[4].frame)
<1>1. PICK e : e = Path(s, v)[4]
  OBVIOUS
<1>2. ~Theirs(s, v, 4, e)
  BY <1>1, Zenon DEF Theirs, BootMapping
<1>3. ~Nothing(s, v, e) /\ ~Ours(s, v, 4, e)
  BY <1>1 DEF Nothing, Ours
<1>4. Mapped(s, v, 4, e)
  BY <1>1, <1>2, <1>3, Kinds DEF Kind
<1>5. PICK u \in Address : PutAt(u, e)
  BY <1>4, Zenon DEF Mapped
<1>6. CASE \E f \in Devices \cup {<<"ecam", o>> : o \in 0 .. PCI_ECAM_SIZE - 1} : e = Entry(f, FALSE)
  BY <1>1, <1>6 DEF IsLeaf, Entry
<1>7. CASE \E h \in PageList : e = Entry(h, TRUE) /\ home[h] = Home(0, u)
  BY <1>1, <1>7 DEF IsLeaf, Entry, Home
<1> QED
  BY <1>5, <1>6, <1>7, Zenon DEF PutAt

\* Every frame has one purpose.
LEMMA Apart == Inv => FramesApart
<1> SUFFICES ASSUME Inv PROVE FramesApart
  OBVIOUS
<1>1. \A f \in Spaces \cup TablesReached : IsTable(f)
  <2>1. ASSUME NEW s \in Spaces PROVE IsTable(s)
    <3>1. Level(s) = 4 /\ s \in DOMAIN mem
      BY Tables, Halves, Zenon
    <3>2. s \in DOMAIN BootTables \/ (s \in PageList /\ home[s].level = 4)
      BY <3>1, Shape, Zenon DEF Level, Inv
    <3> QED
      BY <3>2 DEF IsTable
  <2>2. ASSUME NEW w \in Reached, NEW k \in 1 .. 3 PROVE IsTable(w.path[k].frame)
    <3>1. PICK s \in Spaces, v \in Address : w = [at |-> v, path |-> Path(s, v)]
      BY DEF Reached
    <3>2. w.path = Path(s, v) /\ w.path[4].present
      BY <3>1 DEF Reached
    <3> QED
      BY <3>2, TableFrames, Zenon
  <2> QED
    BY <2>1, <2>2 DEF TablesReached
<1>2. \A f \in PagesReached : IsLeaf(f)
  <2>1. ASSUME NEW w \in Reached, w.path[4] # BootMapping[w.at] PROVE IsLeaf(w.path[4].frame)
    <3>1. PICK s \in Spaces, v \in Address : w = [at |-> v, path |-> Path(s, v)]
      BY DEF Reached
    <3>2. w.path = Path(s, v) /\ w.path[4].present /\ w.at = v
      BY <3>1 DEF Reached
    <3> QED
      BY <2>1, <3>2, LeafFrames, Zenon
  <2> QED
    BY <2>1, Zenon DEF PagesReached
<1>3. \A f : ~(IsTable(f) /\ IsLeaf(f))
  <2>1. \A f \in PageList : \E i : f = Page(i)
    BY Zenon DEF PageList
  <2>2. \A i, j : <<"ecam", i>> # Page(j)
    BY Zenon DEF Page
  <2> QED
    BY <2>1, <2>2, BootFrames DEF IsTable, IsLeaf
<1>4. ASSUME NEW f \in PageList, home[f].level = -1 PROVE ~IsTable(f) /\ ~IsLeaf(f)
  <2>1. \E i : f = Page(i)
    BY Zenon DEF PageList
  <2>2. \A i, j : <<"ecam", i>> # Page(j)
    BY Zenon DEF Page
  <2> QED
    BY <1>4, <2>1, <2>2, BootFrames DEF IsTable, IsLeaf
<1>5. \A f \in taken : f \in PageList /\ home[f].level = -1
  BY Zenon DEF Inv, PoolInv
<1>6. \A k \in used .. pages - 1 : Page(k) \in PageList /\ home[Page(k)].level = -1
  <2>1. pages \in Nat /\ used \in 0 .. pages /\ \A k \in used .. pages - 1 : home[Page(k)].level = -1
    BY Zenon DEF Inv, PoolInv
  <2>2. \A k \in used .. pages - 1 : k \in 0 .. pages - 1
    BY <2>1
  <2> QED
    BY <2>1, <2>2, Zenon DEF PageList
<1> QED
  BY <1>1, <1>2, <1>3, <1>4, <1>5, <1>6, Zenon DEF FramesApart

\* What is readable in user mode is a page that user_space_init mapped.
LEMMA UserPages ==
  ASSUME Inv, NEW s \in Spaces, NEW v \in Address, UserReads(s, v)
  PROVE  /\ Low(s, v) /\ v \in {USER_CODE, USER_STACK}
         /\ \E h \in PageList : Path(s, v)[4] = Entry(h, TRUE) /\ home[h] = Home(0, v)
<1>1. PICK e : e = Path(s, v)[4]
  OBVIOUS
<1>2. e.present /\ e.user
  BY <1>1 DEF UserReads
<1>3. ~Theirs(s, v, 4, e)
  <2> SUFFICES ASSUME Theirs(s, v, 4, e) PROVE FALSE
    OBVIOUS
  <2>1. PICK b \in DOMAIN BootTables, y \in Index :
          /\ e = BootTables[b][y]
          /\ BootLevel[b] # 5 - 4 => e.frame \notin DOMAIN BootTables
    BY Zenon DEF Theirs
  <2>2. BootLevel[b] = 1 \/ e.frame \notin DOMAIN BootTables
    BY <2>1
  <2> QED
    BY <1>2, <2>1, <2>2, BootEntries, Zenon
<1>4. ~Nothing(s, v, e) /\ ~Ours(s, v, 4, e)
  BY <1>2 DEF Nothing, Ours
<1>5. PICK u \in Address : PutAt(u, e) /\ IF Low(s, v) THEN u = v ELSE EntryIndex(4, u) = N - 1
  BY <1>1, <1>3, <1>4, Kinds DEF Kind, Mapped
<1>6. \A f : e # Entry(f, FALSE)
  BY <1>2 DEF Entry
<1>7. u \in {USER_CODE, USER_STACK} /\ \E h \in PageList : e = Entry(h, TRUE) /\ home[h] = Home(0, u)
  BY <1>5, <1>6, Zenon DEF PutAt
<1>8. EntryIndex(4, u) # N - 1
  BY <1>7, Halves, Zenon
<1> QED
  BY <1>1, <1>5, <1>7, <1>8, Zenon

\* What map_mmio and user_space_init mapped is what they asked for.
LEMMA Meant == Inv => MappedAsMeant
<1> SUFFICES ASSUME Inv PROVE MappedAsMeant
  OBVIOUS
<1>1. \A r \in mmio : r.virt < MMIO_BASE + MMIO_SIZE => Translate(newpml4, r.virt).frame = r.phys
  <2>1. \A r \in mmio : r.virt < MMIO_BASE + MMIO_SIZE => Translate(newpml4, r.virt) = Entry(r.phys, FALSE)
    BY Zenon DEF Inv, MmioInv
  <2>2. \A f : Entry(f, FALSE).frame = f
    BY Zenon DEF Entry
  <2> QED
    BY <2>1, <2>2, Zenon
<1>2. ASSUME NEW s \in Spaces, NEW v \in Address, UserReads(s, v), NEW c \in {USER_CODE, USER_STACK}, c # v
      PROVE  Translate(s, c).frame # Translate(s, v).frame
  <2>1. PICK h \in PageList : Path(s, v)[4] = Entry(h, TRUE) /\ home[h] = Home(0, v)
    BY <1>2, UserPages, Zenon
  <2>2. c \in Address /\ EntryIndex(4, c) \notin UpperHalf /\ c \notin Windows /\ s = user_as
    BY <1>2, Halves, UserPages, Zenon DEF Low
  <2>3. Low(s, c)
    BY <2>2, Zenon DEF Low
  <2>4. PICK e : e = Path(s, c)[4]
    OBVIOUS
  <2>5. Kind(s, c, 4, e)
    BY <2>2, <2>4, Kinds
  <2>6. e = NotPresent \/ PutAt(c, e)
    <3>1. ~Theirs(s, c, 4, e)
      BY <2>3, Zenon DEF Theirs
    <3>2. Nothing(s, c, e) => e = NotPresent
      BY <2>3, Zenon DEF Nothing
    <3>3. ~(4 < 4)
      OBVIOUS
    <3>4. ~Ours(s, c, 4, e)
      BY <3>3, Zenon DEF Ours
    <3>5. Mapped(s, c, 4, e) => PutAt(c, e)
      BY <2>3, Zenon DEF Mapped
    <3> QED
      BY <2>5, <3>1, <3>2, <3>4, <3>5, Zenon DEF Kind
  <2>7. CASE e = NotPresent
    <3>1. e.frame = None /\ h # None
      BY <2>7 DEF NotPresent, None, PageList, Page
    <3> QED
      BY <2>1, <2>4, <3>1 DEF Translate, Entry
  <2>8. CASE PutAt(c, e)
    <3>1. PICK g \in PageList : e = Entry(g, TRUE) /\ home[g] = Home(0, c)
      BY <2>2, <2>8, Zenon DEF PutAt
    <3>2. g # h
      <4>1. Home(0, c).virt = c /\ Home(0, v).virt = v
        BY Zenon DEF Home
      <4> QED
        BY <1>2, <2>1, <3>1, <4>1, Zenon
    <3> QED
      BY <2>1, <2>4, <3>1, <3>2 DEF Translate, Entry
  <2> QED
    BY <2>6, <2>7, <2>8, Zenon
<1>3. ASSUME NEW s \in Spaces, NEW v \in Address, UserReads(s, v)
      PROVE  /\ s = user_as /\ v \in {USER_CODE, USER_STACK}
             /\ USER_CODE # USER_STACK => Translate(s, USER_CODE).frame # Translate(s, USER_STACK).frame
  BY <1>2, <1>3, UserPages, Zenon DEF Low
<1> QED
  BY <1>1, <1>3, Zenon DEF MappedAsMeant

-------------------------------------------------------------------------------
(* The theorems *)

\* The address spaces are right at every moment, for every number of entries of a table, every
\* page_list and all the tables that the boot loader may leave: virtual_memory_init,
\* user_space_init and map_mmio leave the three spaces the same kernel half, no walk meets the
\* old contents of a page, each frame has one purpose, an address of map_mmio leads to the frame
\* asked for, and user mode reaches the code and the stack page only.
THEOREM SpacesRight == Spec => []AddressSpacesRight
<1>1. Inv => AddressSpacesRight
  BY Types, Shared, NoJunk, Apart, Meant, Zenon DEF AddressSpacesRight
<1> QED
  BY <1>1, Invariant, PTL

\* No step of map_page or of its callers changes what an address is mapped to once it is mapped,
\* in any of the spaces.
THEOREM MappingsStay == Spec => MappingsKept
<1>1. Inv /\ [Next]_vars => [KeepsMappings]_vars
  BY NextKeeps, Zenon
<1> QED
  BY <1>1, Invariant, PTL DEF Spec, MappingsKept
===============================================================================
