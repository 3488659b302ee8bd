----------------------------- MODULE MCPageTables -----------------------------
(* Page tables, three components side by side: the kernel's, the loader's own, and what   *)
(* the loader does to the firmware's and the MTRRs while it draws.  The variable `scene'  *)
(* says which of them a behaviour is about; the kernel's variables keep their initial     *)
(* values in the others, and the others' are 0.                                           *)
(*                                                                                        *)
(* The kernel: tables of four entries.  The boot loader maps memory at the bottom and at  *)
(* the start of the upper half, and the kernel image below the last entry of the last     *)
(* root slot.                                                                             *)
EXTENDS PageTables, TLC

CONSTANTS Fan, VirtPages, Shifts, MaxRanges,
          WFan, WLevels, SAVED_PTES_MAX, Displays, MaxInits

VARIABLES scene,
          tables, meant, asked, giant,
          display, tree, pat, saved_pte, wc_pat_index, saved_pat, mtrrs, saved_mtrrs, apMtrrs,
          screen

Loader == INSTANCE LoaderPaging
Draw == INSTANCE WriteCombine

(* Identity mapped ranges, ranges of the upper half mapped down to the     *)
(* start of memory, and ranges whose addresses are not aligned alike.      *)
MCShifts == {0, -4, 1}

(* Displays of sixteen half pages: under UEFI with page tables of small    *)
(* and large pages, holes, and a PAT with and without a WC entry; under a  *)
(* BIOS with no, one or two MTRRs taken.  The framebuffers start and end   *)
(* in the middle of pages, and some touch each other.                      *)
Leaf(i) == [k |-> "leaf", pat |-> i]
SubTable(i, t) == [k |-> "table", pat |-> i, sub |-> t]
PtOf(a, b) == SubTable(0, <<Leaf(a), Leaf(b)>>)
Mixed == SubTable(0, <<Leaf(0), PtOf(0, 1)>>)
MCTrees == {<<Mixed, Mixed>>, <<Leaf(0), Leaf(1)>>, <<Mixed, [k |-> "none"]>>,
            <<SubTable(1, <<Leaf(0), Leaf(2)>>), Mixed>>}
PatOf(third) == (0 :> "WB") @@ (1 :> "UC") @@ (2 :> third) @@ (3 :> "UC")

Used(b, s, t) == [on |-> TRUE, base |-> b, size |-> s, type |-> t]
Free == [on |-> FALSE, base |-> 0, size |-> 1, type |-> "UC"]
MCMtrrs == {<<Free, Free, Free>>, <<Used(6, 2, "UC"), Free, Free>>,
            <<Used(0, 1, "WB"), Free, Used(4, 4, "UC"), Free, Free>>}

Fb(b, s) == [base |-> b, size |-> s]
MCFbs == {<<Fb(b, s)>> : b \in 0..6, s \in {0, 3, 6, 8}} \cup
         {<<Fb(2, 4), Fb(7, 7)>>, <<Fb(0, 8), Fb(8, 8)>>, <<Fb(0, 16)>>, <<Fb(3, 5), Fb(1, 9)>>}

MCUefi == [uefi : {TRUE}, gib : BOOLEAN, wcMtrr : {TRUE}, tree : MCTrees,
           pat : {PatOf("WT"), PatOf("WC")}, mtrrs : {<<Free>>}, fbs : MCFbs]
MCBios == [uefi : {FALSE}, gib : {FALSE}, wcMtrr : BOOLEAN, tree : {<<Leaf(0), Leaf(0)>>},
           pat : {PatOf("WT")}, mtrrs : MCMtrrs, fbs : MCFbs]
MCDisplays == MCUefi \cup MCBios


MCTable(e) == [x \in 0 .. 3 |-> IF x \in DOMAIN e THEN e[x] ELSE NotPresent]
MCBoot(k) == <<"boot", k>>

MCBootTables ==
  (MCBoot(0) :> MCTable((0 :> Entry(MCBoot(1), TRUE)) @@ (2 :> Entry(MCBoot(1), TRUE))
                        @@ (3 :> Entry(MCBoot(4), TRUE))))
  @@ (MCBoot(1) :> MCTable(0 :> Entry(MCBoot(2), TRUE)))
  @@ (MCBoot(2) :> MCTable(1 :> Entry(MCBoot(3), TRUE)))
  @@ (MCBoot(3) :> MCTable((0 :> Entry(Page(0), FALSE)) @@ (1 :> Entry(<<"memory", 0>>, FALSE))))
  @@ (MCBoot(4) :> MCTable(2 :> Entry(MCBoot(5), TRUE)))
  @@ (MCBoot(5) :> MCTable(0 :> Entry(MCBoot(6), TRUE)))
  @@ (MCBoot(6) :> MCTable(0 :> Entry(<<"image", 0>>, FALSE)))

MCBootPml4 == MCBoot(0)
MCDevices == {<<"device", 0>>, <<"device", 1>>}

pagingVars == <<tables, meant, asked, giant>>
wcVars == <<display, tree, pat, saved_pte, wc_pat_index, saved_pat, mtrrs, saved_mtrrs, apMtrrs,
            screen>>
tableVars == <<scene, vars, pagingVars, wcVars>>

KernelRests == Init /\ pages = CHOOSE k \in PageCounts : TRUE
NoLoader == tables = 0 /\ meant = 0 /\ asked = 0 /\ giant = 0
NoDraw == /\ display = 0 /\ tree = 0 /\ pat = 0 /\ saved_pte = 0 /\ wc_pat_index = 0 /\ saved_pat = 0
          /\ mtrrs = 0 /\ saved_mtrrs = 0 /\ apMtrrs = 0 /\ screen = 0

TablesInit ==
  /\ scene \in {"kernel", "loader", "draw"}
  /\ IF scene = "kernel" THEN Init ELSE KernelRests
  /\ IF scene = "loader" THEN Loader!PagingInit ELSE NoLoader
  /\ IF scene = "draw" THEN Draw!WcInit ELSE NoDraw

TablesNext ==
  \/ scene = "kernel" /\ Next /\ UNCHANGED <<scene, pagingVars, wcVars>>
  \/ scene = "loader" /\ Loader!PagingNext /\ UNCHANGED <<scene, vars, wcVars>>
  \/ scene = "draw" /\ Draw!WcNext /\ UNCHANGED <<scene, vars, pagingVars>>

TablesSpec == TablesInit /\ [][TablesNext]_tableVars

\* The loader's tables translate every page as the last range over it asked, with large pages
\* only where they are aligned and of one memory type (TranslatesAsAsked and LargePagesRight of
\* LoaderPaging).
LoaderPagesRight ==
  scene = "loader" => Loader!PagingTypeOK /\ Loader!TranslatesAsAsked /\ Loader!LargePagesRight

\* While the loader draws, nothing but the framebuffers is write-combining; afterwards nothing
\* is left of it (OnlyFramebuffersCombine and CachingUndone of WriteCombine).
CachingRight ==
  scene = "draw" => Draw!WcTypeOK /\ Draw!OnlyFramebuffersCombine /\ Draw!CachingUndone
===============================================================================
