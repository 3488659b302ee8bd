---------------------------- MODULE WriteCombine ----------------------------
(***************************************************************************)
(* Making a framebuffer write-combining while the loader draws, and        *)
(* undoing it: fb_init of common/lib/fb.c and term_notready of             *)
(* common/lib/term.c over the MTRRs of common/mm/mtrr.c (BIOS) or over the *)
(* firmware's own page tables in common/mm/efi_pt.c (64-bit UEFI).         *)
(*                                                                         *)
(* A page table is a sequence of entries; a large leaf or a table entry of *)
(* level n spans WFan^(n-1) pages.  Everything is identity mapped, as UEFI *)
(* requires.  "pat" indexes the PAT, whose upper half only leaves can      *)
(* select.                                                                 *)
(***************************************************************************)
EXTENDS Integers, Sequences, SequencesExt, FiniteSets

CONSTANTS WFan, WLevels,      \* entries of a table, levels of the tree
          SAVED_PTES_MAX,     \* entries efi_pt.c can undo
          Displays,           \* machines: see MCWriteCombine
          MaxInits            \* how often a screen is set up in one boot

VARIABLES display,            \* the machine: firmware tables, PAT, MTRRs, fbs
          tree, pat,          \* the page tables and the PAT in force
          saved_pte, wc_pat_index, saved_pat,
          mtrrs, saved_mtrrs, \* variable range MTRRs, and mtrr_save's copy
          apMtrrs,            \* what mtrr_restore gave a started processor
          screen              \* pc, keep_wc, overflow, screens set up

wcVars == <<display, tree, pat, saved_pte, wc_pat_index, saved_pat,
            mtrrs, saved_mtrrs, apMtrrs, screen>>

NotPresent == [k |-> "none"]
Leaf(i) == [k |-> "leaf", pat |-> i]
SubTable(i, t) == [k |-> "table", pat |-> i, sub |-> t]
Step(lvl) == WFan ^ (lvl - 1)
PageCount == WFan ^ WLevels
Unsaved == [x \in {} |-> 0]

(* scan_walk: the PAT indices live entries select.                          *)
RECURSIVE scan_walk(_)
scan_walk(tab) ==
  UNION {CASE tab[i].k = "none" -> {}
           [] tab[i].k = "leaf" -> {tab[i].pat}
           [] tab[i].k = "table" -> {tab[i].pat} \cup scan_walk(tab[i].sub) : i \in 1..WFan}

(* ensure_wc_pat_slot: an index that is WC already, else one nothing uses,  *)
(* the upper half first; -1 if there is none.                               *)
Lowest(S) == CHOOSE i \in S : \A j \in S : i <= j
ensure_wc_pat_slot ==
  LET wc == {i \in DOMAIN pat : pat[i] = "WC"}
      half == Cardinality(DOMAIN pat) \div 2
      free == DOMAIN pat \ (scan_walk(tree) \cup {0})
      high == {i \in free : i >= half}
  IN  CASE wc_pat_index >= 0 -> wc_pat_index
        [] wc # {} -> Lowest(wc)
        [] high # {} -> Lowest(high)
        [] free # {} -> Lowest(free)
        [] OTHER -> -1

(* split_leaf keeps the type of the page it splits; SplitPlain does not.    *)
SplitPlain(e) == [i \in 1..WFan |-> Leaf(0)]
split_leaf(e) == [i \in 1..WFan |-> Leaf(e.pat)]
NewTable == [i \in 1..WFan |-> NotPresent]

(* wc_walk over one table: the entries the range covers whole become WC     *)
(* leaves, the others are descended into, split or given a table.  Entries  *)
(* of firmware tables are saved first, and left alone when that is full.    *)
RECURSIVE wc_walk(_, _, _, _, _, _, _)
wc_walk(tab, lvl, va0, path, range, pristine, saved) ==
  LET one(acc, i) ==
        LET va == va0 + (i - 1) * Step(lvl)
            e == acc.tab[i]
            room == ~pristine \/ Len(acc.saved) < SAVED_PTES_MAX
            saving == IF pristine THEN Append(acc.saved, [path |-> Append(path, i), was |-> e])
                      ELSE acc.saved
            whole == va >= range.from /\ va + Step(lvl) <= range.to
        IN  CASE va >= range.to \/ va + Step(lvl) <= range.from -> acc
              [] whole /\ lvl <= 3 /\ (lvl < 3 \/ display.gib) ->
                   IF room THEN [acc EXCEPT !.tab[i] = Leaf(range.pat), !.saved = saving]
                   ELSE [acc EXCEPT !.full = TRUE]
              [] ~whole /\ ~room /\ e.k # "table" -> [acc EXCEPT !.full = TRUE]
              [] OTHER ->
                   LET table == e.k = "table"
                       sub == CASE table -> e.sub
                                [] e.k = "leaf" -> split_leaf(e)
                                [] OTHER -> NewTable
                       r == wc_walk(sub, lvl - 1, va, Append(path, i), range,
                                    pristine /\ table, IF table THEN acc.saved ELSE saving)
                   IN  [tab |-> [acc.tab EXCEPT ![i] = SubTable(IF table THEN e.pat ELSE 0, r.tab)],
                        saved |-> r.saved, full |-> acc.full \/ r.full]
  IN  FoldLeft(one, [tab |-> tab, saved |-> saved, full |-> FALSE], [i \in 1..WFan |-> i])

(* What a page is mapped as.                                                *)
RECURSIVE TypeIn(_, _, _, _)
TypeIn(tab, p, lvl, types) ==
  LET e == tab[((p \div Step(lvl)) % WFan) + 1]
  IN  CASE e.k = "none" -> "unmapped"
        [] e.k = "leaf" -> types[e.pat]
        [] OTHER -> TypeIn(e.sub, p, lvl - 1, types)

(* Putting a saved entry back at its place.                                 *)
RECURSIVE PutBack(_, _, _)
PutBack(tab, path, e) ==
  IF Len(path) = 1 THEN [tab EXCEPT ![path[1]] = e]
  ELSE [tab EXCEPT ![path[1]].sub = PutBack(@, Tail(path), e)]

-----------------------------------------------------------------------------
(* MTRRs: a slot that is on covers the naturally aligned block of its size. *)
Covers(m, p) == m.on /\ p \div m.size = m.base \div m.size

RECURSIVE PowerBelow(_, _)
PowerBelow(k, span) == IF 2 * k <= span THEN PowerBelow(2 * k, span) ELSE k
RECURSIVE AlignOf(_)
AlignOf(b) == IF b % 2 = 1 THEN 1 ELSE 2 * AlignOf(b \div 2)

(* wc_add_chunks with wc_add_mtrr: the largest aligned power of two at a    *)
(* time into the first free slot, until the span is used up or no slot is.  *)
RECURSIVE wc_add_chunks(_, _, _)
wc_add_chunks(regs, base, span) ==
  LET size_k == PowerBelow(1, span)
      align_k == IF base # 0 THEN AlignOf(base) ELSE span
      k == IF align_k < size_k THEN align_k ELSE size_k
      free == {i \in 1..Len(regs) : ~regs[i].on}
  IN  IF span = 0 \/ free = {} THEN regs
      ELSE wc_add_chunks([regs EXCEPT ![Lowest(free)] =
                            [on |-> TRUE, base |-> base, size |-> k, type |-> "WC"]],
                         base + k, span - k)

Taken(regs, from, to) == \E i \in 1..Len(regs), p \in from..to - 1 : Covers(regs[i], p)

-----------------------------------------------------------------------------
(* The pages of a framebuffer whose bytes start and end inside pages.       *)
From(fb) == fb.base \div 2
To(fb) == (fb.base + fb.size + 1) \div 2

WcInit ==
  /\ display \in Displays
  /\ tree = display.tree /\ pat = display.pat
  /\ saved_pte = <<>> /\ wc_pat_index = -1 /\ saved_pat = Unsaved
  /\ mtrrs = display.mtrrs /\ saved_mtrrs = <<>> /\ apMtrrs = <<>>
  /\ screen = [pc |-> "idle", todo |-> <<>>, keep |-> FALSE, full |-> FALSE, inits |-> 0, done |-> {}]

(* fb_init up to the loop that makes the framebuffers write-combining.      *)
FbInit(preserve, keep) ==
  /\ screen.pc = "idle" /\ screen.inits < MaxInits
  /\ screen' = [screen EXCEPT !.inits = @ + 1, !.keep = keep,
                  !.pc = IF keep \/ ~preserve THEN "loop" ELSE "up",
                  !.todo = IF keep \/ ~preserve
                           THEN SelectSeq(display.fbs, LAMBDA fb : fb.size > 0) ELSE <<>>]
  /\ UNCHANGED <<display, tree, pat, saved_pte, wc_pat_index, saved_pat, mtrrs, saved_mtrrs, apMtrrs>>

(* efi_pt_set_fb_wc                                                         *)
efi_pt_set_fb_wc ==
  /\ screen.pc = "loop" /\ screen.todo # <<>> /\ display.uefi
  /\ LET fb == Head(screen.todo)
         idx == ensure_wc_pat_slot
         fresh == idx >= 0 /\ pat[idx] # "WC"
         r == wc_walk(tree, WLevels, 0, <<>>, [from |-> From(fb), to |-> To(fb), pat |-> idx],
                      TRUE, saved_pte)
     IN  /\ wc_pat_index' = idx
         /\ pat' = IF fresh THEN [pat EXCEPT ![idx] = "WC"] ELSE pat
         /\ saved_pat' = IF fresh THEN pat ELSE saved_pat
         /\ tree' = IF idx >= 0 THEN r.tab ELSE tree
         /\ saved_pte' = IF idx >= 0 THEN r.saved ELSE saved_pte
         /\ screen' = [screen EXCEPT !.todo = Tail(@), !.full = @ \/ idx < 0 \/ r.full,
                                     !.done = @ \cup (From(fb)..To(fb) - 1)]
  /\ UNCHANGED <<display, mtrrs, saved_mtrrs, apMtrrs>>

(* mtrr_wc_add_fb_range                                                     *)
mtrr_wc_add_fb_range ==
  /\ screen.pc = "loop" /\ screen.todo # <<>> /\ ~display.uefi
  /\ LET fb == Head(screen.todo)
         refuse == ~display.wcMtrr \/ Taken(mtrrs, From(fb), To(fb))
         added == wc_add_chunks(mtrrs, From(fb), To(fb) - From(fb))
     IN  /\ saved_mtrrs' = IF refuse \/ saved_mtrrs # <<>> THEN saved_mtrrs ELSE mtrrs
         /\ mtrrs' = IF refuse THEN mtrrs ELSE added
         /\ screen' = [screen EXCEPT !.todo = Tail(@),
              !.full = @ \/ refuse \/ \E p \in From(fb)..To(fb) - 1 :
                                        ~\E i \in 1..Len(added) : Covers(added[i], p),
              !.done = @ \cup (From(fb)..To(fb) - 1)]
  /\ UNCHANGED <<display, tree, pat, saved_pte, wc_pat_index, saved_pat, apMtrrs>>

(* efi_pt_restore and mtrr_restore, as the build has it.                    *)
Undone ==
  IF display.uefi
  THEN /\ tree' = FoldRight(LAMBDA s, t : PutBack(t, s.path, s.was), saved_pte, tree)
       /\ pat' = IF saved_pat # Unsaved THEN saved_pat ELSE pat
       /\ saved_pte' = <<>> /\ saved_pat' = Unsaved
       /\ wc_pat_index' = IF saved_pte = <<>> /\ saved_pat = Unsaved THEN wc_pat_index ELSE -1
       /\ UNCHANGED mtrrs
  ELSE /\ mtrrs' = IF saved_mtrrs = <<>> THEN mtrrs ELSE saved_mtrrs
       /\ UNCHANGED <<tree, pat, saved_pte, wc_pat_index, saved_pat>>

(* The rest of fb_init: the clear is over and the caching goes back unless  *)
(* a terminal will keep drawing.                                            *)
FbInitEnds ==
  /\ screen.pc = "loop" /\ screen.todo = <<>>
  /\ IF screen.keep THEN UNCHANGED <<tree, pat, saved_pte, wc_pat_index, saved_pat, mtrrs>>
     ELSE Undone
  /\ screen' = [screen EXCEPT !.pc = "up", !.full = @ /\ screen.keep,
                              !.done = IF screen.keep THEN @ ELSE {}]
  /\ UNCHANGED <<display, saved_mtrrs, apMtrrs>>

term_notready ==
  /\ screen.pc \in {"up", "idle"} /\ screen.inits > 0
  /\ Undone
  /\ screen' = [screen EXCEPT !.pc = "idle", !.keep = FALSE, !.full = FALSE, !.done = {}]
  /\ UNCHANGED <<display, saved_mtrrs, apMtrrs>>

(* init_smp: mtrr_save, then mtrr_restore on the started processor.  The    *)
(* protocols get here with no terminal up.                                  *)
StartOthers ==
  /\ screen.pc \in {"up", "idle"} /\ ~screen.keep /\ apMtrrs = <<>>
  /\ saved_mtrrs' = IF saved_mtrrs = <<>> THEN mtrrs ELSE saved_mtrrs
  /\ apMtrrs' = saved_mtrrs'
  /\ screen' = [screen EXCEPT !.pc = "started"]
  /\ UNCHANGED <<display, tree, pat, saved_pte, wc_pat_index, saved_pat, mtrrs>>

WcNext ==
  \/ \E preserve, keep \in BOOLEAN : FbInit(preserve, keep)
  \/ efi_pt_set_fb_wc \/ mtrr_wc_add_fb_range \/ FbInitEnds \/ term_notready \/ StartOthers

-----------------------------------------------------------------------------
WcTypeOK ==
  /\ screen.pc \in {"idle", "loop", "up", "started"}
  /\ wc_pat_index \in {-1} \cup DOMAIN pat
  /\ Len(saved_pte) <= SAVED_PTES_MAX
  /\ Len(mtrrs) = Len(display.mtrrs)

(* While the screen is drawn, exactly the framebuffers' pages are           *)
(* write-combining (some of them may be left out when there is no room to   *)
(* save or no register), and every other page keeps the type the firmware   *)
(* gave it, whatever tables and registers had to be split or taken over.    *)
TypeByMtrr(regs, p) == {regs[i].type : i \in {k \in 1..Len(regs) : Covers(regs[k], p)}}
OnlyFramebuffersCombine ==
  \A p \in 0..PageCount - 1 :
    LET was == TypeIn(display.tree, p, WLevels, display.pat)
        is == TypeIn(tree, p, WLevels, pat)
        wasM == TypeByMtrr(display.mtrrs, p)
        isM == TypeByMtrr(mtrrs, p)
        fbPage == p \in screen.done
    IN  IF display.uefi
        THEN IF fbPage THEN is = "WC" \/ (screen.full /\ is = was) ELSE is = was
        ELSE IF fbPage THEN isM = {"WC"} \/ (screen.full /\ isM = wasM) ELSE isM = wasM

(* Once the drawing is over nothing of it is left: the page tables, the     *)
(* PAT and the MTRRs are the firmware's own, and a processor started then   *)
(* gets the MTRRs this one has.                                             *)
CachingUndone ==
  /\ screen.pc \in {"idle", "started"} =>
       tree = display.tree /\ pat = display.pat /\ mtrrs = display.mtrrs
  /\ apMtrrs # <<>> => apMtrrs = mtrrs
=============================================================================
