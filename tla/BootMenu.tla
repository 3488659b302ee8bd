------------------------------ MODULE BootMenu ------------------------------
(***************************************************************************)
(* The loader's menu (menu.c, with lib/bli.c and the return of             *)
(* lib/panic.s2.c): every entry of _menu rewinds the loader's data, reads  *)
(* the configuration again, selects an entry by path, identifier or index, *)
(* counts down, follows the keys, edits and boots; a boot that panics      *)
(* enters the menu again.  Whether the menu is drawn is left out (quiet).  *)
(*                                                                         *)
(* A menu tree is the sequence of its entries in the order of the file,    *)
(* each [name, parent, dir, open, hidden]; names and paths are sequences   *)
(* of characters.  A text is a number: e is the body of entry e, 0 the     *)
(* blank entry, and adding Edited stands for a change made in the editor.  *)
(***************************************************************************)
EXTENDS Integers, Sequences, FiniteSets, SequencesExt

CONSTANTS Machines,        \* configurations, firmware variables, firmware kind
          Window,          \* rows of the tree on the screen
          MENU_PATH_MAX,
          BLI_ID_MAX,      \* the characters an identifier keeps of its path
          MaxEnters        \* entries of _menu a behaviour has

VARIABLES setup,   \* what the configuration and the firmware hold
          nv,      \* the firmware variables the menu consumes and writes
          shown,   \* _menu: its locals and the rewindable data
          kept,    \* the no_unwind data
          rewound  \* the rewind snapshot

menuVars == <<setup, nv, shown, kept, rewound>>

Edited == 10
NoPath == <<"none">>
tree == IF shown.loaded THEN setup.tree ELSE <<>>
All == [i \in 1 .. Len(tree) |-> i]
Root == 0

---------------------------------------------------------------------------
(* Paths and identifiers.                                                  *)

(* A directory is never hidden; an entry is when its protocol, firmware or    *)
(* architecture is not this loader's, which is in the tree as `hidden'.      *)
should_skip_entry(e) == ~tree[e].dir /\ tree[e].hidden

Siblings(p) == SelectSeq(All, LAMBDA i : tree[i].parent = p /\ ~should_skip_entry(i))

get_sibling_dup_index(e) ==
    Cardinality({i \in 1 .. e - 1 : /\ tree[i].parent = tree[e].parent
                                    /\ ~should_skip_entry(i) /\ tree[i].name = tree[e].name})

RECURSIVE escape_name(_, _)
escape_name(name, room) ==
    IF name = <<>> THEN <<>>
    ELSE LET c == IF name[1] \in {"\\", "/", "#"} THEN <<"\\", name[1]>> ELSE <<name[1]>>
         IN IF Len(c) < room THEN c \o escape_name(Tail(name), room - Len(c)) ELSE <<>>

AtMost(s, n) == IF Len(s) <= n THEN s ELSE SubSeq(s, 1, n)
Cut(path) == AtMost(path, MENU_PATH_MAX - 1)
Digit(n) == <<"1", "2", "3", "4">>[n]
Numbered(path, dup) == IF dup > 0 THEN Cut(path \o <<"#", Digit(dup)>>) ELSE path
Under(up, e) ==
    Numbered(up \o escape_name(tree[e].name, MENU_PATH_MAX - Len(up)), get_sibling_dup_index(e))
RECURSIVE get_entry_path(_)
get_entry_path(e) ==
    Under(IF tree[e].parent = Root THEN <<>>
          ELSE Cut(Append(get_entry_path(tree[e].parent), "/")), e)

Digits == {"1", "2", "3", "4"}
NumberOf(d) == CHOOSE n \in 1 .. 4 : Digit(n) = d
CharAt(s, i) == IF i \in 1 .. Len(s) THEN s[i] ELSE ""

(* One component from position i: its name, its duplicate index and what    *)
(* follows the separator.                                                   *)
RECURSIVE parse_path_component(_, _, _)
parse_path_component(path, i, name) ==
    LET c == CharAt(path, i)
        Rest(k) == SubSeq(path, IF CharAt(path, k) = "/" THEN k + 1 ELSE k, Len(path))
    IN CASE c \in {"", "/"} -> [name |-> name, dup |-> 0, rest |-> Rest(i)]
         [] c = "\\" /\ i < Len(path) ->
                parse_path_component(path, i + 2, Append(name, path[i + 1]))
         [] c = "#" /\ CharAt(path, i + 1) \in Digits /\ CharAt(path, i + 2) \in {"", "/"} ->
                [name |-> name, dup |-> NumberOf(path[i + 1]), rest |-> Rest(i + 2)]
         [] OTHER -> parse_path_component(path, i + 1, Append(name, c))

RECURSIVE Above(_)
Above(e) == IF tree[e].parent = Root THEN {} ELSE {tree[e].parent} \cup Above(tree[e].parent)

(* The entries on show with the directories in open expanded, in the order  *)
(* print_tree counts them; below entry p only, for p other than Root.       *)
Visible(open) == SelectSeq(All, LAMBDA i : ~should_skip_entry(i) /\ Above(i) \subseteq open)
count_visible_entries(p, open) ==
    Cardinality({i \in 1 .. Len(tree) : p \in Above(i) /\ ~should_skip_entry(i)
                    /\ \A a \in Above(i) : p \in Above(a) => a \in open})

NotFound(open) == [entry |-> 0, index |-> 0, open |-> open]
RECURSIVE find_entry_by_path(_, _, _, _), SearchFrom(_, _, _, _, _)
find_entry_by_path(path, kids, index, open) ==
    SearchFrom(parse_path_component(path, 1, <<>>), kids, index, 0, open)
SearchFrom(comp, kids, index, same, open) ==
    IF kids = <<>> THEN NotFound(open)
    ELSE LET e    == kids[1]
             hit  == tree[e].name = comp.name
             next == index + 1
                     + (IF e \in open THEN count_visible_entries(e, open) ELSE 0)
         IN IF hit /\ same = comp.dup /\ comp.rest = <<>>
            THEN [entry |-> e, index |-> index, open |-> open]
            ELSE IF hit /\ same = comp.dup /\ tree[e].dir
            THEN find_entry_by_path(comp.rest, Siblings(e), index + 1, open \cup {e})
            ELSE SearchFrom(comp, Tail(kids), next, same + (IF hit THEN 1 ELSE 0), open)

ByPath(path, open) == find_entry_by_path(path, Siblings(Root), 0, open)

IdOf(path) == [i \in 1 .. Len(path) |-> IF path[i] = "/" THEN "." ELSE
                                         IF path[i] \in {"\\", "#"} THEN "-" ELSE path[i]]
Unrooted(path) == IF path # <<>> /\ path[1] = "/" THEN Tail(path) ELSE path
NoDots(id) == IF id \in {<<>>, <<".">>, <<".", ".">>} THEN Append(id, "-") ELSE id
bli_entry_base_id(e) == NoDots(AtMost(IdOf(Unrooted(get_entry_path(e))), BLI_ID_MAX))
Leaves == SelectSeq(All, LAMBDA i : ~tree[i].dir /\ ~should_skip_entry(i))
bli_id_dups_before(e, base) ==
    Cardinality({i \in 1 .. e - 1 : /\ ~tree[i].dir /\ ~should_skip_entry(i)
                                    /\ bli_entry_base_id(i) = base})
Suffixed(base, dups) == IF dups = 0 THEN base ELSE base \o <<"-", Digit(dups + 1)>>
WithSuffix(e, base) == Suffixed(base, bli_id_dups_before(e, base))
bli_entry_id(e) == WithSuffix(e, bli_entry_base_id(e))
FirstOf(found) == IF found = <<>> THEN 0 ELSE found[1]
bli_id_to_entry(id) == FirstOf(SelectSeq(Leaves, LAMBDA i : bli_entry_id(i) = id))

ById(e, open) == IF e = 0 THEN NotFound(open) ELSE ByPath(get_entry_path(e), open)
OrByPath(by, str) == IF by.entry # 0 THEN by ELSE ByPath(str, by.open)
find_entry_by_bli_id_or_path(str, open) == OrByPath(ById(bli_id_to_entry(str), open), str)

---------------------------------------------------------------------------
(* Selection and timeout.                                                  *)

Open0 == {i \in 1 .. Len(tree) : tree[i].open /\ tree[i].dir}
Choice(sel, open, has, unresolved) ==
    [sel |-> sel, open |-> open, has |-> has, unresolved |-> unresolved]

(* A variable that names an entry: a choice when it resolves.               *)
Try(found, was) == IF found.entry = 0 THEN [was EXCEPT !.open = found.open]
                   ELSE Choice(found.index, found.open, TRUE, FALSE)

ByOneshot(was) ==
    IF setup.uefi /\ nv.oneshot # NoPath
    THEN Try(find_entry_by_bli_id_or_path(nv.oneshot, was.open), was) ELSE was
ByLast(was) ==
    IF setup.uefi /\ ~was.has /\ setup.remember /\ shown.loaded /\ nv.last # NoPath
    THEN Try(ByPath(nv.last, was.open), was) ELSE was
Resolved(found) == Choice(found.index, found.open, TRUE, found.entry = 0)
ByDefault(was) ==
    CASE was.has \/ setup.default.kind = "none" \/ ~shown.loaded -> was
      [] ~was.has /\ setup.default.kind = "index" /\ shown.loaded ->
            Choice(IF setup.default.n = 0 THEN 0 ELSE setup.default.n - 1, was.open, TRUE, FALSE)
      [] OTHER -> Resolved(ByPath(setup.default.path, was.open))
ByVariable(was) ==
    IF setup.uefi /\ ~was.has /\ setup.bli # NoPath
    THEN Try(find_entry_by_bli_id_or_path(setup.bli, was.open), was) ELSE was

Chosen == ByVariable(ByDefault(ByLast(ByOneshot(Choice(0, Open0, FALSE, FALSE)))))

(* handle_timeout: what a timeout variable asks for; "seconds" is a number   *)
(* above zero.  The steps of the count: 5000 ms unless asked otherwise, the  *)
(* hidden menu's, and a number of seconds.                                   *)
Unasked == 2
Hidden == 1  \* MENU_HIDDEN_TIMEOUT_MS
Seconds == 3
handle_timeout(policy, erase, was) ==
    CASE policy = "force"    -> [was EXCEPT !.has = TRUE, !.skip = TRUE]
      [] policy = "hidden"   -> [was EXCEPT !.has = TRUE, !.left = Hidden]
      [] policy = "disabled" -> [was EXCEPT !.has = TRUE, !.left = 0]
      [] policy = "zero" /\ erase  -> [was EXCEPT !.has = TRUE, !.skip = TRUE]
      [] policy = "zero" /\ ~erase -> [was EXCEPT !.has = TRUE, !.left = Hidden]
      [] policy = "seconds" -> [was EXCEPT !.has = TRUE, !.left = Seconds]
      [] OTHER -> was

Timeout ==
    LET none == [has |-> FALSE, skip |-> FALSE, left |-> Unasked]
        one  == IF setup.uefi THEN handle_timeout(nv.timeout1, TRUE, none) ELSE none
        file == IF one.has \/ setup.timeout = "none" \/ ~shown.loaded THEN one
                ELSE IF setup.timeout = "no" THEN [one EXCEPT !.has = TRUE, !.skip = TRUE]
                ELSE [one EXCEPT !.has = TRUE, !.left = IF setup.timeout = "zero" THEN 0 ELSE 1]
    IN IF setup.uefi /\ ~file.has THEN handle_timeout(setup.timeout2, FALSE, file) ELSE file

Nth(entries, sel) == IF sel < Len(entries) THEN entries[sel + 1] ELSE 0
EntryAt(sel, open) == Nth(Visible(open), sel)
IsDir(e) == e # 0 /\ tree[e].dir

---------------------------------------------------------------------------
(* Steps of _menu.  Each takes the record `s' the step has so far.           *)

(* The editor opens on the given text, or again on the text of the boot that *)
(* failed.                                                                   *)
Editing(s, pc, text) ==
    [s EXCEPT !.pc = pc, !.again = kept'.editor,
              !.text = IF kept'.editor THEN kept'.saved ELSE text]

RefreshOn(s, entry) ==
    LET down  == IF s.sel >= s.off + Window THEN s.sel - (Window - 1) ELSE s.off
        none  == entry = 0 \/ IsDir(entry)
        now   == [s EXCEPT !.off = IF s.sel < down THEN s.sel ELSE down, !.entry = entry,
                           !.skip = @ \/ none]
    IN CASE ~now.skip -> [now EXCEPT !.pc = "count"]
         [] now.skip /\ kept'.editor /\ kept'.blank -> Editing(now, "blank", 0)
         [] now.skip /\ kept'.editor /\ ~kept'.blank /\ ~none ->
                Editing(now, "edit", now.body[entry])
         [] OTHER -> [now EXCEPT !.pc = "keys"]
Refresh(s) == RefreshOn(s, EntryAt(s.sel, s.open))

(* autoboot: expand or collapse a directory, boot an entry.                  *)
Boots(s, how) ==
    IF s.entry = 0 THEN /\ shown' = [s EXCEPT !.pc = "keys"] /\ UNCHANGED nv
    ELSE IF IsDir(s.entry)
    THEN /\ shown' = Refresh([s EXCEPT !.open = IF s.entry \in @ THEN @ \ {s.entry}
                                                ELSE @ \cup {s.entry}])
         /\ UNCHANGED nv
    ELSE /\ shown' = [s EXCEPT !.pc = "boot", !.ran = s.entry, !.text = s.body[s.entry],
                               !.how = how]
         /\ nv' = IF setup.uefi THEN [nv EXCEPT !.last = get_entry_path(s.entry),
                                                  !.selected = bli_entry_id(s.entry)]
                  ELSE nv

(* A snapshot taken before the mark that there is one.                       *)
SnapshotUnmarked == IF shown.data.ptr THEN rewound ELSE shown.data
(* rewound_memmap is part of the data, and set before the copy is taken.     *)
Snapshot == IF shown.data.ptr THEN rewound ELSE [shown.data EXCEPT !.ptr = TRUE]

(* _menu up to the configuration: rewind, or take the snapshot to rewind to. *)
Enter ==
    /\ shown.pc = "enter"
    /\ LET load == ~kept.bad /\ setup.config # "missing"
           bad  == load /\ setup.config = "bad"
       IN /\ rewound' = Snapshot
          /\ kept' = [kept EXCEPT !.bad = @ \/ bad]
          /\ shown' = [shown EXCEPT
                !.data = [Snapshot EXCEPT !.b2sum = @ + (IF load THEN 1 ELSE 0)],
                !.enters = @ + (IF bad THEN 1 ELSE 0),
                !.pc = IF bad THEN "enter" ELSE "choose",
                !.loaded = load /\ ~bad,
                !.body = [i \in 1 .. Len(setup.tree) |-> i]]
    /\ UNCHANGED <<setup, nv>>

(* _menu from the selection to the first display, or to the boot of an entry *)
(* whose timeout is zero.                                                    *)
Choose ==
    /\ shown.pc = "choose"
    /\ \E c \in {Chosen}, t \in {Timeout} : \E entry \in {EntryAt(c.sel, c.open)} :
       LET first   == shown.enters = 1
           invalid == c.unresolved \/ entry = 0
           s       == [shown EXCEPT !.sel = IF entry = 0 THEN 0 ELSE c.sel, !.open = c.open,
                          !.entry = entry, !.off = 0, !.left = t.left,
                          !.skip = t.skip \/ ~first \/ invalid \/ IsDir(entry)]
           used    == IF setup.uefi THEN [nv EXCEPT !.oneshot = NoPath, !.timeout1 = "none"]
                      ELSE nv
       IN IF ~s.skip /\ t.left = 0
          THEN /\ shown' = [s EXCEPT !.pc = "boot", !.ran = entry, !.text = s.body[entry],
                                     !.how = "auto"]
               /\ nv' = IF setup.uefi THEN [used EXCEPT !.last = get_entry_path(entry),
                                                          !.selected = bli_entry_id(entry)]
                        ELSE nv
               /\ UNCHANGED kept
          ELSE /\ UNCHANGED kept
               /\ shown' = Refresh(s)
               /\ nv' = used
    /\ UNCHANGED <<setup, rewound>>

Tick ==
    /\ shown.pc = "count"
    /\ UNCHANGED <<setup, kept, rewound>>
    /\ IF shown.left > 1
       THEN shown' = [shown EXCEPT !.left = @ - 1] /\ UNCHANGED nv
       ELSE Boots([shown EXCEPT !.left = 0], "auto")

(* The keys.  A key during the count stops it.                               *)
Waiting == shown.pc \in {"count", "keys"}
Stopped == [shown EXCEPT !.pc = "keys", !.skip = TRUE]
max_entries == Len(Visible(shown.open))

Move(sel) ==
    /\ Waiting /\ max_entries # 0
    /\ UNCHANGED <<setup, nv, kept, rewound>>
    /\ shown' = Refresh([Stopped EXCEPT !.sel = sel])

HomeEnd == Move(0) \/ Move(max_entries - 1)
UpDown == \/ Move(IF shown.sel = 0 THEN max_entries - 1 ELSE shown.sel - 1)
          \/ Move(IF shown.sel + 1 = max_entries THEN 0 ELSE shown.sel + 1)
Wheel == \E steps \in {1, 2} :
            \/ Move(IF shown.sel > steps THEN shown.sel - steps ELSE 0)
            \/ Move(IF shown.sel + steps >= max_entries THEN max_entries - 1
                    ELSE shown.sel + steps)

row_to_entry_index(row) == shown.off + row
Hover == \E row \in 0 .. Window - 1 :
            /\ row_to_entry_index(row) < max_entries
            /\ row_to_entry_index(row) # shown.sel
            /\ Move(row_to_entry_index(row))

Pick(sel) ==
    /\ Waiting
    /\ UNCHANGED <<setup, kept, rewound>>
    /\ Boots([Stopped EXCEPT !.sel = sel, !.entry = EntryAt(sel, shown.open)], "key")
Number == \E n \in 1 .. 2 : max_entries # 0 /\ IF n <= max_entries THEN Pick(n - 1)
                                              ELSE Move(shown.sel)
Click == \E row \in 0 .. Window - 1 :
            row_to_entry_index(row) < max_entries /\ Pick(row_to_entry_index(row))
Return == max_entries # 0 /\ Pick(shown.sel)

OtherKey ==
    /\ Waiting
    /\ shown' = Stopped
    /\ UNCHANGED <<setup, nv, kept, rewound>>

EditKey ==
    /\ Waiting /\ setup.editor /\ shown.entry # 0 /\ ~IsDir(shown.entry)
    /\ UNCHANGED <<setup, nv, kept, rewound>>
    /\ shown' = Editing(Stopped, "edit", shown.body[shown.entry])

BlankKey ==
    /\ Waiting /\ setup.editor
    /\ kept' = [kept EXCEPT !.blank = TRUE]
    /\ shown' = Editing(Stopped, "blank", 0)
    /\ UNCHANGED <<setup, nv, rewound>>

(* reboot_to_fw_ui() and boot_uefi_shell(): they leave the menu for good, or *)
(* panic as any boot may.                                                    *)
Leave(how) ==
    /\ Waiting /\ setup.uefi
    /\ shown' = [Stopped EXCEPT !.pc = "boot", !.ran = 0, !.text = 0, !.how = how]
    /\ UNCHANGED <<setup, nv, kept, rewound>>
FirmwareKey == Leave("firmware")
ShellKey == Leave("shell")

(* config_entry_editor, from its opening to its end.                         *)
EditDiscard ==
    /\ shown.pc \in {"edit", "blank"}
    /\ kept' = [kept EXCEPT !.editor = FALSE,
                            !.blank = IF shown.pc = "blank" THEN FALSE ELSE @]
    /\ shown' = Refresh(shown)
    /\ UNCHANGED <<setup, nv, rewound>>

EditBoot ==
    \E text \in {shown.text, (shown.text % Edited) + Edited} :
        /\ shown.pc \in {"edit", "blank"}
        /\ kept' = [kept EXCEPT !.editor = TRUE, !.saved = text]
        /\ UNCHANGED <<setup, rewound>>
        /\ IF shown.pc = "edit"
           THEN Boots([shown EXCEPT !.body[shown.entry] = text], "editor")
           ELSE /\ shown' = [shown EXCEPT !.pc = "boot", !.ran = 0, !.text = text, !.how = "editor"]
                /\ UNCHANGED nv

(* boot(): the system starts, or the loader panics and _menu is entered      *)
(* again; a measured boot halts instead.                                     *)
BootStarts ==
    /\ shown.pc = "boot" /\ shown' = [shown EXCEPT !.pc = "os"]
    /\ UNCHANGED <<setup, nv, kept, rewound>>
BootFails ==
    /\ shown.pc = "boot" /\ shown.enters < MaxEnters
    /\ shown' = [shown EXCEPT !.pc = IF setup.measured THEN "halt" ELSE "enter",
                              !.enters = IF setup.measured THEN @ ELSE @ + 1]
    /\ UNCHANGED <<setup, nv, kept, rewound>>

MenuInit ==
    /\ setup \in Machines
    /\ nv = [oneshot |-> setup.oneshot, timeout1 |-> setup.timeout1, last |-> NoPath,
             selected |-> NoPath]
    /\ shown = [pc |-> "enter", enters |-> 1, loaded |-> FALSE, open |-> {}, sel |-> 0, off |-> 0,
                entry |-> 0, skip |-> FALSE, left |-> 0, body |-> <<>>,
                text |-> 0, again |-> FALSE, ran |-> 0, how |-> "none",
                data |-> [ptr |-> FALSE, b2sum |-> 0]]
    /\ kept = [editor |-> FALSE, blank |-> FALSE, saved |-> 0, bad |-> FALSE]
    /\ rewound = [ptr |-> FALSE, b2sum |-> 0]

Keyboard == HomeEnd \/ UpDown \/ Wheel \/ Hover \/ Number \/ Click \/ Return \/ OtherKey
            \/ EditKey \/ BlankKey \/ FirmwareKey \/ ShellKey
MenuNext == \/ Enter \/ Choose \/ Tick \/ Keyboard \/ EditDiscard \/ EditBoot
            \/ BootStarts \/ BootFails

---------------------------------------------------------------------------
(* Properties.                                                             *)

MenuTypeOK ==
    /\ shown.pc \in {"enter", "choose", "count", "keys", "edit", "blank", "boot", "os", "halt"}
    /\ shown.open \subseteq 1 .. Len(setup.tree) /\ shown.entry \in 0 .. Len(setup.tree)
    /\ kept.editor \in BOOLEAN /\ kept.blank \in BOOLEAN

(* The entry a key acts on is the one the tree shows at the selected index,  *)
(* and that index is within the rows on the screen, whatever was expanded or *)
(* collapsed before.                                                         *)
SelectionRight ==
    shown.pc \in {"count", "keys", "edit"} =>
        /\ shown.entry = EntryAt(shown.sel, shown.open)
        /\ shown.entry = 0 => max_entries = 0
        /\ shown.off <= shown.sel /\ shown.sel < shown.off + Window

(* The path get_entry_path writes leads find_entry_by_path back to the entry *)
(* and to its index among the entries then on show, and the identifier       *)
(* bli_entry_id writes leads back to it: but a path cut at MENU_PATH_MAX may *)
(* not, nor an identifier that a duplicate's suffix happens to spell.        *)
Position(e, open) == CHOOSE i \in 1 .. Len(Visible(open)) : Visible(open)[i] = e
PathsLeadBack ==
    shown.pc = "choose" => \A e \in 1 .. Len(tree) : ~should_skip_entry(e) =>
        /\ Len(get_entry_path(e)) < MENU_PATH_MAX - 2 =>
            LET found == ByPath(get_entry_path(e), Open0)
            IN found.entry = e /\ found.index = Position(e, found.open) - 1
        /\ ~tree[e].dir =>
            \/ bli_id_to_entry(bli_entry_id(e)) = e
            \/ \E d \in 1 .. Len(tree) : /\ d # e /\ bli_entry_id(d) = bli_entry_id(e)
                                         /\ bli_entry_base_id(d) # bli_entry_base_id(e)

(* What is booted is the selected entry's own text, edited or not, and the   *)
(* firmware variable written for the next boot leads to that entry; but an   *)
(* editor opened again after a failed boot brings its text to whatever entry *)
(* is selected by then.                                                      *)
BootsTheSelected ==
    shown.pc = "boot" /\ shown.ran # 0 =>
        /\ (shown.again /\ shown.how = "editor") \/ shown.text % Edited = shown.ran
        /\ setup.uefi /\ Len(nv.last) < MENU_PATH_MAX - 2 => ByPath(nv.last, Open0).entry = shown.ran

(* A boot without a key is the first the menu makes, of a leaf that the      *)
(* settings resolve to, and the first of the one-shot variable, the file and *)
(* the lasting variable to speak of a timeout did not switch it off.         *)
Speaks(policies) == FirstOf(SelectSeq(policies, LAMBDA p : p[2] # "none"))
Outranking == Speaks((IF setup.uefi THEN << <<"oneshot", setup.timeout1>> >> ELSE <<>>)
                     \o << <<"file", setup.timeout>> >>
                     \o (IF setup.uefi THEN << <<"lasting", setup.timeout2>> >> ELSE <<>>)
                     \o << <<"nobody", "default">> >>)
AutobootAsAsked ==
    shown.pc = "boot" /\ shown.how = "auto" =>
        /\ shown.enters = 1 /\ ~IsDir(shown.ran) /\ ~should_skip_entry(shown.ran)
        /\ Outranking \notin {<<"file", "no">>, <<"oneshot", "zero">>}
        /\ Outranking[2] # "force"
        /\ setup.default.kind = "path" /\ ~setup.uefi =>
                ByPath(setup.default.path, Open0).entry = shown.ran

(* Each time the menu is entered the loader's data is what it was the first  *)
(* time: the configuration is parsed once on it, and a configuration found   *)
(* malformed is not parsed again.                                            *)
RewindRight ==
    shown.pc \notin {"enter"} =>
        /\ rewound = [ptr |-> TRUE, b2sum |-> 0]
        /\ shown.data.b2sum = IF shown.loaded THEN 1 ELSE 0
        /\ kept.bad => ~shown.loaded
=============================================================================
