------------------------------ MODULE MCPciBus ------------------------------
(* What is there to boot and to drive, five components side by side: the   *)
(* kernel's device scan and keyboard driver, and the loader's              *)
(* configuration file, menu and entry editor.  The variable `scene' says   *)
(* which of them a behaviour is about; the device scan's variables keep    *)
(* their initial values in the others, and the others' are 0.              *)
(*                                                                         *)
(* The device scan: two buses of one device with two functions, three base *)
(* address registers, and four kinds of function: an AHCI controller with  *)
(* a 64-bit address, one with the programming interface the driver refuses *)
(* and an I/O range, a sound controller with a 64-bit address behind an    *)
(* empty register, and a bridge with nothing in its first two registers.   *)
(* The texts and machines of the others follow.                            *)
EXTENDS PciBus, SequencesExt

CONSTANTS Keys, Growth, MAX_MENU_NESTING, Hunts,
          Machines, Window, MENU_PATH_MAX, BLI_ID_MAX, MaxEnters,
          EDITOR_MAX_BUFFER_SIZE, line_size, window_size, TabStop, Letters, Keystrokes, MaxStrokes

VARIABLES scene,
          hunt, conf, menu,
          setup, nv, shown, kept, rewound,
          buffer, cursor_offset, window_row,
          kb, out, latch, scodeset, inited, keyd, got, typed, dropped

Config == INSTANCE BootConfig
Menu == INSTANCE BootMenu
Editor == INSTANCE EntryEditor
Keyboard == INSTANCE Keyboard

\* A keystroke is a sequence of bytes.
ASSUME Keystroked == Keyboard!StrokesAreBytes

(* Texts of blanks and line ends, of macros and their definitions, of      *)
(* entries nested in every way, and of keys; and every place and checksum  *)
(* a configuration can be found with.                                      *)
NoFile == <<"none">>
Texts(set, n) == UNION {[1 .. k -> set] : k \in 0 .. n}
Blanky == Texts({"sp", "cr", "nl", "x"}, 5)
Macroy == {f \o g : f \in Texts({"$m", "=", "nl"}, 3), g \in Texts({"$m", "$ARCH", "=", "x", "nl"}, 3)}
          \cup {<<"x", "$">>, <<"$m", "=", "x", "x", "x", "nl", "$m", "$m", "$m", "$m", "$m", "$m", "$m", "$m">>}
Line(d, n) == [k \in 1 .. d |-> "/"] \o n
Trees == {Line(a, <<"x", "nl">>) \o Line(b, n) \o Line(c, <<"x", "nl">>) \o Line(d, <<"+", "x", "nl">>) :
            a \in 0 .. 3, b \in 1 .. 3, c \in 1 .. 4, d \in 1 .. 4,
            n \in {<<"+", "sp", "x", "nl">>, <<"nl">>, <<"x", "/", "x", "nl">>}}
Bodies == {h \o <<"/", "x", "nl">> \o b : h \in Texts({"k:", "x", "nl"}, 2) ,
             b \in {FlattenSeq([k \in 1 .. Len(t) |-> <<t[k], "x", "nl">>]) : t \in Texts({"k:", "j:"}, 4)}}
(* Entries without a name, values with a "/", and values that begin with a *)
(* key.                                                                    *)
Values == {<<"k:", "x">>, <<"k:", "j:", "x">>, <<"k:", "sp", "j:", "x">>, <<"k:", "x", "/", "x">>, <<"j:", "x">>,
           <<"x", "/">>, <<"/", "x">>}
Nameless == {h \o <<"/">> \o n \o <<"nl">> \o FlattenSeq([k \in 1 .. Len(t) |-> t[k] \o <<"nl">>]) :
               h \in {<<>>, <<"k:", "x", "nl">>}, n \in {<<>>, <<"x">>, <<"x", "/">>}, t \in Texts(Values, 2)}
Hunt(f) == [smbios |-> NoFile, parts |-> <<<<f>>>>, boot |-> 1, uefi |-> FALSE,
            sum |-> "none", secure |-> FALSE, bad |-> FALSE]
Where == {[smbios |-> s, parts |-> <<<<a, b>>, <<c, NoFile>>>>, boot |-> 2, uefi |-> u,
           sum |-> m, secure |-> e, bad |-> w] :
            s \in {NoFile, <<"x">>}, a \in {NoFile, <<"x">>}, b \in {NoFile, <<"nl">>},
            c \in {NoFile, <<"sp">>}, u \in BOOLEAN, m \in {"none", "match", "differs", "badchar"},
            e \in BOOLEAN, w \in BOOLEAN}
MCHunts == {Hunt(f) : f \in Blanky \cup Macroy \cup Trees \cup Bodies \cup Nameless} \cup Where
MCKeys == {"k:", "j:"}

(* Menus with entries of one name, hidden ones, names made of the          *)
(* characters that paths and identifiers use; and every way to name the    *)
(* entry that boots by itself, and when.                                   *)
E(n, p, d, o, h) == [name |-> n, parent |-> p, dir |-> d, open |-> o, hidden |-> h]
T1 == <<E(<<"x">>, 0, TRUE, FALSE, FALSE), E(<<"x">>, 1, FALSE, FALSE, FALSE),
        E(<<"x">>, 1, FALSE, FALSE, FALSE), E(<<"x">>, 0, FALSE, FALSE, FALSE)>>
T2 == <<E(<<"x">>, 0, FALSE, FALSE, FALSE), E(<<"x">>, 0, FALSE, FALSE, TRUE),
        E(<<"x">>, 0, TRUE, TRUE, FALSE), E(<<"y">>, 3, FALSE, FALSE, FALSE)>>
T3 == <<E(<<"x", "/">>, 0, TRUE, FALSE, FALSE), E(<<"#", "1">>, 1, TRUE, FALSE, FALSE),
        E(<<"x", "\\">>, 2, FALSE, FALSE, FALSE), E(<<"x", "/">>, 0, FALSE, FALSE, FALSE)>>
T4 == <<E(<<"#">>, 0, FALSE, FALSE, FALSE), E(<<"\\">>, 0, FALSE, FALSE, FALSE),
        E(<<"-", "-", "-", "2">>, 0, FALSE, FALSE, FALSE), E(<<"#">>, 0, FALSE, FALSE, FALSE)>>
NoDefault == [kind |-> "none", n |-> 0, path |-> <<>>]
Base == [tree |-> T1, config |-> "ok", uefi |-> FALSE, oneshot |-> NoFile, timeout1 |-> "none",
         remember |-> FALSE, default |-> NoDefault, bli |-> NoFile, timeout |-> "none",
         timeout2 |-> "none", editor |-> TRUE, measured |-> FALSE]
Path(p) == [kind |-> "path", n |-> 0, path |-> p]
Index(k) == [kind |-> "index", n |-> k, path |-> <<>>]
MCMachines ==
    {[Base EXCEPT !.tree = t, !.default = d, !.timeout = o] :
        t \in {T1, T2}, d \in {Index(9), Path(<<"x", "/", "x", "#", "1">>)}, o \in {"none", "zero"}}
    \cup {[Base EXCEPT !.tree = T3, !.timeout = "no"], [Base EXCEPT !.default = Path(<<"y">>)],
          [Base EXCEPT !.tree = T2, !.default = Index(2)],
          [Base EXCEPT !.config = "bad"], [Base EXCEPT !.config = "missing", !.uefi = TRUE, !.oneshot = <<"x">>]}
    \cup {[Base EXCEPT !.tree = T4, !.uefi = TRUE, !.timeout1 = o, !.oneshot = <<"-", "-", "-", "2">>,
                       !.timeout2 = IF o = "none" THEN "disabled" ELSE "zero"] :
        o \in {"none", "force", "zero", "hidden", "seconds"}}
    \cup {[Base EXCEPT !.tree = T4, !.uefi = TRUE, !.timeout2 = o] :
        o \in {"force", "zero", "seconds"}}
    \cup {[Base EXCEPT !.tree = T4, !.uefi = TRUE, !.timeout1 = o, !.timeout = "no"] :
        o \in {"none", "seconds"}}
    \cup {[Base EXCEPT !.tree = t, !.uefi = TRUE, !.remember = TRUE, !.bli = b, !.measured = (t = T3)] :
        t \in {T1, T3}, b \in {NoFile, <<"x", "/", "x">>}}

(* Pressing and releasing a plain key, whose code is also the name of a    *)
(* scan code set, one with a prefix, and the pause key.                    *)
Stroke(bytes, gives) == [bytes |-> bytes, gives |-> gives]
MCKeystrokes ==
  {Stroke(<<"43">>, <<>>), Stroke(<<"f0", "43">>, << <<"43">> >>),
   Stroke(<<"e0", "75">>, <<>>), Stroke(<<"e0", "f0", "75">>, << <<"e0", "75">> >>),
   Stroke(<<"e1", "14", "77", "e1", "f0", "14", "f0", "77">>, <<>>)}

None == [kind |-> "none", high |-> 0, low |-> 0]

MCDevices ==
    { [class |-> 1, subclass |-> 6, prog_if |-> 1, driver |-> "achi",
       resource |-> [n \in 0 .. 2 |->
          IF n = 0 THEN [kind |-> "mem64", high |-> 21, low |-> 32]
          ELSE IF n = 2 THEN [kind |-> "mem32", high |-> 0, low |-> 48]
          ELSE None]],
      [class |-> 1, subclass |-> 6, prog_if |-> 0, driver |-> "none",
       resource |-> [n \in 0 .. 2 |->
          IF n = 0 THEN [kind |-> "io", high |-> 0, low |-> 60] ELSE None]],
      [class |-> 4, subclass |-> 3, prog_if |-> 0, driver |-> "hda",
       resource |-> [n \in 0 .. 2 |->
          IF n = 1 THEN [kind |-> "mem64", high |-> 0, low |-> 64]
          ELSE None]],
      [class |-> 6, subclass |-> 4, prog_if |-> 0, driver |-> "none",
       resource |-> [n \in 0 .. 2 |->
          IF n = 2 THEN [kind |-> "mem32", high |-> 0, low |-> 80]
          ELSE None]] }


configVars == <<hunt, conf, menu>>
menuVars == <<setup, nv, shown, kept, rewound>>
editorVars == <<buffer, cursor_offset, window_row>>
kbVars == <<kb, out, latch, scodeset, inited, keyd, got, typed, dropped>>
choiceVars == <<scene, vars, configVars, menuVars, editorVars, kbVars>>

PciRests == /\ machine = [config |-> [s \in Slots |-> Absent], revision |-> 2, rsdp |-> TRUE, rsdt |-> TRUE,
                          mcfg |-> TRUE]
            /\ Init
NoConfig == hunt = 0 /\ conf = 0 /\ menu = 0
NoMenu == setup = 0 /\ nv = 0 /\ shown = 0 /\ kept = 0 /\ rewound = 0
NoEditor == buffer = 0 /\ cursor_offset = 0 /\ window_row = 0
NoKeyboard == /\ kb = 0 /\ out = 0 /\ latch = 0 /\ scodeset = 0 /\ inited = 0 /\ keyd = 0 /\ got = 0
              /\ typed = 0 /\ dropped = 0

ChoiceInit ==
    /\ scene \in {"pci", "config", "menu", "editor", "keyboard"}
    /\ IF scene = "pci" THEN Init ELSE PciRests
    /\ IF scene = "config" THEN Config!ConfigInit ELSE NoConfig
    /\ IF scene = "menu" THEN Menu!MenuInit ELSE NoMenu
    /\ IF scene = "editor" THEN Editor!EditorInit ELSE NoEditor
    /\ IF scene = "keyboard" THEN Keyboard!KeyboardInit ELSE NoKeyboard

PciNext == scene = "pci" /\ Next
MenuTick == scene = "menu" /\ Menu!Tick

ChoiceNext ==
    \/ PciNext /\ UNCHANGED <<scene, configVars, menuVars, editorVars, kbVars>>
    \/ scene = "config" /\ Config!ConfigNext /\ UNCHANGED <<scene, vars, menuVars, editorVars, kbVars>>
    \/ scene = "menu" /\ Menu!MenuNext /\ UNCHANGED <<scene, vars, configVars, editorVars, kbVars>>
    \/ scene = "editor" /\ Editor!EditorNext /\ UNCHANGED <<scene, vars, configVars, menuVars, kbVars>>
    \/ scene = "keyboard" /\ Keyboard!KeyboardNext /\ UNCHANGED <<scene, vars, configVars, menuVars, editorVars>>

(* The scan runs on; so does the clock the menu counts with.               *)
ChoiceSpec == ChoiceInit /\ [][ChoiceNext]_choiceVars /\ WF_vars(PciNext) /\ WF_menuVars(MenuTick)

(* The device scan ends (ScanEnds of PciBus), and the menu's countdown     *)
(* ends in a boot, unless a key stopped it (CountEnds of BootMenu).        *)
WaitsEnd ==
    /\ scene = "pci" => ScanEnds
    /\ (scene = "menu" /\ shown.pc = "count") ~> (scene = "menu" /\ shown.pc # "count")


(* The menu acts on the entry it shows, its paths and identifiers lead     *)
(* back to their entries, it boots by itself only what was asked for, and  *)
(* each entry into it starts from the same data (the invariants of         *)
(* BootMenu); the editor keeps its cursor on the screen and its map from   *)
(* cells to text exact (the invariants of EntryEditor); the keyboard       *)
(* driver stays in step with the keyboard, and waits for ever only for an  *)
(* answer it threw away (the invariants of Keyboard).                      *)
MenuRight ==
    /\ scene = "menu" =>
        /\ Menu!MenuTypeOK /\ Menu!SelectionRight /\ Menu!PathsLeadBack
        /\ Menu!BootsTheSelected /\ Menu!AutobootAsAsked /\ Menu!RewindRight
    /\ scene = "editor" =>
        Editor!EditorTypeOK /\ Editor!CursorShown /\ Editor!CellsRight /\ Editor!MovesByLine
    /\ scene = "keyboard" =>
        /\ Keyboard!KeyboardTypeOK /\ Keyboard!WaitsForALostAnswer
        /\ Keyboard!InitTellsTheTruth /\ Keyboard!KeysInStep /\ Keyboard!KeyboardInv
=============================================================================
