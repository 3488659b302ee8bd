----------------------------- MODULE BootConfig -----------------------------
(***************************************************************************)
(* The loader's configuration (lib/config.c): where the file is found, the *)
(* enrolled checksum, and the passes of init_config over its text: trim    *)
(* the lines, load and expand the macros, build the menu tree, cut the     *)
(* global part off; then the lookups config_get_value/config_get_tuple.    *)
(*                                                                         *)
(* A text is a sequence of tokens: "sp" (space or tab), "cr", "nl", "/",   *)
(* "+", "=", plain text, a key with its colon (a member of Keys), and the  *)
(* macros "$m" and "$ARCH" for ${m} and ${ARCH}; "$" alone is a ${ that no *)
(* } of the file closes.  Tokens count one byte each.                      *)
(***************************************************************************)
EXTENDS Naturals, Sequences, FiniteSets, SequencesExt

CONSTANTS Keys,             \* the "key:" tokens
          Growth,           \* room of the expansion, in file sizes (4)
          MAX_MENU_NESTING,
          Hunts             \* what the machine offers

VARIABLES hunt,   \* the machine: SMBIOS string, volumes, enrolled checksum
          conf,   \* the loader: where it is, the text, what it decided
          menu    \* menu_tree, as a sequence of entries

configVars == <<hunt, conf, menu>>

Blanks == {"sp"}
Macros == {"$m", "$ARCH"}
IsMacro(t) == t \in Macros
At(s, i) == IF i \in 1 .. Len(s) THEN s[i] ELSE "nul"
LineStart(s, i) == i = 1 \/ At(s, i - 1) = "nl"

(* The end of the line that position i lies on: its "nl" or the text's end. *)
LineEnd(s, i) == CHOOSE e \in i .. Len(s) + 1 :
    At(s, e) \in {"nl", "nul"} /\ \A q \in i .. e - 1 : s[q] # "nl"

---------------------------------------------------------------------------
(* The passes of init_config.                                              *)

(* The first position at or after i whose token is not in set.              *)
RECURSIVE Past(_, _, _)
Past(s, i, set) == IF At(s, i) \in set THEN Past(s, i + 1, set) ELSE i

SkipAt(s, i) ==
    LET blanks == Past(s, i, Blanks)
        gone   == Past(s, i, {"cr"} \cup (IF LineStart(s, i) THEN Blanks ELSE {}))
    IN IF At(s, i) \in Blanks /\ At(s, blanks) = "nl" THEN blanks - i ELSE gone - i

RECURSIVE trim(_, _)
trim(s, i) ==
    IF i > Len(s) THEN s
    ELSE LET skip == SkipAt(s, i)
         IN IF skip = 0 THEN trim(s, i + 1)
            ELSE trim(SubSeq(s, 1, i - 1) \o SubSeq(s, i + skip, Len(s)), i)

(* A definition starts a line: ${name}= and its value.                     *)
DefinesAt(s, i) == LineStart(s, i) /\ IsMacro(At(s, i)) /\ At(s, i + 1) = "="

(* What macro name expands to: the latest definition, a built-in, nothing.  *)
MacroValue(s, macro) ==
    LET defs == {i \in 1 .. Len(s) : DefinesAt(s, i) /\ s[i] = macro}
        last == CHOOSE i \in defs : \A j \in defs : j <= i
    IN IF defs # {} THEN SubSeq(s, last + 2, LineEnd(s, last + 2) - 1)
       ELSE IF macro = "$ARCH" THEN <<"x86">> ELSE <<>>

Bad == "bad"
RECURSIVE expand(_, _, _)
expand(s, i, out) ==
    IF i > Len(s) THEN [how |-> "ok", text |-> out]
    ELSE IF At(s, i) = "nl" /\ DefinesAt(s, i + 1)
         THEN expand(s, LineEnd(s, i + 1), out)
    ELSE IF i = 1 /\ DefinesAt(s, 1) THEN expand(s, LineEnd(s, 1), out)
    ELSE IF s[i] = "$" THEN [how |-> Bad, text |-> out]
    ELSE LET more == out \o (IF IsMacro(s[i]) THEN MacroValue(s, s[i]) ELSE <<s[i]>>)
         IN IF Len(more) > Growth * Len(s) THEN [how |-> Bad, text |-> out]
            ELSE expand(s, i + 1, more)

---------------------------------------------------------------------------
(* The menu tree.                                                          *)

EntryLines(s) == SelectSeq([i \in 1 .. Len(s) |-> i],
                           LAMBDA i : s[i] = "/" /\ LineStart(s, i))
config_get_entry_name(s, n) ==
    LET at == EntryLines(s)[n] IN SubSeq(s, at, LineEnd(s, at) - 1)

(* Where the body begins: at the end of the entry's line.  The search for   *)
(* it starts two characters behind the line's start, so that a line of a    *)
(* "/" alone takes the line after it along.                                 *)
BodyStart(s, n) == LineEnd(s, EntryLines(s)[n] + 2)

(* The body: from there to the next entry.                                  *)
config_get_entry(s, n) ==
    LET from == BodyStart(s, n)
        next == {i \in from .. Len(s) : s[i] = "/" /\ LineStart(s, i)}
    IN SubSeq(s, from, IF next = {} THEN Len(s) ELSE Min(next) - 1)

is_child(s, depth, n) ==
    IF n > Len(EntryLines(s)) THEN "not"
    ELSE LET name == config_get_entry_name(s, n)
         IN IF Len(name) < depth + 1 \/ \E j \in 1 .. depth : name[j] # "/" THEN "not"
            ELSE IF name[depth + 1] = "/" THEN "indirect" ELSE "direct"

EntryOf(s, parent, depth, n) ==
    LET name == config_get_entry_name(s, n)
        plus == name[depth + 1] = "+"
        from == Past(name, depth + (IF plus THEN 2 ELSE 1), Blanks)
    IN [at |-> n, parent |-> parent, dir |-> is_child(s, depth + 1, n + 1) = "direct",
        expanded |-> plus /\ is_child(s, depth + 1, n + 1) = "direct",
        name |-> SubSeq(name, from, Len(name)), body |-> config_get_entry(s, n)]

(* The entries in the order they are made; at = 0 stands for a panic.       *)
Malformed == <<[at |-> 0]>>
RECURSIVE create_menu_tree(_, _, _, _)
create_menu_tree(s, parent, depth, n) ==
    CASE depth > MAX_MENU_NESTING -> Malformed
      [] depth <= MAX_MENU_NESTING /\ is_child(s, depth, n) = "not" -> <<>>
      [] depth <= MAX_MENU_NESTING /\ is_child(s, depth, n) = "indirect" ->
            create_menu_tree(s, parent, depth, n + 1)
      [] OTHER ->
            LET entry == EntryOf(s, parent, depth, n)
            IN IF is_child(s, depth + 1, n + 1) = "indirect" THEN Malformed
               ELSE <<entry>>
                    \o (IF entry.dir THEN create_menu_tree(s, n, depth + 1, n + 1)
                        ELSE <<>>)
                    \o create_menu_tree(s, parent, depth, n + 1)
Panicked(tree) == \E i \in 1 .. Len(tree) : tree[i].at = 0


(* The global part: cut before the last "/" in front of the first entry's   *)
(* body, unless that "/" is the first character of the text.                *)
Global(s) ==
    IF EntryLines(s) = <<>> THEN s
    ELSE LET slash == Max({q \in 1 .. BodyStart(s, 1) : At(s, q) = "/"})
         IN IF slash = 1 THEN s ELSE SubSeq(s, 1, slash - 2)

---------------------------------------------------------------------------
(* Lookups.  A position 0 is the C code's NULL.                             *)

(* The places of a key in the text from position from on: where a line      *)
(* starts, or where that text does.                                         *)
KeyLines(s, from, key) ==
    SelectSeq([i \in 1 .. Len(s) |-> i],
              LAMBDA i : i >= from /\ s[i] = key /\ (i = from \/ LineStart(s, i)))
(* Where the value of the (index+1)-th key line at or after from begins.    *)
KeyAt(s, from, index, key) ==
    LET lines == KeyLines(s, from, key)
    IN IF index < Len(lines) THEN Past(s, lines[index + 1] + 1, Blanks) ELSE 0
Value(s, at) == IF at = 0 THEN <<"null">> ELSE SubSeq(s, at, LineEnd(s, at) - 1)
config_get_value(s, index, key) == Value(s, KeyAt(s, 1, index, key))

(* A tuple whose second key may lie behind the next first key.              *)
TupleAcross(s, index, key1, key2) ==
    LET lk1 == KeyAt(s, 1, index, key1)
    IN IF lk1 = 0 THEN <<Value(s, 0), Value(s, 0)>>
       ELSE <<Value(s, lk1), Value(s, KeyAt(s, lk1, 0, key2))>>

config_get_tuple(s, index, key1, key2) ==
    LET lk1 == KeyAt(s, 1, index, key1)
        lk2 == IF lk1 = 0 THEN 0 ELSE KeyAt(s, lk1, 0, key2)
        lk3 == KeyAt(s, 1, index + 1, key1)
    IN IF lk1 = 0 THEN <<Value(s, 0), Value(s, 0)>>
       ELSE <<Value(s, lk1),
              Value(s, IF lk2 # 0 /\ lk3 # 0 /\ lk2 > lk3 THEN 0 ELSE lk2)>>

---------------------------------------------------------------------------
(* init_config_smbios, init_config_disk and init_config, pass by pass.      *)

NoFile == <<"none">>
(* The files of a volume in the order init_config_disk tries their paths.   *)
FirstFile(volume) ==
    LET found == SelectSeq(volume, LAMBDA f : f # NoFile)
    IN IF found = <<>> THEN NoFile ELSE found[1]

(* The volumes _menu goes through: on UEFI the boot volume before the parts. *)
Searched == (IF hunt.uefi THEN <<hunt.boot>> ELSE <<>>)
            \o [i \in 1 .. Len(hunt.parts) |-> i]
FoundOn == SelectSeq(Searched, LAMBDA i : FirstFile(hunt.parts[i]) # NoFile)

FindConfig ==
    /\ conf.pc = "find"
    /\ LET file == CASE hunt.bad -> NoFile
                     [] ~hunt.bad /\ hunt.smbios # NoFile -> hunt.smbios
                     [] ~hunt.bad /\ hunt.smbios = NoFile /\ FoundOn # <<>> ->
                           FirstFile(hunt.parts[FoundOn[1]])
                     [] OTHER -> NoFile
       IN conf' = [conf EXCEPT
            !.pc   = IF file = NoFile THEN "missing" ELSE "sum",
            !.text = IF file = NoFile THEN <<>> ELSE file,
            !.boot = IF hunt.bad \/ hunt.smbios # NoFile \/ FoundOn = <<>>
                     THEN hunt.boot ELSE FoundOn[1]]
    /\ UNCHANGED <<hunt, menu>>

CheckSum ==
    /\ conf.pc = "sum"
    /\ conf' = [conf EXCEPT
            !.pc     = IF hunt.sum \in {"none", "match"} THEN "trim" ELSE "panic",
            !.secure = @ /\ hunt.sum # "none",
            !.editor = @ /\ hunt.sum = "none",
            !.raw    = IF hunt.sum \in {"none", "match"} THEN conf.text ELSE @]
    /\ UNCHANGED <<hunt, menu>>

TrimText ==
    /\ conf.pc = "trim"
    /\ conf' = [conf EXCEPT !.pc = "macros", !.text = trim(Append(conf.text, "nl"), 1)]
    /\ UNCHANGED <<hunt, menu>>

ExpandMacros ==
    /\ conf.pc = "macros"
    /\ LET out == expand(conf.text, 1, <<>>)
       IN conf' = [conf EXCEPT !.pc = IF out.how = Bad THEN "panic" ELSE "tree",
                               !.lines = conf.text, !.text = out.text]
    /\ UNCHANGED <<hunt, menu>>

BuildTree ==
    /\ conf.pc = "tree"
    /\ LET tree == create_menu_tree(conf.text, 0, 1, 1)
       IN /\ menu' = IF Panicked(tree) THEN menu ELSE tree
          /\ conf' = [conf EXCEPT !.pc = IF Panicked(tree) THEN "panic" ELSE "ready",
                                  !.global = IF Panicked(tree) THEN @ ELSE Global(conf.text)]
    /\ UNCHANGED hunt

ConfigInit ==
    /\ hunt \in Hunts
    /\ conf = [pc |-> "find", text |-> <<>>, raw |-> <<>>, lines |-> <<>>,
               global |-> <<>>, boot |-> hunt.boot, secure |-> hunt.secure, editor |-> TRUE]
    /\ menu = <<>>

ConfigNext == FindConfig \/ CheckSum \/ TrimText \/ ExpandMacros \/ BuildTree

---------------------------------------------------------------------------
(* Properties.                                                             *)

ConfigTypeOK ==
    /\ conf.pc \in {"find", "sum", "trim", "macros", "tree", "ready", "missing", "panic"}
    /\ conf.secure \in BOOLEAN /\ conf.editor \in BOOLEAN
    /\ conf.boot \in 1 .. Len(hunt.parts)

(* The lines of a text whose last token is "nl".                            *)
RECURSIVE Lines(_)
Lines(s) == IF s = <<>> THEN <<>>
            ELSE LET e == LineEnd(s, 1)
                 IN <<SubSeq(s, 1, e - 1)>> \o Lines(SubSeq(s, e + 1, Len(s)))
Solid(lines) == SelectSeq(lines, LAMBDA l : l # <<>>)

(* A line from its first to its last token outside of the two sets.         *)
Stripped(line, front, back) ==
    LET from == {i \in 1 .. Len(line) : line[i] \notin front}
        to   == {i \in 1 .. Len(line) : line[i] \notin back}
    IN IF from = {} THEN <<>> ELSE SubSeq(line, Min(from), Max(to))
NoReturns(line) == SelectSeq(line, LAMBDA t : t # "cr")

(* init_config strips every line of the blanks at its ends and then of its  *)
(* carriage returns, and changes nothing else.  Blanks right before a       *)
(* return at the line's end are not at its end when the pass looks at them, *)
(* and stay, whatever the comment above the loop says (config.c:415).       *)
TrimmedRight ==
    conf.pc \in {"tree", "ready"} =>
        LET before == Lines(Append(conf.raw, "nl"))
        IN Lines(conf.lines) =
             [i \in 1 .. Len(before) |-> NoReturns(Stripped(before[i], Blanks \cup {"cr"}, Blanks))]

(* Macro expansion drops the definitions and replaces every use, whether it *)
(* comes before or after them, by the value of the last definition, once.   *)
Replaced(lines, line) ==
    LET Defs(t) == {l \in 1 .. Len(lines) : Len(lines[l]) > 1
                        /\ lines[l][1] = t /\ lines[l][2] = "="}
        Final(t) == lines[CHOOSE l \in Defs(t) : \A k \in Defs(t) : k <= l]
        Of(t)   == IF ~IsMacro(t) THEN <<t>>
                   ELSE IF Defs(t) # {} THEN SubSeq(Final(t), 3, Len(Final(t)))
                   ELSE IF t = "$ARCH" THEN <<"x86">> ELSE <<>>
    IN FlattenSeq([i \in 1 .. Len(line) |-> Of(line[i])])
MacrosRight ==
    conf.pc \in {"tree", "ready"} =>
        LET lines == Lines(conf.lines)
            uses  == SelectSeq(lines, LAMBDA l : ~(Len(l) > 1 /\ IsMacro(l[1]) /\ l[2] = "="))
        IN Solid(Lines(conf.text)) = Solid([i \in 1 .. Len(uses) |-> Replaced(lines, uses[i])])

(* The menu tree holds every entry from the first top-level one on, each    *)
(* under the nearest shallower entry before it, in a file whose entries all *)
(* have names; a file that skips a level is refused.                        *)
DepthOf(name) == Past(name, 1, {"/"}) - 1
MenuTreeRight ==
    conf.pc \in {"ready", "panic"} /\ conf.lines # <<>> =>
        LET n     == Len(EntryLines(conf.text))
            d     == [i \in 1 .. n |-> DepthOf(config_get_entry_name(conf.text, i))]
            named == \A i \in 1 .. n : Len(config_get_entry_name(conf.text, i)) > d[i]
            first == {i \in 1 .. n : \E j \in 1 .. i : d[j] = 1}
            Under(i) == {j \in first : j < i /\ d[j] < d[i]}
        IN named /\ conf.pc = "ready" =>
            /\ Len(menu) = Cardinality(first)
            /\ \A i \in first : i - 1 \in first => d[i] <= d[i - 1] + 1
            /\ \A i \in 1 .. Len(menu) :
                /\ menu[i].at = i + n - Len(menu)
                /\ LET above == Under(menu[i].at)
                   IN menu[i].parent = IF above = {} THEN 0
                        ELSE CHOOSE j \in above : \A k \in above : k <= j
                /\ menu[i].dir = \E j \in 1 .. Len(menu) : menu[j].parent = menu[i].at

(* A global lookup never sees a key of an entry: it finds what it would     *)
(* find in the text before the first entry.  Two files are excepted.  If    *)
(* the file begins with that entry and its line has no other "/", nothing   *)
(* is cut off; and if that line is a "/" alone, the search for the place of *)
(* the cut starts on the line after it (config.c:608-614, 668-670).         *)
GlobalsApart ==
    LET text  == conf.text
        first == EntryLines(text)
        name  == IF first = <<>> THEN <<>> ELSE config_get_entry_name(text, 1)
        uncut == first # <<>> /\ first[1] = 1 /\ \A q \in 2 .. Len(name) : name[q] # "/"
        front == IF first = <<>> THEN text ELSE SubSeq(text, 1, first[1] - 1)
    IN conf.pc = "ready" /\ ~uncut /\ name # <<"/">> =>
        \A key \in Keys : \A index \in 0 .. 1 :
            config_get_value(conf.global, index, key) = config_get_value(front, index, key)

(* A tuple pairs a key with the first second key that follows it before the *)
(* next first key, a module's string with that module's path.  A value that *)
(* itself begins with the second key is followed by it at once: the lookup  *)
(* of the second key starts at the first one's value, where it does not ask *)
(* for the start of a line (config.c:714, 763).                             *)
TupleRight ==
    conf.pc = "ready" => \A e \in 1 .. Len(menu) : \A k1 \in Keys : \A k2 \in Keys \ {k1} :
        \A index \in 0 .. 1 :
        LET body  == menu[e].body
            LinesOf(k) == {i \in 1 .. Len(body) : body[i] = k /\ LineStart(body, i)}
            own   == {i \in LinesOf(k1) : Cardinality({j \in LinesOf(k1) : j < i}) = index}
            here  == Min(own)
            value == Past(body, here + 1, Blanks)
            next  == Min({i \in LinesOf(k1) : i > here} \cup {Len(body) + 1})
            ours  == {i \in here .. next - 1 : body[i] = k2 /\ (i = value \/ LineStart(body, i))}
        IN config_get_tuple(body, index, k1, k2)
            = IF own = {} THEN <<Value(body, 0), Value(body, 0)>>
              ELSE <<Value(body, value),
                     IF ours = {} THEN Value(body, 0) ELSE Value(body, Past(body, Min(ours) + 1, Blanks))>>

(* With an enrolled checksum only the file it vouches for is parsed, and    *)
(* the editor stays off; without one secure boot is not claimed.            *)
Vouched ==
    conf.pc \in {"trim", "macros", "tree", "ready"} =>
        /\ hunt.sum \in {"none", "match"}
        /\ conf.secure => hunt.sum = "match"
        /\ conf.editor <=> hunt.sum = "none"
        /\ hunt.smbios # NoFile => conf.raw = hunt.smbios

=============================================================================
