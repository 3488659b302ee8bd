------------------------------ MODULE ElfLoad ------------------------------
(***************************************************************************)
(* elf64_load() of src/limine/common/lib/elf.c: the checks of the program  *)
(* headers, the choice of a slide (KASLR), the table of relocations        *)
(* (packed RELR, RELA and JMPREL), loading and relocating each segment,    *)
(* and the ranges a protocol maps with the segments' permissions.          *)
(*                                                                         *)
(* An address counts cells, a word is two of them; addresses wrap at       *)
(* AddrMod.  A cell holds <<value of its word, which half>>.               *)
(***************************************************************************)
EXTENDS Integers, Sequences, FiniteSets, SequencesExt

CONSTANTS AddrMod,      \* 2^64
          HigherHalf,   \* FIXED_HIGHER_HALF_OFFSET_64
          ElfPage,      \* 4096
          RelrBits,     \* address bits in a RELR bitmap (63)
          MaxTries,     \* max_simulated_tries
          MaxImage,     \* max_image_size of a load elsewhere
          ElfFiles      \* the executables: [valid, tables, dyn, phdrs, relr, rela, syms, size, entry]

VARIABLES elf,     \* the load: where it is, the file, the slide ...
          image,   \* cell of the image -> content
          relocs,  \* the relocation array
          ranges   \* the ranges for the page tables
elfVars == <<elf, image, relocs, ranges>>

Word == 2
Loads(f) == SelectSeq(f.phdrs, LAMBDA p : p.k = "load" /\ p.memsz # 0)
ElfInit == /\ elf \in [at : {"check", "elsewhere"}, file : ElfFiles, kaslr : BOOLEAN, slide : {0}, tries : {0},
                       min : {0}, max : {0}, next : {1}, entry : {0}]
           /\ image = <<>> /\ relocs = <<>> /\ ranges = <<>>

ElfDown(a) == (a \div ElfPage) * ElfPage
ElfUp(a) == ElfDown(a + ElfPage - 1)
Wrap(a) == a % AddrMod
ElfPanic == elf' = [elf EXCEPT !.at = "panic"] /\ UNCHANGED <<image, relocs, ranges>>
PowersOfTwo == {1, 2, 4, 8, 16}

-----------------------------------------------------------------------------
\* elf64_validate(): a whole little-endian header of this machine.
elf64_validate(f) == f.valid
\* elf64_is_relocatable() panics on an ET_DYN file without a PT_DYNAMIC segment.
elf64_is_relocatable(f) == f.dyn
DynamicThere(f) == elf64_is_relocatable(f) => \E i \in DOMAIN f.phdrs : f.phdrs[i].k = "dynamic"

\* The scan of the program headers.
ScanOk(f) ==
  LET ps == Loads(f)
      low(i) == ps[i].vaddr < HigherHalf
  IN  /\ elf64_validate(f) /\ DynamicThere(f) /\ ps # <<>>
      /\ \A i \in DOMAIN ps : /\ ps[i].align \in PowersOfTwo \cup {0}
                              /\ low(i) => elf64_is_relocatable(f)
                              /\ ElfUp(ps[i].vaddr + ps[i].memsz) < AddrMod
      /\ \A i, j \in DOMAIN ps : low(i) <=> low(j)
      /\ \A i \in 1..(Len(ps) - 1) :
           LET prev == ps[i].vaddr + ps[i].memsz
           IN  /\ ps[i + 1].vaddr >= prev
               /\ ElfDown(ps[i + 1].vaddr) < ElfUp(prev) => ps[i + 1].flags = ps[i].flags

MinVaddr(ps) == ElfDown(Min({ps[i].vaddr : i \in DOMAIN ps}))
MaxVaddr(ps) == Max({ps[i].vaddr + ps[i].memsz : i \in DOMAIN ps})
elf64_max_align(f) == Max({ElfPage} \cup {Loads(f)[i].align : i \in DOMAIN Loads(f)})

LowToHigh == elf.min < HigherHalf
Lift == IF LowToHigh THEN HigherHalf - elf.min ELSE 0

CheckHeaders ==
  /\ elf.at = "check"
  /\ IF ~ScanOk(elf.file) THEN ElfPanic
     ELSE LET lo == MinVaddr(Loads(elf.file))
              hi == MaxVaddr(Loads(elf.file))
          IN  /\ elf' = [elf EXCEPT !.min = lo, !.max = hi, !.at = "slide"]
              /\ image' = [a \in 0..(hi - lo - 1) |-> <<0, 9>>]
              /\ UNCHANGED <<relocs, ranges>>

TooHigh(s) == Wrap(elf.min + s + (elf.max - elf.min)) < HigherHalf

\* A relocatable file gets random slides until one keeps it in the top half.
ChooseSlide ==
  /\ elf.at = "slide"
  /\ IF ~(elf64_is_relocatable(elf.file) /\ elf.kaslr)
     THEN /\ elf' = [elf EXCEPT !.slide = Lift, !.at = "relocs"] /\ UNCHANGED <<image, relocs, ranges>>
     ELSE \E r \in {x \in 0..(2 * (AddrMod - HigherHalf) - 1) : x % elf64_max_align(elf.file) = 0} :
            LET s == Wrap(r + Lift)
            IN  IF TooHigh(s)
                THEN IF elf.tries + 1 = MaxTries THEN ElfPanic
                     ELSE elf' = [elf EXCEPT !.tries = @ + 1] /\ UNCHANGED <<image, relocs, ranges>>
                ELSE elf' = [elf EXCEPT !.slide = s, !.at = "relocs"] /\ UNCHANGED <<image, relocs, ranges>>

-----------------------------------------------------------------------------
\* elf64_prepare_relocations().  A RELR word is an address, or, when odd, a
\* bitmap of the words behind the last one covered.
RECURSIVE Popcount(_)
Popcount(n) == IF n = 0 THEN 0 ELSE (n % 2) + Popcount(n \div 2)
\* Mutant: the marker bit of a bitmap is counted too.
CountMarker(ws) == FoldLeft(LAMBDA n, w : n + (IF w % 2 = 0 THEN 1 ELSE Popcount(w)), 0, ws)

RelrCount(ws) == FoldLeft(LAMBDA n, w : n + (IF w % 2 = 0 THEN 1 ELSE Popcount(w) - 1), 0, ws)

RECURSIVE BitmapAddrs(_, _, _)
BitmapAddrs(bits, where, j) ==  \* bits is shifted before it is looked at
  LET b == bits \div 2
  IN  IF b = 0 THEN <<>>
      ELSE (IF b % 2 = 1 THEN <<where + j * Word>> ELSE <<>>) \o BitmapAddrs(b, where, j + 1)
RECURSIVE RelrAddrs(_, _)
RelrAddrs(ws, where) ==
  IF ws = <<>> THEN <<>>
  ELSE IF Head(ws) % 2 = 0 THEN <<Head(ws)>> \o RelrAddrs(Tail(ws), Head(ws) + Word)
  ELSE BitmapAddrs(Head(ws), where, 0) \o RelrAddrs(Tail(ws), where + RelrBits * Word)

Relr(a) == [info |-> "relr", addr |-> a, addend |-> 0, sym |-> 0]
elf64_prepare_relocations(f) ==
  LET as == RelrAddrs(f.relr, 0)
      n == RelrCount(f.relr)
  IN  [i \in 1..n |-> IF i <= Len(as) THEN Relr(as[i]) ELSE Relr(0)] \o f.rela

PrepareRelocations ==
  /\ elf.at = "relocs"
  /\ IF ~elf.file.tables THEN ElfPanic   \* a table outside the file, odd sizes, DT_NEEDED
     ELSE /\ relocs' = elf64_prepare_relocations(elf.file)
          /\ elf' = [elf EXCEPT !.at = "load"]
          /\ UNCHANGED <<image, ranges>>

\* elf64_apply_relocations() on the segment at vaddr..vaddr+size.
Half1(v) == <<Wrap(v), 0>>
Half2(v) == <<Wrap(v), 1>>
reloc_load(img, p) == img[p][1]
reloc_store(img, p, v) == [img EXCEPT ![p] = Half1(v), ![p + 1] = Half2(v)]
Symbol(f, r) == f.syms[r.sym]
NeedsSymbol == {"glob_dat", "abs64"}
Unresolved(f, r) == r.info \in NeedsSymbol /\ (r.sym \notin DOMAIN f.syms \/ (Symbol(f, r).undef /\ ~Symbol(f, r).weak))
InSegment(r, p) == r.addr >= p.vaddr /\ p.memsz >= Word /\ r.addr <= p.vaddr + p.memsz - Word
Apply(img, f, r, slide) ==
  LET p == r.addr - elf.min
      s == IF r.info \in NeedsSymbol THEN Symbol(f, r) ELSE [undef |-> FALSE, weak |-> FALSE, abs |-> FALSE, value |-> 0]
      value == s.value + (IF s.abs THEN 0 ELSE slide)
  IN  CASE r.info = "none" -> img
        [] r.info = "relative" -> reloc_store(img, p, slide + r.addend)
        [] r.info = "relr" -> reloc_store(img, p, reloc_load(img, p) + slide)
        [] r.info \in NeedsSymbol /\ s.undef -> reloc_store(img, p, 0)
        [] r.info = "glob_dat" -> reloc_store(img, p, value)
        [] OTHER -> reloc_store(img, p, value + r.addend)

FileCell(o) == <<o \div Word, o % Word>>

LoadSegment ==
  /\ elf.at = "load" /\ elf.next <= Len(Loads(elf.file))
  /\ LET f == elf.file
         p == Loads(f)[elf.next]
         here == SelectSeq(relocs, LAMBDA r : InSegment(r, p))
         copied == [a \in DOMAIN image |-> IF a + elf.min \in p.vaddr..(p.vaddr + p.filesz - 1)
                                           THEN FileCell(p.off + (a + elf.min - p.vaddr)) ELSE image[a]]
     IN  IF \/ p.filesz > p.memsz \/ p.off + p.filesz > f.size
            \/ \E i \in DOMAIN here : here[i].info = "unknown" \/ Unresolved(f, here[i])
         THEN ElfPanic
         ELSE /\ image' = FoldLeft(LAMBDA img, r : Apply(img, f, r, elf.slide), copied, here)
              /\ elf' = [elf EXCEPT !.next = @ + 1]
              /\ UNCHANGED <<relocs, ranges>>

\* elf64_get_ranges(), which rounds to pages and panics when that wraps, and
\* the entry point.
RangeOf(p) == LET b == Wrap(p.vaddr + elf.slide)
              IN  [base |-> ElfDown(b), top |-> ElfUp(b + p.memsz), flags |-> p.flags]
FinishLoad ==
  /\ elf.at = "load" /\ elf.next > Len(Loads(elf.file))
  /\ LET rs == [i \in DOMAIN Loads(elf.file) |-> RangeOf(Loads(elf.file)[i])]
     IN  IF \E i \in DOMAIN rs : rs[i].top >= AddrMod THEN ElfPanic
         ELSE /\ ranges' = rs
              /\ elf' = [elf EXCEPT !.at = "loaded", !.entry = Wrap(elf.file.entry + elf.slide)]
              /\ UNCHANGED <<image, relocs>>

\* elf32_load_elsewhere() and elf64_load_elsewhere(), line for line the same: one
\* buffer for everything from the lowest to the highest physical address.
LowestPaddr(ps) == Min({ps[i].paddr : i \in DOMAIN ps})
HighestPaddr(ps) == Max({ps[i].paddr + ps[i].memsz : i \in DOMAIN ps})
ElsewhereOk(f, ps) ==
  /\ elf64_validate(f) /\ ps # <<>> /\ HighestPaddr(ps) - LowestPaddr(ps) <= MaxImage
  /\ \A i \in DOMAIN ps : ps[i].filesz <= ps[i].memsz /\ ps[i].off + ps[i].filesz <= f.size
\* Later segments are copied over earlier ones.
CopySegments(ps) ==
  LET at(p) == p.paddr - LowestPaddr(ps)
      copy(img, p) == [a \in DOMAIN img |-> IF a \in at(p)..(at(p) + p.filesz - 1) THEN FileCell(p.off + a - at(p)) ELSE img[a]]
  IN  FoldLeft(copy, [a \in 0..(HighestPaddr(ps) - LowestPaddr(ps) - 1) |-> <<0, 9>>], ps)
\* The first segment that holds the entry point moves it, once.
AdjustEntry(entry, ps) ==
  LET holds == {i \in DOMAIN ps : entry \in ps[i].vaddr..(ps[i].vaddr + ps[i].memsz - 1)}
  IN  IF holds = {} THEN entry ELSE entry - ps[Min(holds)].vaddr + ps[Min(holds)].paddr

LoadElsewhere ==
  /\ elf.at = "elsewhere"
  /\ LET f == elf.file
         ps == Loads(f)
     IN  IF ~ElsewhereOk(f, ps) THEN ElfPanic
         ELSE /\ image' = CopySegments(ps)
              /\ elf' = [elf EXCEPT !.at = "elsewhere done", !.min = LowestPaddr(ps), !.max = HighestPaddr(ps),
                                    !.entry = AdjustEntry(f.entry, ps)]
              /\ UNCHANGED <<relocs, ranges>>

ElfNext == LoadElsewhere \/ CheckHeaders \/ ChooseSlide \/ PrepareRelocations \/ LoadSegment \/ FinishLoad

-----------------------------------------------------------------------------
ElfTypeOK == /\ elf.at \in {"check", "slide", "relocs", "load", "loaded", "panic", "elsewhere", "elsewhere done"}
             /\ elf.slide \in 0..(AddrMod - 1) /\ elf.tries \in 0..MaxTries

\* The image a kernel is entered with is the file's: every segment's bytes, zero
\* where the file has none, and each relocation inside a segment applied once,
\* in the order of the table, whatever segment it falls into (elf.c:347-780).
InAnySegment(r) == \E i \in DOMAIN Loads(elf.file) : InSegment(r, Loads(elf.file)[i])
FromFile(a) ==
  LET is == {i \in DOMAIN Loads(elf.file) :
               a \in Loads(elf.file)[i].vaddr..(Loads(elf.file)[i].vaddr + Loads(elf.file)[i].filesz - 1)}
  IN  IF is = {} THEN <<0, 9>>
      ELSE LET p == Loads(elf.file)[CHOOSE i \in is : TRUE] IN FileCell(p.off + a - p.vaddr)
ImageRight ==
  elf.at = "loaded" =>
    image = FoldLeft(LAMBDA img, r : Apply(img, elf.file, r, elf.slide),
                     [a \in DOMAIN image |-> FromFile(a + elf.min)],
                     SelectSeq(relocs, InAnySegment))

\* The count of the RELR words agrees with what they unpack to, so the array is
\* filled exactly: no relocation of address 0 is left, none is written past it.
RelrExact ==
  elf.at = "load" => Len(RelrAddrs(elf.file.relr, 0)) = RelrCount(elf.file.relr)

\* Loaded elsewhere, the last segment to cover a cell decides it, and an entry
\* point inside a segment is inside the image (elf.c:1190-1377).
ElsewhereRight ==
  elf.at = "elsewhere done" =>
    LET ps == Loads(elf.file)
        over(a) == {i \in DOMAIN ps : a \in ps[i].paddr..(ps[i].paddr + ps[i].filesz - 1)}
    IN  /\ \A a \in DOMAIN image : image[a] =
             IF over(a + elf.min) = {} THEN <<0, 9>>
             ELSE LET p == ps[Max(over(a + elf.min))] IN FileCell(p.off + a + elf.min - p.paddr)
        /\ (\E i \in DOMAIN ps : elf.file.entry \in ps[i].vaddr..(ps[i].vaddr + ps[i].memsz - 1))
             => elf.entry \in elf.min..(elf.max - 1)

\* The slid image lies in the top half, without wrapping, keeps the alignment of
\* its segments, and two ranges on one page have the same permissions.
SlideRight ==
  elf.at = "loaded" =>
    /\ Wrap(elf.min + elf.slide) >= HigherHalf
    /\ Wrap(elf.min + elf.slide) + (elf.max - elf.min) <= AddrMod
    /\ elf.slide % ElfPage = 0
    /\ \A i, j \in DOMAIN ranges : ranges[i].base < ranges[j].top /\ ranges[j].base < ranges[i].top
                                   => ranges[i].flags = ranges[j].flags
=============================================================================
