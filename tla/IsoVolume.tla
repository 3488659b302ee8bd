----------------------------- MODULE IsoVolume -----------------------------
(***************************************************************************)
(* Opening and reading a file on an ISO 9660 volume                        *)
(* (src/limine/common/fs/iso9660.s2.c): the scan for the primary volume    *)
(* descriptor, the cached root directory, the walk down the path with      *)
(* Rock Ridge names, files of several extents, and iso9660_read().         *)
(*                                                                         *)
(* A directory is a sequence of sectors and a sector a sequence of records *)
(* with zeros behind them; a record keeps the length that places the next. *)
(* The medium supplies a directory when it is first read.                  *)
(***************************************************************************)
EXTENDS Integers, Sequences, SequencesExt

CONSTANTS SectorLen,       \* ISO9660_SECTOR_SIZE
          MaxDescriptors,  \* ISO9660_MAX_VOLUME_DESCRIPTORS
          MaxExtents,      \* ISO9660_MAX_EXTENT_COUNT
          Directories,     \* what a directory may hold
          IsoPaths,        \* sequences of path components
          IsoOpens         \* how often the volume is opened

VARIABLES iso,       \* where iso9660_open() is, and the path left
          contexts,  \* the cached root: <<>> or <<directory>>
          current,   \* the directory being searched
          held,      \* what this open has allocated and not freed
          extents,   \* the open file: extents of its handle
          isoGot     \* the last iso9660_read()

isoVars == <<iso, contexts, current, held, extents, isoGot>>

Zero == [len |-> 0]

IsoInit == /\ iso \in [at : {"probe"}, lba : {0}, path : IsoPaths, first : {TRUE}, opens : {1}]
           /\ contexts = <<>> /\ current = <<>> /\ held = {} /\ extents = <<>>
           /\ isoGot = [loc |-> 0, buf |-> <<>>, ok |-> TRUE]

-----------------------------------------------------------------------------
\* load_name(): the fragments of the NM fields up to one without CONTINUE, or
\* the ISO name when there is no NM field.
RECURSIVE NmName(_, _, _)
NmName(area, name, found) ==
  IF area = <<>> THEN [name |-> name, rr |-> found]
  ELSE IF Head(area).sig # "NM" THEN NmName(Tail(area), name, found)
  ELSE IF Head(area).continue THEN NmName(Tail(area), name \o Head(area).frag, TRUE)
  ELSE [name |-> name \o Head(area).frag, rr |-> TRUE]

load_name(r) == LET nm == NmName(r.area, <<>>, FALSE)
                IN  IF nm.rr THEN nm.name ELSE r.name

SumLen(s) == FoldLeft(LAMBDA n, r : n + r.len, 0, s)
SizeOf(dir) == Len(dir) * SectorLen

\* The record at offset p of a directory in memory, or Zero.
RecordAt(dir, p) ==
  LET sector == dir[(p \div SectorLen) + 1]
      is == {i \in DOMAIN sector : SumLen(SubSeq(sector, 1, i - 1)) = p % SectorLen}
  IN  IF is = {} THEN Zero ELSE sector[CHOOSE i \in is : TRUE]

\* iso9660_find(): the offset of the first record with this name, or -1.
RECURSIVE iso9660_find(_, _, _)
iso9660_find(dir, p, name) ==
  LET size == SizeOf(dir) - p
      r == RecordAt(dir, p)
  IN  IF size = 0 THEN -1
      ELSE IF r = Zero
           THEN IF size <= SectorLen THEN -1
                ELSE iso9660_find(dir, p + (IF size % SectorLen = 0 THEN SectorLen ELSE size % SectorLen), name)
      ELSE IF r.len > size THEN -1
      ELSE IF load_name(r) = name THEN p
      ELSE iso9660_find(dir, p + r.len, name)

\* A next record looked for in the same sector only.
NextInSector(dir, p) ==
  LET next == p + RecordAt(dir, p).len
  IN  IF next >= SizeOf(dir) \/ RecordAt(dir, next) = Zero THEN -1 ELSE next

\* iso9660_next_entry(): the offset of the record behind the one at p, or -1.
iso9660_next_entry(dir, p) ==
  LET size == SizeOf(dir)
      next == p + RecordAt(dir, p).len
      sector == ((next \div SectorLen) + 1) * SectorLen
      q == IF next < size /\ RecordAt(dir, next) = Zero THEN sector ELSE next
  IN  IF next >= size \/ q >= size THEN -1
      ELSE IF RecordAt(dir, q) = Zero THEN -1
      ELSE IF RecordAt(dir, q).len > size - q THEN -1
      ELSE q

\* The extents of the file at p: its record's, and those of the records that
\* follow while the last one says MULTI_EXTENT and the name stays the same.
RECURSIVE Extents(_, _, _)
Extents(dir, p, sofar) ==
  LET r == RecordAt(dir, p)
      got == Append(sofar, r.extent)
      next == iso9660_next_entry(dir, p)
  IN  IF ~r.multi \/ next = -1 \/ (sofar # <<>> /\ Len(got) >= MaxExtents) THEN got
      ELSE IF load_name(RecordAt(dir, next)) # load_name(r) THEN got
      ELSE Extents(dir, next, got)

-----------------------------------------------------------------------------
Fail == [iso EXCEPT !.at = "absent"]

\* iso9660_find_PVD(), one descriptor a step; a cached context skips it.
IsoProbe ==
  /\ iso.at = "probe"
  /\ IF contexts # <<>>
     THEN /\ iso' = [iso EXCEPT !.at = "walk"] /\ current' = contexts[1]
          /\ held' = {"handle"}
          /\ UNCHANGED contexts
     ELSE \E d \in {"unreadable", "other", "boot", "enhanced", "end", "primary", "primary2"} :
            IF d \in {"boot", "enhanced"} /\ iso.lba + 1 < MaxDescriptors
            THEN /\ iso' = [iso EXCEPT !.lba = @ + 1] /\ UNCHANGED <<contexts, current, held>>
            ELSE IF d # "primary" THEN /\ iso' = Fail /\ UNCHANGED <<contexts, current, held>>
            ELSE \* iso9660_cache_root(): the size has to be whole sectors
              \/ /\ iso' = Fail /\ UNCHANGED <<contexts, current, held>>
              \/ \E dir \in Directories :
                   /\ contexts' = <<dir>> /\ current' = dir
                   /\ held' = {"handle"} /\ iso' = [iso EXCEPT !.at = "walk"]
  /\ UNCHANGED <<extents, isoGot>>

IsoComponent ==
  /\ iso.at = "walk"
  /\ LET dirBuffer == IF iso.first THEN {} ELSE {"directory"}
         p == IF iso.path = <<>> THEN -1 ELSE iso9660_find(current, 0, Head(iso.path))
         last == Len(iso.path) = 1
     IN  IF iso.path = <<>> \/ p = -1
         THEN /\ iso' = Fail /\ held' = (held \ dirBuffer) \ {"handle"}
              /\ UNCHANGED <<current, extents>>
         ELSE IF ~last /\ ~RecordAt(current, p).dir
         THEN /\ iso' = Fail /\ held' = (held \ dirBuffer) \ {"handle"}
              /\ UNCHANGED <<current, extents>>
         ELSE IF last
         THEN /\ extents' = Extents(current, p, <<>>)
              /\ held' = (held \ dirBuffer) \cup {"extents"}
              /\ iso' = [iso EXCEPT !.at = "open"]
              /\ UNCHANGED current
         ELSE \/ \* a size that is not whole sectors, or an unreadable extent
                 /\ iso' = Fail /\ held' = (held \ dirBuffer) \ {"handle"}
                 /\ UNCHANGED <<current, extents>>
              \/ \E dir \in Directories :
                   /\ current' = dir /\ held' = (held \ dirBuffer) \cup {"directory"}
                   /\ iso' = [iso EXCEPT !.first = FALSE, !.path = Tail(@)]
                   /\ UNCHANGED extents
  /\ UNCHANGED <<contexts, isoGot>>

\* iso9660_read(): across the extents, and a panic when they end too early.
SizeUpTo(i) == FoldLeft(LAMBDA n, e : n + e.size, 0, SubSeq(extents, 1, i))
RECURSIVE ReadFrom(_, _, _, _)
ReadFrom(i, loc, count, buf) ==
  IF count = 0 THEN [ok |-> TRUE, buf |-> buf]
  ELSE IF i > Len(extents) THEN [ok |-> FALSE, buf |-> buf]
  ELSE IF loc >= SizeUpTo(i) THEN ReadFrom(i + 1, loc, count, buf)
  ELSE LET start == SizeUpTo(i - 1)
           off == IF loc > start THEN loc - start ELSE 0
           n == Min({count, extents[i].size - off})
       IN  ReadFrom(i + 1, loc + n, count - n,
                    buf \o [k \in 1..n |-> <<extents[i].lba, off + k - 1>>])

IsoRead ==
  /\ iso.at = "open" /\ isoGot.buf = <<>>
  /\ \E loc \in 0..SizeUpTo(Len(extents)), n \in 1..SizeUpTo(Len(extents)) :
       /\ loc + n <= SizeUpTo(Len(extents))
       /\ LET r == ReadFrom(1, loc, n, <<>>)
          IN  isoGot' = [loc |-> loc, buf |-> r.buf, ok |-> r.ok]
  /\ UNCHANGED <<iso, contexts, current, held, extents>>

\* iso9660_close(), or the end of a failed open, and perhaps another open.
IsoClose ==
  /\ iso.at \in {"open", "absent"}
  /\ held' = IF iso.at = "open" THEN held \ {"extents", "handle"} ELSE held
  /\ \/ iso' = [iso EXCEPT !.at = "closed"]
     \/ /\ iso.opens < IsoOpens
        /\ \E path \in IsoPaths : iso' = [at |-> "probe", lba |-> 0, path |-> path, first |-> TRUE,
                                          opens |-> iso.opens + 1]
  /\ extents' = <<>> /\ current' = <<>> /\ isoGot' = [isoGot EXCEPT !.buf = <<>>]
  /\ UNCHANGED contexts

IsoNext == IsoProbe \/ IsoComponent \/ IsoRead \/ IsoClose

-----------------------------------------------------------------------------
IsoTypeOK ==
  /\ iso.at \in {"probe", "walk", "open", "closed", "absent"} /\ iso.lba < MaxDescriptors
  /\ iso.opens \in 1..IsoOpens
  /\ held \subseteq {"handle", "extents", "directory"} /\ Len(contexts) <= 1

\* The records of a directory in order, whatever sectors they are in.
Records(dir) == FlattenSeq(dir)

\* A file that is open has the extents its directory gives it: those of the
\* first record with its name and of the run of records continuing that one,
\* across the zeros that end a sector (iso9660.s2.c:290-382, 466-519).
ExtentsRight ==
  iso.at = "open" =>
    LET rs == Records(current)
        name == Head(iso.path)
        is == {i \in DOMAIN rs : load_name(rs[i]) = name}
        first == CHOOSE i \in is : \A j \in is : i <= j
    IN  /\ is # {}
        /\ \A k \in DOMAIN extents : /\ extents[k] = rs[first + k - 1].extent
                                     /\ load_name(rs[first + k - 1]) = name
                                     /\ k < Len(extents) => rs[first + k - 1].multi
        /\ LET last == first + Len(extents) - 1
           IN  \/ ~rs[last].multi \/ last = Len(rs) \/ Len(extents) >= MaxExtents
               \/ load_name(rs[last + 1]) # name

\* iso9660_read() inside the size of the handle never panics, and its bytes are
\* those of the extents laid end to end.
IsoBytes == FlattenSeq([i \in DOMAIN extents |->
                          [k \in 1..extents[i].size |-> <<extents[i].lba, k - 1>>]])
IsoReadsRight ==
  /\ isoGot.ok
  /\ isoGot.buf # <<>> => isoGot.buf = SubSeq(IsoBytes, isoGot.loc + 1, isoGot.loc + Len(isoGot.buf))

\* Every way out of iso9660_open() frees what it allocated, and only the root
\* directory, which the cache keeps, outlives the handle.
IsoNothingLeaks == iso.at \in {"absent", "closed", "probe"} => held = {}
=============================================================================
