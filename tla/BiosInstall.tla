---------------------------- MODULE BiosInstall ----------------------------
(***************************************************************************)
(* The host tool `limine bios-install` (src/limine/host/limine.c): it      *)
(* writes the BIOS boot sector and stage 2 to a device, through a cache of *)
(* one block, keeping the old bytes of every write so that a failed        *)
(* install, or a later --uninstall, can put them back.                     *)
(*                                                                         *)
(* A device is a set of 512-byte sectors.  Sector 0 has the fields the     *)
(* tool tells apart (code, timestamp, stage 2 location, partition table,   *)
(* boot signature); every other sector is one cell.  A write is a function *)
(* from the cells it covers to their new values.  Any access may fail      *)
(* while `faults' lasts.  The text of the options, CHS triples, GUIDs and  *)
(* CRC arithmetic are abstracted to what the code decides from them.       *)
(***************************************************************************)
EXTENDS GptTable, FiniteSets, TLC

CONSTANTS Sectors,        \* sectors on the device
          Array,          \* sectors UEFI reserves for the entry array (16384 bytes)
          LowLimit,       \* the first sector an MBR partition may have (63)
          MinRoom,        \* the smallest BIOS boot partition (32 KiB)
          Stage2At,       \* where stage 2 goes on an MBR device (4096 bytes)
          MaxSector,      \* UINT32_MAX
          MaxArray,       \* GPT_MAX_ARRAY_SIZE
          UndoMax,        \* UNINSTALL_DATA_MAX
          PartsMax,       \* MAX_GPT_PARTITIONS
          Jobs            \* the devices and options to start from

VARIABLES job,      \* the device as found and the options given
          io,       \* the device, its one-block cache, the fault budget
          undo,     \* uninstall_data
          queue,    \* the device_write()s still to do
          at,       \* where bios_install() is
          loc,      \* its local variables
          torn      \* history: what failed writes have left on the device

hostVars == <<job, io, undo, queue, at, loc, torn>>

Cells == {<<0, f>> : f \in {"code", "stamp", "loc", "table", "sig"}}
           \cup {<<s, "data">> : s \in 1..(Sectors - 1)}
CellsOf(b) == {c \in Cells : c[1] = b}
Sector(s) == <<s, "data">>
NoBlock == -1
EmptyTable == [parts |-> <<>>, active |-> FALSE, flags |-> TRUE]

-----------------------------------------------------------------------------
\* The cached device: device_init() to uninstall().

\* What a read through the cache returns.
Seen(o) == IF o.dirty THEN o.data @@ o.dev ELSE o.dev

Failed(o) == IF o.faults = 0 THEN {} ELSE {[o EXCEPT !.ok = FALSE, !.faults = @ - 1]}

device_init(d, f) == [dev |-> d, blk |-> 0, dirty |-> FALSE, faults |-> f, ok |-> TRUE,
                      data |-> [c \in CellsOf(0) |-> d[c]]]

\* A write that fails may or may not have reached the device.
device_flush_cache(o) ==
  IF ~o.dirty THEN {o}
  ELSE LET put == [o EXCEPT !.dev = o.data @@ o.dev]
       IN  {[put EXCEPT !.dirty = FALSE]} \cup Failed(o) \cup Failed(put)

device_cache_block(o, b) ==
  IF o.blk = b THEN {o}
  ELSE UNION {IF ~f.ok THEN {f}
              ELSE {[f EXCEPT !.blk = b, !.data = [c \in CellsOf(b) |-> f.dev[c]]]}
                   \cup Failed(f) \cup Failed([f EXCEPT !.blk = NoBlock])
                : f \in device_flush_cache(o)}

\* Run step S over the blocks in order, each on what the last one left.
OverBlocks(o, blocks, S(_, _)) ==
  FoldLeft(LAMBDA acc, b : UNION {IF x.ok THEN S(x, b) ELSE {x} : x \in acc},
           {o}, SetToSortSeq(blocks, <))

device_read_raw(o, blocks) == OverBlocks(o, blocks, device_cache_block)

CopyIn(o, w) ==
  LET step(x, b) == {IF ~y.ok THEN y
                     ELSE [y EXCEPT !.dirty = TRUE,
                             !.data = [c \in CellsOf(b) |-> IF c \in DOMAIN w THEN w[c] ELSE @[c]]]
                       : y \in device_cache_block(x, b)}
  IN  OverBlocks(o, {c[1] : c \in DOMAIN w}, step)

\* While installing, the old bytes are read before the new ones are copied in.
device_write_raw(o, w, saved, uninstalling) ==
  IF uninstalling THEN CopyIn(o, w)
  ELSE IF saved >= UndoMax THEN {[o EXCEPT !.ok = FALSE]}
  ELSE UNION {IF x.ok THEN CopyIn(x, w) ELSE {x}
                : x \in device_read_raw(o, {c[1] : c \in DOMAIN w})}

\* One entry put back: one retry, after a flush and with the cache dropped.
Restore(o, w) ==
  LET Drop(x) == [x EXCEPT !.blk = NoBlock, !.dirty = FALSE, !.ok = TRUE]
      Retry(x) == [x EXCEPT !.ok = TRUE]
      Again(x) == UNION {{[io |-> Retry(y), ok |-> y.ok /\ f.ok]
                            : y \in device_write_raw(Drop(f), w, 0, TRUE)}
                           : f \in device_flush_cache(Retry(x))}
  IN  UNION {IF x.ok THEN {[io |-> x, ok |-> TRUE]} ELSE Again(x)
               : x \in device_write_raw(o, w, 0, TRUE)}

-----------------------------------------------------------------------------
\* The GUID partition table.  A header is a record; job.disk.hdr gives the one
\* each sector holds.  lb is the logical block size in sectors.

Blocks(lb) == Sectors \div lb
device_last_block(lb) == Blocks(lb) - 1
HeaderAt(s) == HeaderIn(job.disk.hdr, <<1, s>>)
Ceil(a, b) == (a + b - 1) \div b

gpt_protective_mbr == \E i \in DOMAIN job.disk.table.parts : job.disk.table.parts[i].type = "gpt"

\* `unread' are the headers that could not be read.
gpt_locate_header(unread) ==
  LET cands(lb) == LET within(a) == a <= device_last_block(lb)
                   IN  CandidatesFor(job.disk.hdr, lb, device_last_block(lb),
                                     <<lb, 1>> \notin unread, within)
  IN  IF ~gpt_protective_mbr THEN <<>>
      ELSE FirstValid(job.disk.hdr, cands(1) \o cands(2), unread, Blocks, MaxArray)

\* The ISOHYBRID conversion of a GPT to an MBR: which partitions, if any.
Used(h) == SelectSeq(h.parts, LAMBDA p : p.type # "none")
InSectors(p, lb) == [type |-> p.type, start |-> p.start * lb, end |-> p.end * lb + lb - 1]

Convertible(h, lb) ==
  /\ Len(h.parts) <= PartsMax
  /\ Len(Used(h)) <= 4
  /\ \A i \in DOMAIN Used(h) :
       LET p == Used(h)[i] IN
       /\ p.start <= p.end /\ p.start >= h.first /\ p.end <= h.last
       /\ p.end <= device_last_block(lb)
       /\ p.end * lb + lb - 1 <= MaxSector
       /\ p.type = "data"

\* The alternate headers to erase, each with its first block.
AltReserve(lb) == 1 + Ceil(Array, lb)
Alternates(h, lba, lb) ==
  LET named == IF lba # 1 THEN lba ELSE h.alt
      last == device_last_block(lb)
  IN  {a \in {named, last} : a >= AltReserve(lb) /\ HeaderAt(a * lb).sig}
WipeFirst(h, a, lb) == LET f == a - (AltReserve(lb) - 1) IN IF f <= h.last THEN h.last + 1 ELSE f

Zero(b, lb) == [c \in {d \in Cells : d[1] \div lb = b} |->
                  IF c = <<0, "table">> THEN EmptyTable ELSE "zero"]
Reserve(h, lb) == LET m == 2 + Ceil(Array, lb)
                      r == IF h.first < m THEN h.first ELSE m
                  IN  IF r < 2 THEN 2 ELSE r

\* The writes of the conversion: the erases, then the new table entry by entry.
Conversion(h, lba, lb) ==
  LET wipe(a) == [k \in 1..(a - WipeFirst(h, a, lb) + 1) |-> Zero(WipeFirst(h, a, lb) + k - 1, lb)]
      table(n) == [EmptyTable EXCEPT !.parts = [i \in 1..n |-> InSectors(Used(h)[i], lb)]]
  IN  [k \in 1..Reserve(h, lb) |-> Zero(k - 1, lb)]
        \o FlattenSeq([i \in DOMAIN SetToSeq(Alternates(h, lba, lb)) |->
                         wipe(SetToSeq(Alternates(h, lba, lb))[i])])
        \o [n \in 1..Len(Used(h)) |-> <<0, "table">> :> table(n)]
        \o << <<0, "sig">> :> "aa55" >>

-----------------------------------------------------------------------------
\* bios_install().

force == job.force
header == HeaderAt(loc.lb * loc.lba)

\* Do the writes, then go on at `next'.
Do(ws, next, l) == /\ queue' = ws
                   /\ at' = IF ws = <<>> THEN next ELSE "write"
                   /\ loc' = [l EXCEPT !.next = next]
GoTo(pc) == at' = pc /\ UNCHANGED <<queue, loc>>

HostInit ==
  /\ job \in Jobs
  /\ io = device_init(job.disk.dev, job.faults)
  /\ undo = <<>> /\ queue = <<>> /\ at = "locate" /\ torn = {}
  /\ loc = [gpt |-> FALSE, lb |-> 1, lba |-> 0, part |-> 0, s2 |-> 0, room |-> 0, next |-> "locate",
            ok |-> FALSE, undone |-> TRUE, file |-> FALSE, again |-> FALSE]

\* A header that cannot be read is passed over; so is the whole GPT when
\* sector 0 cannot be read.
Locate ==
  /\ at = "locate"
  /\ \E unread \in {u \in SUBSET {<<0, 0>>, <<1, 1>>, <<1, device_last_block(1)>>,
                                    <<2, 1>>, <<2, device_last_block(2)>>} :
                       Cardinality(u) <= io.faults} :
       LET c == IF <<0, 0>> \in unread THEN <<>> ELSE gpt_locate_header(unread)
       IN  /\ io' = [io EXCEPT !.blk = NoBlock, !.faults = @ - Cardinality(unread)]
           /\ IF c = <<>> THEN GoTo("table")
              ELSE /\ loc' = [loc EXCEPT !.gpt = TRUE, !.lb = c[1], !.lba = c[2]]
                   /\ at' = IF job.convert THEN "convert" ELSE "place"
                   /\ UNCHANGED queue
  /\ UNCHANGED <<job, undo, torn>>

Convert ==
  /\ at = "convert"
  /\ \E o \in device_read_raw(io, {header.array * loc.lb}) :
       /\ io' = [o EXCEPT !.ok = TRUE]
       /\ LET alts == Alternates(header, loc.lba, loc.lb) IN
          CASE ~o.ok -> GoTo("cleanup")
            [] o.ok /\ ~(job.disk.iso /\ Convertible(header, loc.lb)) -> GoTo("place")
            [] OTHER ->
                 IF \/ \E i \in DOMAIN Used(header) : Used(header)[i].start * loc.lb < LowLimit
                    \/ \E a \in alts : header.last >= a
                 THEN GoTo("cleanup")
                 ELSE Do(Conversion(header, loc.lba, loc.lb), "table", [loc EXCEPT !.gpt = FALSE])
  /\ UNCHANGED <<job, undo, torn>>

\* device_write(): the entry is counted once the whole write is in.
WriteNext ==
  /\ at = "write"
  /\ \E o \in device_write_raw(io, Head(queue), Len(undo), FALSE) :
       LET w == Head(queue)
           old == [c \in DOMAIN w |-> Seen(io)[c]]
       IN  /\ io' = [o EXCEPT !.ok = TRUE]
           /\ IF o.ok
              THEN /\ undo' = Append(undo, old)
                   /\ queue' = Tail(queue)
                   /\ at' = IF Tail(queue) = <<>> THEN loc.next ELSE "write"
                   /\ UNCHANGED torn
              ELSE /\ at' = "cleanup" /\ queue' = <<>> /\ UNCHANGED undo
                   /\ torn' = torn \cup {c \in DOMAIN w : o.dev[c] = w[c] /\ old[c] # w[c]}
  /\ UNCHANGED <<job, loc>>

\* validate_or_force(): the file system hints at a sector and two further on.
Hints(d, s) == {c \in CellsOf(s) \cup CellsOf(s + 2) : d[c] \in {"fs", "ext"}}
Unhint(d, s) == SetToSeq({c :> "orig" : c \in Hints(d, s)})

\* The checks on an MBR.  --force mends what it finds, in the order it finds it.
Table ==
  /\ at = "table"
  /\ \E o \in device_read_raw(io, {0, 2}) :
       LET d == [Seen(o) EXCEPT ![<<0, "table">>] = "orig"]
           t == Seen(o)[<<0, "table">>]
           sigOk == d[<<0, "sig">>] = "aa55"
           mend == (IF sigOk THEN <<>> ELSE << <<0, "sig">> :> "aa55" >>)
                     \o (IF t.flags THEN <<>> ELSE << <<0, "table">> :> [t EXCEPT !.flags = TRUE] >>)
           low == \E i \in DOMAIN t.parts : t.parts[i].type # "none" /\ t.parts[i].start < LowLimit
           activate == IF t.active THEN <<>>
                       ELSE << <<0, "table">> :> [t EXCEPT !.flags = TRUE, !.active = TRUE] >>
       IN  /\ io' = [o EXCEPT !.ok = TRUE]
           /\ CASE ~o.ok -> GoTo("cleanup")
                [] o.ok /\ force ->
                     IF low THEN Do(mend, "cleanup", loc)
                     ELSE Do(mend \o Unhint(d, 0) \o activate, "place", loc)
                [] OTHER ->
                     IF low \/ mend # <<>> \/ Hints(d, 0) # {} THEN GoTo("cleanup")
                     ELSE Do(activate, "place", loc)
  /\ UNCHANGED <<job, undo, torn>>

\* Where stage 2 goes.  On a GPT: the partition named, or the first BIOS boot
\* partition, provided it stays clear of both tables and of its neighbours.
Enumerated == 1..(IF Len(header.parts) < PartsMax THEN Len(header.parts) ELSE PartsMax)
IsBios(i) == header.parts[i].type = "bios"
Chosen ==
  IF job.index # 0
  THEN {i \in Enumerated : i = job.index /\ header.parts[i].type # "none" /\ (force \/ IsBios(i))}
  ELSE {i \in Enumerated : IsBios(i) /\ \A k \in 1..(i - 1) : ~IsBios(k)}

Clear(i) ==
  LET p == header.parts[i]
      reserve == Ceil(Array, loc.lb)
  IN  /\ p.start <= p.end
      /\ p.start >= 2 + reserve
      /\ p.start >= header.first /\ p.end <= header.last
      /\ (p.end - p.start + 1) * loc.lb >= MinRoom
      /\ p.end + 1 + reserve <= device_last_block(loc.lb)
      /\ \A k \in DOMAIN header.parts \ {i} :
           header.parts[k].type = "none" \/ p.end < header.parts[k].start \/ header.parts[k].end < p.start

Place ==
  /\ at = "place"
  /\ IF ~loc.gpt
     THEN /\ Do(<<>>, "boot", [loc EXCEPT !.s2 = Stage2At, !.room = LowLimit - Stage2At])
          /\ UNCHANGED io
     ELSE \E o \in device_read_raw(io, {header.array * loc.lb}) :
            /\ io' = [o EXCEPT !.ok = TRUE]
            /\ IF ~o.ok \/ \A i \in Chosen : ~Clear(i) THEN GoTo("cleanup")
               ELSE \E i \in Chosen :
                      LET p == InSectors(header.parts[i], loc.lb)
                          d == [Seen(o) EXCEPT ![<<0, "table">>] = "orig"]
                      IN  IF Hints(d, p.start) # {} /\ ~force THEN GoTo("cleanup")
                          ELSE Do(Unhint(d, p.start), "boot",
                                  [loc EXCEPT !.part = i, !.s2 = p.start, !.room = p.end - p.start + 1])
  /\ UNCHANGED <<job, undo, torn>>

\* The boot sector, stage 2, its location, and the two parts of sector 0 kept.
Boot ==
  /\ at = "boot"
  /\ \E o \in device_read_raw(io, {0}) :
       LET image == [c \in CellsOf(0) |-> CASE c[2] = "table" -> EmptyTable
                                            [] c[2] = "sig" -> "aa55"
                                            [] OTHER -> "image"]
           stage2 == [c \in {Sector(s) : s \in loc.s2..(loc.s2 + job.stage2 - 1)} |-> "stage2"]
       IN  /\ io' = [o EXCEPT !.ok = TRUE]
           /\ IF ~o.ok \/ job.stage2 > loc.room THEN GoTo("cleanup")
              ELSE Do(<<image, stage2, <<0, "loc">> :> "s2",
                        <<0, "stamp">> :> Seen(o)[<<0, "stamp">>],
                        <<0, "table">> :> Seen(o)[<<0, "table">>]>>, "flush", loc)
  /\ UNCHANGED <<job, undo, torn>>

FlushInstall ==
  /\ at = "flush"
  /\ \E o \in device_flush_cache(io) :
       /\ io' = [o EXCEPT !.ok = TRUE]
       /\ at' = IF o.ok THEN "store" ELSE "cleanup"
       /\ loc' = [loc EXCEPT !.ok = o.ok]
  /\ UNCHANGED <<job, undo, queue, torn>>

\* A cleanup that undoes the writes in the order they were made.
CleanupInOrder ==
  /\ at = "cleanup"
  /\ io' = [io EXCEPT !.blk = NoBlock, !.dirty = FALSE]
  /\ at' = "undo"
  /\ UNCHANGED <<job, undo, queue, loc, torn>>

\* reverse_uninstall_data(), then uninstall() or store_uninstall_data(), whose
\* result nobody looks at.
Cleanup ==
  /\ at = "cleanup"
  /\ undo' = Reverse(undo)
  /\ io' = [io EXCEPT !.blk = NoBlock, !.dirty = FALSE]
  /\ at' = "undo"
  /\ UNCHANGED <<job, queue, loc, torn>>

Store ==
  /\ at = "store"
  /\ undo' = Reverse(undo)
  /\ \E o \in {io} \cup Failed(io) :
       /\ io' = [o EXCEPT !.ok = TRUE]
       /\ loc' = [loc EXCEPT !.file = job.keep /\ o.ok]
  /\ at' = "closed"
  /\ UNCHANGED <<job, queue, torn>>

UndoNext ==
  /\ at = "undo" /\ undo # <<>>
  /\ \E r \in Restore(io, Head(undo)) : /\ io' = r.io
                                       /\ loc' = [loc EXCEPT !.undone = @ /\ r.ok]
  /\ undo' = Tail(undo)
  /\ UNCHANGED <<job, queue, at, torn>>

UndoEnd ==
  /\ at = "undo" /\ undo = <<>>
  /\ \E o \in device_flush_cache(io) : /\ io' = [o EXCEPT !.ok = TRUE]
                                     /\ loc' = [loc EXCEPT !.undone = @ /\ o.ok, !.file = FALSE]
  /\ at' = "closed"
  /\ UNCHANGED <<job, undo, queue, torn>>

\* A later bios-install --uninstall, from the file the install stored.
Uninstall ==
  /\ at = "closed" /\ loc.file
  /\ io' = [device_init(io.dev, io.faults) EXCEPT !.blk = NoBlock]
  /\ loc' = [loc EXCEPT !.ok = FALSE, !.again = TRUE]
  /\ at' = "undo"
  /\ UNCHANGED <<job, undo, queue, torn>>

HostNext == \/ Locate \/ Convert \/ WriteNext \/ Table \/ Place \/ Boot \/ FlushInstall
            \/ Cleanup \/ Store \/ UndoNext \/ UndoEnd \/ Uninstall

-----------------------------------------------------------------------------
\* The medium, the cache and the undo data hold what a device of this kind can.
HostTypeOK ==
  /\ DOMAIN io.dev = Cells
  /\ DOMAIN io.dev[<<0, "table">>] = DOMAIN EmptyTable
  /\ io.blk \in {NoBlock} \cup 0..(Sectors - 1)
  /\ io.dirty => io.blk # NoBlock /\ DOMAIN io.data = CellsOf(io.blk)
  /\ io.ok /\ io.faults \in 0..job.faults
  /\ Len(undo) <= UndoMax /\ \A i \in DOMAIN undo : DOMAIN undo[i] \subseteq Cells
  /\ at \in {"locate", "convert", "write", "table", "place", "boot", "flush",
             "cleanup", "undo", "store", "closed"}

\* The sectors of the partitions the device had, without the one stage 2 goes to.
Kept ==
  LET ps == IF loc.lba = 0 THEN job.disk.table.parts
            ELSE [i \in DOMAIN header.parts |-> InSectors(header.parts[i], loc.lb)]
  IN  UNION {ps[i].start..ps[i].end : i \in {k \in DOMAIN ps \ {loc.part} :
                                              ps[k].type \in {"data", "bios"}}}

\* No write of bios_install(), with --force or without, converting or not,
\* reaches a sector of a partition other than the one chosen for stage 2:
\* the limits on partition starts, the usable range, the reserves at both ends
\* and the overlap check (host/limine.c:1212-1347, 1624-1702) together see to it.
PartitionsUntouched ==
  \A s \in Kept \cap 1..(Sectors - 1) : Seen(io)[Sector(s)] = job.disk.dev[Sector(s)]

\* An install that failed, or was reversed later from its file, and whose
\* uninstall() reported no error, leaves the device byte for byte as it was -
\* except for what a write over two blocks that failed had already put on it:
\* device_write_raw() forgets the old bytes of that one (limine.c:520-527).
UndoRestores ==
  at = "closed" /\ ~loc.ok /\ loc.undone =>
    \A c \in Cells \ torn : Seen(io)[c] = job.disk.dev[c]

\* A successful install is on the device and not in the cache: stage 2 where the
\* boot sector says, the partition table and timestamp as they were before the
\* boot sector went over them, and on a GPT device both tables intact.
InstalledRight ==
  at = "closed" /\ loc.ok =>
    LET d == io.dev IN
    /\ ~io.dirty
    /\ d[<<0, "code">>] = "image" /\ d[<<0, "loc">>] = "s2" /\ d[<<0, "sig">>] = "aa55"
    /\ \A s \in loc.s2..(loc.s2 + job.stage2 - 1) : d[Sector(s)] = "stage2"
    /\ loc.gpt \/ loc.lba = 0 =>
         /\ d[<<0, "stamp">>] = job.disk.dev[<<0, "stamp">>]
         /\ d[<<0, "table">>].parts = job.disk.table.parts
    /\ loc.gpt => \A s \in DOMAIN job.disk.hdr : d[Sector(s)] = job.disk.dev[Sector(s)]
    /\ ~loc.gpt /\ loc.lba # 0 =>
         /\ d[<<0, "table">>].parts = [i \in DOMAIN Used(header) |-> InSectors(Used(header)[i], loc.lb)]
         /\ \A s \in DOMAIN job.disk.hdr : d[Sector(s)] \in {"zero", "stage2"}
=============================================================================
