---------------------------- MODULE VolumeIndex ----------------------------
(***************************************************************************)
(* How Limine builds its list of volumes (src/limine/common/drivers/       *)
(* disk.s2.c, lib/part.s2.c): disk_create_index() takes the drives the     *)
(* firmware reports, asks part_get() for partition 0, 1, 2, ... of each    *)
(* until the table ends, and under UEFI matches the firmware's handles to  *)
(* the volumes.  part_get() tries a GPT, then an MBR, whose logical        *)
(* partitions hang on a chain of extended boot records; the walk of that   *)
(* chain is resumed from a memo.  Places and sizes are in 512-byte sectors.*)
(* What a drive is, is a record; its readable content does not change.     *)
(***************************************************************************)
EXTENDS GptTable, FiniteSets

CONSTANTS Machines,       \* the firmware, its drives, and what is on them
          MaxArrayBlocks, \* GPT_MAX_ARRAY_SIZE, in blocks
          MaxGptParts,    \* MAX_GPT_PARTITIONS
          MaxLogical      \* MAX_LOGICAL_PARTITIONS

NoSize == -1              \* sect_count of a drive that reports none

VARIABLES mach,           \* the machine
          drive,          \* the drive being indexed (0: before the first)
          part,           \* the partition asked for next; -1 between drives
          walk,           \* volume->ebr_part with its ebr_walk_* memo
          volumes,        \* volume_index
          count           \* optical_indices, hdd_indices, consumed_bda_disks

indexVars == <<mach, drive, part, walk, volumes, count>>

NoWalk == [ext |-> 0]
d == mach.drives[drive]

-----------------------------------------------------------------------------
\* Partitions.

partition_range_valid(size, first, n) == n # 0 /\ (size = NoSize \/ first + n <= size)

\* gpt_locate_header(): LBA 1, the last block and the block the primary names,
\* for each block size; live only under a protective MBR entry.
loader_gpt_locate_header ==
  LET blocks(lb) == IF d.size = NoSize THEN 0 ELSE d.size \div lb
      any(a) == TRUE
      cands(lb) == CandidatesFor(d.hdr, lb, blocks(lb) - 1, TRUE, any)
  IN  IF \A i \in 1..4 : d.prim[i].type # "gpt" THEN <<>>
      ELSE FirstValid(d.hdr, cands(1) \o cands(2), {}, blocks, MaxArrayBlocks)

Answer(r) == [ret |-> r]
Found(n, first, c) == [ret |-> "found", number |-> n, first |-> first, count |-> c]

gpt_get_part(i) ==
  LET at == loader_gpt_locate_header
      h == HeaderIn(d.hdr, at)
      n == IF Len(h.parts) > MaxGptParts THEN MaxGptParts ELSE Len(h.parts)
      e == h.parts[i + 1]
      first == e.start * at[1]
      c == (e.end - e.start + 1) * at[1]
  IN  IF at = <<>> THEN Answer("invalid")
      ELSE IF i >= n THEN Answer("end")
      ELSE IF e.type = "none" \/ e.end < e.start \/ ~partition_range_valid(d.size, first, c)
           THEN Answer("none")
      ELSE Found(i + 1, first, c)

\* mbr_read_entry(): MBR places count the drive's sectors, except on optical media.
mbr_read_entry(e) == LET mult == IF d.optical THEN 1 ELSE d.ratio
                     IN  [e EXCEPT !.first = @ * mult, !.count = @ * mult]
Prim(i) == mbr_read_entry(d.prim[i])
Slot(sector, i) == mbr_read_entry(d.ebr[sector][i])

\* is_valid_mbr(): the signature, the four status bytes, no file system at 0.
is_valid_mbr == d.mbr

\* One EBR: the data entries it counts, in order, and its link.  The first two
\* slots count wherever they lie; the others only inside both extents.
Contained(x, sector, e) == /\ partition_range_valid(x.count, sector + e.first, e.count)
                           /\ partition_range_valid(d.size, x.first + sector + e.first, e.count)
Counted(x, sector, size) ==
  LET slot(i) == Slot(sector, i)
      ok(i) == /\ slot(i).type # "ext" /\ slot(i).count # 0
               /\ i > 2 => Contained(x, sector, slot(i)) /\ slot(i).first + slot(i).count <= size
  IN  SelectSeq(<<1, 2, 3, 4>>, ok)
Link(sector) ==
  LET ls == {i \in 1..4 : d.ebr[sector][i].type = "ext" /\ d.ebr[sector][i].count # 0}
  IN  IF ls = {} THEN [first |-> 0, count |-> 0]
      ELSE Slot(sector, CHOOSE i \in ls : \A k \in ls : i <= k)

\* mbr_get_logical_part(): from the memo m = [ext, index, sector, size] on, the
\* memo always naming the last EBR looked at and the logicals counted before it.
RECURSIVE Walk(_, _, _)
Walk(m, wanted, links) ==
  LET x == Prim(m.ext)
      here == Counted(x, m.sector, m.size)
      e == Slot(m.sector, here[wanted - m.index + 1])
      next == Link(m.sector)
  IN  IF m.sector \notin DOMAIN d.ebr \/ links = 0 THEN [memo |-> m, ans |-> Answer("end")]
      ELSE IF wanted < m.index + Len(here)
      THEN [memo |-> m,
            ans |-> IF Contained(x, m.sector, e)
                    THEN Found(wanted + 5, x.first + m.sector + e.first, e.count)
                    ELSE Answer("none")]
      ELSE IF next.first <= m.sector \/ next.first >= x.count
      THEN [memo |-> m, ans |-> Answer("end")]
      ELSE Walk([m EXCEPT !.index = @ + Len(here), !.sector = next.first, !.size = next.count],
                wanted, links - 1)

Head0(i) == [ext |-> i, index |-> 0, sector |-> 0, size |-> Prim(i).count]
mbr_get_logical_part(m, wanted) ==
  IF wanted >= MaxLogical THEN [memo |-> m, ans |-> Answer("end")]
  ELSE Walk(IF m.index <= wanted THEN m ELSE Head0(m.ext), wanted, MaxLogical)

\* mbr_get_part(): primaries by slot, the rest from the first extended entry.
mbr_get_part(i) ==
  LET exts == {k \in 1..4 : d.prim[k].type = "ext" /\ d.prim[k].count # 0
                            /\ partition_range_valid(d.size, Prim(k).first, Prim(k).count)}
      e == Prim(i + 1)
      keep(a) == [memo |-> walk, ans |-> a]
  IN  IF ~is_valid_mbr THEN keep(Answer("invalid"))
      ELSE IF i > 3
      THEN IF walk # NoWalk THEN mbr_get_logical_part(walk, i - 4)
           ELSE IF exts = {} THEN keep(Answer("end"))
           ELSE mbr_get_logical_part(Head0(CHOOSE k \in exts : \A j \in exts : k <= j), i - 4)
      ELSE IF e.type = "none" \/ ~partition_range_valid(d.size, e.first, e.count)
      THEN keep(Answer("none"))
      ELSE keep(Found(i + 1, e.first, e.count))

part_get(i) ==
  LET g == gpt_get_part(i) IN IF g.ret # "invalid" THEN [memo |-> walk, ans |-> g] ELSE mbr_get_part(i)

-----------------------------------------------------------------------------
\* disk_create_index().

IndexInit ==
  /\ mach \in Machines
  /\ drive = 0 /\ part = -1 /\ walk = NoWalk /\ volumes = <<>>
  /\ count = [optical |-> 1, hdd |-> 1, bda |-> 0]

\* The fixed drives the BIOS counts, and the boot drive whether counted or not;
\* under UEFI every whole disk that passes the read test.
Fixed(n) == ~n.removable /\ ~n.optical
Usable(i) ==
  LET n == mach.drives[i]
  IN  /\ n.answers /\ n.readable
      /\ mach.fw = "bios" /\ Fixed(n) => count.bda < mach.bda \/ i = mach.boot

Volume(n, a) == [drive |-> n, optical |-> mach.drives[n].optical,
                 index |-> IF mach.drives[n].optical THEN count.optical ELSE count.hdd,
                 partition |-> a.number, first |-> a.first, count |-> a.count]

NextDrive ==
  /\ part = -1 /\ drive < Len(mach.drives)
  /\ drive' = drive + 1
  /\ walk' = NoWalk
  /\ IF Usable(drive + 1)
     THEN LET n == mach.drives[drive + 1] IN
          /\ volumes' = Append(volumes, Volume(drive + 1, Found(0, 0, n.size)))
          /\ part' = 0
          /\ UNCHANGED count
     ELSE UNCHANGED <<volumes, part, count>>
  /\ UNCHANGED mach

NextPart ==
  /\ part >= 0
  /\ LET r == part_get(part) IN
     /\ walk' = r.memo
     /\ volumes' = IF r.ans.ret = "found" THEN Append(volumes, Volume(drive, r.ans)) ELSE volumes
     /\ IF r.ans.ret \in {"end", "invalid"}
        THEN /\ part' = -1
             /\ count' = [optical |-> count.optical + (IF d.optical THEN 1 ELSE 0),
                          hdd |-> count.hdd + (IF d.optical THEN 0 ELSE 1),
                          bda |-> count.bda + (IF Fixed(d) THEN 1 ELSE 0)]
        ELSE part' = part + 1 /\ UNCHANGED count
  /\ UNCHANGED <<mach, drive>>

IndexNext == NextDrive \/ NextPart
Indexed == part = -1 /\ drive = Len(mach.drives)

\* volume_get_by_coord(): the first volume with the coordinates, if any.
volume_get_by_coord(optical, index, partition) ==
  SelectSeq(volumes, LAMBDA v : <<v.optical, v.index, v.partition>> = <<optical, index, partition>>)

\* find_unique_sectors(): the first block of every volume is hashed; a hash seen
\* before takes the mark off both volumes.
Content(v) == mach.drives[v.drive].content[v.first]
\* A search that leaves the first of two like blocks marked.
FirstOfLikeSectors ==
  LET blocks == {i \in 1..Len(volumes) : volumes[i].first \in DOMAIN mach.drives[volumes[i].drive].content}
  IN  {i \in blocks : \A k \in blocks : k < i =>
         mach.drives[volumes[k].drive].content[volumes[k].first] # mach.drives[volumes[i].drive].content[volumes[i].first]}

find_unique_sectors ==
  LET step(acc, i) ==
        LET same == {k \in acc.hashed : Content(volumes[k]) = Content(volumes[i])}
            hit == CHOOSE k \in same : \A j \in same : k <= j
        IN  IF volumes[i].first \notin DOMAIN mach.drives[volumes[i].drive].content THEN acc
            ELSE [hashed |-> acc.hashed \cup {i},
                  valid |-> IF same = {} THEN acc.valid \cup {i} ELSE acc.valid \ {hit}]
  IN  FoldLeft(step, [hashed |-> {}, valid |-> {}], [i \in 1..Len(volumes) |-> i]).valid

\* The volumes a handle's device path leads to: the same disk, then the place
\* its partition node gives, or no such node and the disk itself.
volume_by_device_path(h) ==
  {i \in 1..Len(volumes) : /\ h.path /\ volumes[i].drive = h.drive
                           /\ volumes[i].first = h.first
                           /\ h.whole => volumes[i].partition = 0}

\* The marked volume whose first block is the handle's, if it has one.
volume_by_unique_sector(h) ==
  {i \in find_unique_sectors : /\ h.first \in DOMAIN mach.drives[h.drive].content
                               /\ Content(volumes[i]) = mach.drives[h.drive].content[h.first]}

\* By device path, else by unique first block, the size and the partition flag
\* agreeing.
disk_volume_from_efi_handle(h) ==
  LET byPath == volume_by_device_path(h)
      byHash == {i \in volume_by_unique_sector(h) :
                   volumes[i].count = h.count /\ h.whole = (volumes[i].partition = 0)}
      found == IF byPath # {} THEN byPath ELSE byHash
  IN  IF found = {} THEN 0 ELSE CHOOSE i \in found : \A k \in found : i <= k

-----------------------------------------------------------------------------
IndexTypeOK ==
  /\ mach \in Machines /\ drive \in 0..Len(mach.drives)
  /\ part >= -1 /\ part <= MaxGptParts + MaxLogical + 4
  /\ count.optical + count.hdd <= 2 + Len(mach.drives)
  /\ \A i \in DOMAIN volumes : volumes[i].drive \in 1..drive

\* Resuming the walk of the extended boot records from the memo gives the
\* answer a walk from the head would give: the memo pairs an EBR with the
\* logical partitions counted before it (part.s2.c:730-743).
MemoIsFresh ==
  part >= 4 /\ walk # NoWalk =>
    mbr_get_logical_part(walk, part - 4).ans = mbr_get_logical_part(Head0(walk.ext), part - 4).ans

\* A volume has coordinates of its own, whatever drives were skipped before it
\* (disk.s2.c:277-290), so hdd(1:2) in a path can mean one volume only.
CoordinatesName ==
  \A i, k \in DOMAIN volumes :
    volume_get_by_coord(volumes[i].optical, volumes[i].index, volumes[i].partition) = <<volumes[i]>>

\* A firmware handle is attached to the volume it stands for or to none; a
\* first block shared by several volumes, two or more, decides for none of
\* them (disk.s2.c:617-721).
HandlesRight ==
  Indexed /\ mach.fw = "uefi" =>
    \A h \in mach.handles :
      LET i == disk_volume_from_efi_handle(h)
      IN  i # 0 => volumes[i].drive = h.drive /\ volumes[i].first = h.first
=============================================================================
