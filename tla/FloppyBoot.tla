----------------------------- MODULE FloppyBoot -----------------------------
(***************************************************************************)
(* The first stage of the floppy boot loader (.bootloader/stage1), which   *)
(* finds STAGE2.BIN in the root directory of a FAT12 floppy, follows its   *)
(* cluster chain through the packed table, loads it sector by sector and   *)
(* jumps to it; the second stage (.bootloader/stage2) up to its recovery   *)
(* screen; and readFile of tools/fat/fat.c, the repository's other reader  *)
(* of the same file system.                                                *)
(*                                                                         *)
(* The drive is the BIOS's: any read and any reset may fail, and a sector  *)
(* is asked for by cylinder, head and sector of the geometry the drive     *)
(* reported.  A sector's contents are its number on the disk.              *)
(***************************************************************************)
EXTENDS Integers, Sequences, FiniteSets

CONSTANTS Clusters,        \* the data clusters of the disk: 2 .. last
          EndMarks,        \* table entries that end a chain: 0xFF8 .. 0xFFF
          bdb_dir_entries_count, \* entries of the root directory: 224
          Geometries,      \* <<sectors per track, heads>> a drive may have
          SegmentSectors   \* sectors that bx can address: 65536 / 512 = 128

ASSUME FloppyAssumption ==
    /\ IsFiniteSet(Clusters) /\ Clusters = 2 .. Cardinality(Clusters) + 1
    /\ EndMarks \subseteq 4088 .. 4095
    /\ bdb_dir_entries_count \in Nat /\ SegmentSectors \in Nat \ {0}
    /\ Geometries \subseteq (1 .. 63) \X (1 .. 255)

VARIABLES
    disk,      \* [fat, dir, first, geometry]: the floppy in the drive
    pc,
    geometry,  \* bdb_sectors_per_track and bdb_heads, as stage 1 holds them
    request,   \* the call of disk_read in progress: its sector and return
    di,        \* tries left
    buffer,    \* what was last read into buffer
    stage2_cluster, bx,
    image,     \* the load segment: the disk sector in each of its sectors
    failed,    \* history: failed reads, and a failed call that is not retried
    stage,     \* which stage runs
    si,        \* stage 2: tries to open the A20 gate
    error_code \* stage 2: what its recovery screen shows, 0 before it

stage2Vars == <<stage, si, error_code>>
vars == <<disk, pc, geometry, request, di, buffer, stage2_cluster, bx, image,
          failed, stage2Vars>>

Nothing == -1
Errors == {"floppy_error", "stage2_not_found_error"}

-----------------------------------------------------------------------------
(* The table on the disk: two entries of twelve bits in three bytes.       *)
Pack(fat) ==
    LET E(c) == IF c \in Clusters THEN fat[c] ELSE 0
    IN [b \in 0 .. ((Cardinality(Clusters) + 2) * 3) \div 2 + 1 |->
          LET c == (b \div 3) * 2
          IN CASE b % 3 = 0 -> E(c) % 256
               [] b % 3 = 1 -> (E(c) \div 256) + 16 * (E(c + 1) % 16)
               [] b % 3 = 2 -> E(c + 1) \div 16]

(* The sixteen-bit word at a byte of the table in memory.                  *)
Word(fat, b) == Pack(fat)[b] + 256 * Pack(fat)[b + 1]

(* From .load_stage2_loop: the table entry of a cluster.                   *)
NextCluster(fat, cluster) ==
    LET ax == Word(fat, (cluster * 3) \div 2)
    IN IF (cluster * 3) % 2 = 0 THEN ax % 4096 ELSE ax \div 16

(* lba_to_chs: sector in the low six bits of cl, the upper two bits of the *)
(* cylinder above it.                                                      *)
lba_to_chs(lba, spt, heads) ==
    LET sector == (lba % spt) + 1
        cylinder == (lba \div spt) \div heads
    IN [ch |-> cylinder % 256, cl |-> sector + 64 * ((cylinder \div 256) % 4),
        dh |-> (lba \div spt) % heads]

(* lba_to_chs of stage 2 clears ax, the sector, to load a segment register *)
(* with it, and computes with what is left.                                *)
SectorComputedWith(lba) == IF stage = 1 THEN lba ELSE 0

(* The sector a drive of the given geometry finds there (BIOS, int 13h).   *)
BiosSector(chs, spt, heads) ==
    LET cylinder == chs.ch + 256 * (chs.cl \div 64)
    IN (cylinder * heads + chs.dh) * spt + (chs.cl % 64) - 1

(* The chain of the file, by the table itself: the k-th cluster, or        *)
(* Nothing behind the end.                                                 *)
ChainCluster(k) ==
    LET C[n \in 0 .. Cardinality(Clusters)] ==
          IF n = 0 THEN disk.first
          ELSE IF C[n - 1] = Nothing THEN Nothing
          ELSE IF disk.fat[C[n - 1]] \in Clusters THEN disk.fat[C[n - 1]]
          ELSE Nothing
    IN C[k]

Ends == ChainCluster(Cardinality(Clusters)) = Nothing
Length == Cardinality({k \in 0 .. Cardinality(Clusters) :
                         ChainCluster(k) # Nothing})

-----------------------------------------------------------------------------
Init ==
    /\ disk \in [fat: [Clusters -> Clusters \cup EndMarks],
                 dir: 1 .. bdb_dir_entries_count + 1, \* place of STAGE2.BIN;
                                   \* behind the last entry: not on the disk
                 first: Clusters, geometry: Geometries]
    /\ pc = "main"
    /\ geometry = <<18, 2>>
    /\ request = [lba |-> Nothing, return |-> "none"]
    /\ di = 0
    /\ buffer = "none"
    /\ stage2_cluster = 0
    /\ bx = 0
    /\ image = [k \in 0 .. SegmentSectors - 1 |-> Nothing]
    /\ failed = [reads |-> 0, final |-> FALSE]
    /\ stage = 1 /\ si = 0 /\ error_code = 0

(* disk_read up to its loop: three tries for the sector.                   *)
CallDiskRead(lba, return) ==
    /\ request' = [lba |-> lba, return |-> return]
    /\ di' = 3
    /\ failed' = [failed EXCEPT !.reads = 0]
    /\ pc' = "retry"

(* main: the geometry is the drive's, or the floppy is given up; then the  *)
(* root directory is read, from behind the reserved sector and both tables.*)
ReadParameters ==
    /\ pc = "main"
    /\ geometry' = disk.geometry
    /\ CallDiskRead(1 + 2 * 9, "search")
    /\ UNCHANGED <<disk, buffer, stage2_cluster, bx, image, stage2Vars>>

ParametersFail ==
    /\ pc = "main"
    /\ pc' = "floppy_error"
    /\ failed' = [failed EXCEPT !.final = TRUE]
    /\ UNCHANGED <<disk, geometry, request, di, buffer, stage2_cluster, bx,
                   image, stage2Vars>>

(* .retry of disk_read when the read succeeds.                             *)
ReadSucceeds ==
    /\ pc = "retry"
    /\ LET chs == lba_to_chs(SectorComputedWith(request.lba), geometry[1],
                             geometry[2])
           read == BiosSector(chs, disk.geometry[1], disk.geometry[2])
       IN CASE request.return \in {"search", "search_kernel"} ->
                 /\ buffer' = IF read = 19 THEN "root" ELSE "other"
                 /\ UNCHANGED image
            [] request.return = "load" ->
                 /\ buffer' = IF read = 1 THEN "fat" ELSE "other"
                 /\ UNCHANGED image
            [] request.return = "next" ->
                 /\ image' = [image EXCEPT ![bx] = read]
                 /\ UNCHANGED buffer
    /\ pc' = request.return
    /\ UNCHANGED <<disk, geometry, request, di, stage2_cluster, bx, failed,
                   stage2Vars>>

(* recovery: the screen with what failed, and the end.                     *)
Recovery(code) == pc' = "halt" /\ error_code' = code

(* floppy_error of the stage that runs.                                    *)
FloppyError ==
    IF stage = 1 THEN pc' = "floppy_error" /\ UNCHANGED error_code
    ELSE Recovery(2)

(* Mutant: the retry loop left as soon as one try is left.                  *)
ReadFailsEarly ==
    /\ pc = "retry"
    /\ di' = di - 1
    /\ failed' = [failed EXCEPT !.reads = @ + 1]
    /\ IF di' = 1 THEN FloppyError ELSE UNCHANGED <<pc, error_code>>
    /\ UNCHANGED <<disk, geometry, request, buffer, stage2_cluster, bx, image,
                   stage, si>>

(* A read that fails: the drive is reset and the read tried again, three   *)
(* times in all; a reset that fails gives up at once.                      *)
ReadFails ==
    /\ pc = "retry"
    /\ di' = di - 1
    /\ failed' = [failed EXCEPT !.reads = @ + 1]
    /\ IF di' = 0 THEN FloppyError ELSE UNCHANGED <<pc, error_code>>
    /\ UNCHANGED <<disk, geometry, request, buffer, stage2_cluster, bx, image,
                   stage, si>>

ResetFails ==
    /\ pc = "retry"
    /\ FloppyError
    /\ failed' = [reads |-> failed.reads + 1, final |-> TRUE]
    /\ UNCHANGED <<disk, geometry, request, di, buffer, stage2_cluster, bx,
                   image, stage, si>>

(* .search_stage2 and .found_stage2: the entries in order, eleven letters  *)
(* each; the first cluster is kept, for the table is read over the         *)
(* directory.                                                              *)
Search ==
    /\ pc = "search"
    /\ IF buffer = "root" /\ disk.dir <= bdb_dir_entries_count
       THEN stage2_cluster' = disk.first /\ CallDiskRead(1, "load")
       ELSE /\ pc' = "stage2_not_found_error"
            /\ UNCHANGED <<stage2_cluster, request, di, failed>>
    /\ UNCHANGED <<disk, geometry, buffer, bx, image, stage2Vars>>

(* Mutant: the first half of the loop, two unused clusters counted in.      *)
LoadShifted ==
    /\ pc = "load"
    /\ CallDiskRead(stage2_cluster + 33, "next")
    /\ UNCHANGED <<disk, geometry, buffer, stage2_cluster, bx, image, stage2Vars>>

(* .load_stage2_loop: the cluster's sector is read to es:bx.               *)
Load ==
    /\ pc = "load"
    /\ CallDiskRead(stage2_cluster + 31, "next")
    /\ UNCHANGED <<disk, geometry, buffer, stage2_cluster, bx, image, stage2Vars>>

(* Mutant: its second half with 0xFF8 taken for a cluster.                  *)
FollowPastEnd ==
    /\ pc = "next"
    /\ bx' = (bx + 1) % SegmentSectors
    /\ LET ax == NextCluster(disk.fat, stage2_cluster)
       IN IF ax > 4088 THEN pc' = "stage2" /\ UNCHANGED stage2_cluster
          ELSE pc' = "load" /\ stage2_cluster' = ax
    /\ UNCHANGED <<disk, geometry, request, di, buffer, image, failed,
                   stage2Vars>>

(* Mutant: its second half with the next cluster not stored.                *)
FollowNowhere ==
    /\ pc = "next"
    /\ bx' = (bx + 1) % SegmentSectors
    /\ pc' = IF NextCluster(disk.fat, stage2_cluster) >= 4088 THEN "stage2"
             ELSE "load"
    /\ UNCHANGED <<disk, geometry, request, di, buffer, stage2_cluster, image,
                   failed, stage2Vars>>

(* Its second half: bx moves a sector on, in sixteen bits, and the table   *)
(* gives the next cluster or the end of the chain.                         *)
Follow ==
    /\ pc = "next"
    /\ bx' = (bx + 1) % SegmentSectors
    /\ LET ax == NextCluster(disk.fat, stage2_cluster)
       IN IF ax >= 4088 THEN pc' = "stage2" /\ UNCHANGED stage2_cluster
          ELSE pc' = "load" /\ stage2_cluster' = ax
    /\ UNCHANGED <<disk, geometry, request, di, buffer, image, failed,
                   stage2Vars>>

(* wait_key_and_reboot: the next boot finds the same disk and a memory it  *)
(* does not rely on.                                                       *)
KeyPressed ==
    /\ pc \in Errors
    /\ pc' = "main"
    /\ geometry' = <<18, 2>>
    /\ bx' = 0
    /\ failed' = [reads |-> 0, final |-> FALSE]
    /\ UNCHANGED <<disk, request, di, buffer, stage2_cluster, image, stage2Vars>>

-----------------------------------------------------------------------------
(* Stage 2.  A file that did not fit its segment is not a program.         *)
Entry ==
    /\ pc = "stage2" /\ Length <= SegmentSectors
    /\ stage' = 2 /\ pc' = "enablea20"
    /\ UNCHANGED <<disk, geometry, request, di, buffer, stage2_cluster, bx,
                   image, failed, si, error_code>>

(* enablea20: the BIOS call fails, and is tried three times.               *)
A20Fails ==
    /\ pc = "enablea20"
    /\ si' = si + 1
    /\ IF si' = 3 THEN Recovery(1) ELSE UNCHANGED <<pc, error_code>>
    /\ UNCHANGED <<disk, geometry, request, di, buffer, stage2_cluster, bx,
                   image, failed, stage>>

(* enablea20, load_kernel and root_dir_after: the geometry from the drive, *)
(* the place of the directory from stage 1's parameter block.              *)
LoadKernel ==
    /\ pc = "enablea20"
    /\ si' = si + 1
    /\ \/ /\ CallDiskRead(1 + 2 * 9, "search_kernel")
          /\ UNCHANGED error_code
       \/ /\ Recovery(2)
          /\ failed' = [failed EXCEPT !.final = TRUE]
          /\ UNCHANGED <<request, di>>
    /\ UNCHANGED <<disk, geometry, buffer, stage2_cluster, bx, image, stage>>

(* .search_kernel: no entry is the kernel's, be it on the disk or not: the *)
(* sectors compared are not the directory's, and the name they are         *)
(* compared with has a space too many for an entry of eleven letters.      *)
SearchKernel ==
    /\ pc = "search_kernel"
    /\ Recovery(3)
    /\ UNCHANGED <<disk, geometry, request, di, buffer, stage2_cluster, bx,
                   image, failed, stage, si>>

Step ==
    \/ Entry \/ A20Fails \/ LoadKernel \/ SearchKernel
    \/ ReadParameters \/ ParametersFail
    \/ ReadSucceeds \/ ReadFails \/ ResetFails
    \/ Search \/ Load \/ Follow

Next == Step \/ KeyPressed

(* The processor keeps running; nobody need ever press a key.              *)
Spec == Init /\ [][Next]_vars /\ WF_vars(Step)

-----------------------------------------------------------------------------
(* readFile of fat.c: the sectors it reads, in order, for a file whose     *)
(* chain ends.                                                             *)
readFile(first, fat) ==
    LET g_RootDirectoryEnd == 1 + 9 * 2 + 14
        NextOf(c) == IF c % 2 = 0 THEN Word(fat, (c * 3) \div 2) % 4096
                    ELSE Word(fat, (c * 3) \div 2) \div 16
        R[c \in Clusters] ==
          LET n == NextOf(c)
              rest == IF n < 4088 THEN R[n] ELSE <<>>
          IN <<g_RootDirectoryEnd + (c - 2)>> \o rest
    IN R[first]

-----------------------------------------------------------------------------
(* The type invariant; in particular stage 1 never takes an end mark for a *)
(* cluster, and never has more than three tries.                           *)
TypeOK ==
    /\ pc \in {"main", "retry", "search", "load", "next", "stage2",
                "enablea20", "search_kernel", "halt"} \cup Errors
    /\ geometry \in Geometries \cup {<<18, 2>>}
    /\ request.lba \in Int
    /\ request.return \in {"none", "search", "load", "next", "search_kernel"}
    /\ di \in 0 .. 3
    /\ buffer \in {"none", "root", "fat", "other"}
    /\ stage2_cluster \in Clusters \cup {0}
    /\ bx \in 0 .. SegmentSectors - 1
    /\ stage \in 1 .. 2 /\ si \in 0 .. 3 /\ error_code \in 0 .. 3
    /\ DOMAIN image = 0 .. SegmentSectors - 1

(* When stage 1 jumps, the segment holds the file: its k-th sector at      *)
(* place k, read from the right place of a drive of any geometry, after    *)
(* any number of retried reads and of earlier attempts.  A file longer     *)
(* than the segment has wrapped around, each place holding the last of the *)
(* sectors that fell on it: bx is sixteen bits and nothing tests it.  The  *)
(* repository's other reader, readFile of fat.c, takes the same sectors    *)
(* from the packed table in the same order.                                *)
StageTwoIsTheFile ==
    pc = "stage2" =>
      /\ Ends
      /\ buffer = "fat"
      /\ \A k \in 0 .. SegmentSectors - 1 :
           LET Fell == {j \in 0 .. Length - 1 : j % SegmentSectors = k}
           IN \A j \in Fell :
                (\A l \in Fell : l <= j) => image[k] = 31 + ChainCluster(j)
      /\ readFile(disk.first, disk.fat) =
           [k \in 1 .. Length |-> 31 + ChainCluster(k - 1)]

(* Each stage reports an error only for its cause.  Stage 1: "stage2 not   *)
(* found" for a disk without the file, and a failed floppy after three     *)
(* failed reads of one sector, or a reset or parameter call that failed,   *)
(* so that a read that succeeds at the third try is never thrown away.     *)
(* Stage 2 the same for its disk screen, and its memory screen only after  *)
(* three calls for the A20 gate; its screen for a missing kernel comes     *)
(* when it has compared sectors that are not the directory's.              *)
GivesUpForItsReason ==
    /\ pc = "stage2_not_found_error" => disk.dir > bdb_dir_entries_count
    /\ pc = "floppy_error" \/ error_code = 2 => failed.final \/ failed.reads = 3
    /\ error_code = 1 => si = 3
    /\ error_code = 3 => buffer = "other"

(* For a file whose chain ends, the boot ends: in an error that is shown   *)
(* by stage 1 or by stage 2, whatever calls fail, or in a file too long    *)
(* for its segment.                                                        *)
BootEnds ==
    Ends => <>(\/ pc \in Errors
               \/ pc = "halt" /\ error_code # 0
               \/ pc = "stage2" /\ Length > SegmentSectors)
=============================================================================
