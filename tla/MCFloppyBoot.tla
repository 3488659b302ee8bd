---------------------------- MODULE MCFloppyBoot ----------------------------
(* Getting a boot loader off a medium, eight components side by side: the  *)
(* variable `scene' says which of them a behaviour is about, and the other *)
(* components' variables are 0.                                            *)
(*                                                                         *)
(* The floppy: three data clusters with any chain through them, loops      *)
(* included; a root directory of two entries; the geometry of a 1.44 MB    *)
(* floppy and one that spreads the same sectors over many cylinders; and a *)
(* load segment of two sectors, so that a file of three wraps around.  The *)
(* media of the other components follow, the installer's first.            *)
EXTENDS FloppyBoot, TLC

CONSTANTS Sectors, Array, LowLimit, MinRoom, Stage2At, MaxSector, MaxArray, UndoMax, PartsMax, Jobs,
          Volumes, MaxReads, MaxCount,
          Machines, MaxArrayBlocks, MaxGptParts, MaxLogical,
          Frags, Shorts, Sums, MaxSeq, MaxEntries, Bpbs, Fat12Most, Fat16Most, FatClusters,
          ClusterLimit, MaxChain, BlockSize, Paths,
          SectorLen, MaxDescriptors, MaxExtents, Directories, IsoPaths, IsoOpens,
          PageBytes, RamPages, HighPage, FirstCap, DoubleBelow, BlockBytes, Chunk, MaxFile, Foreign,
          Mtu, MaxRemote

VARIABLES scene,
          job, io, undo, queue, at, loc, torn,
          vol, vcache, vread, vreads,
          mach, drive, part, walk, volumes, count,
          fat, scan, table, chain, got,
          iso, contexts, current, held, extents, isoGot,
          uri, owner, ram, buf, pos, hashed, handles,
          net, remote, netHeld

Host == INSTANCE BiosInstall
Reader == INSTANCE VolumeRead
Index == INSTANCE VolumeIndex
Fat == INSTANCE FatVolume WITH Clusters <- FatClusters
Iso == INSTANCE IsoVolume
Uri == INSTANCE UriOpen
Net == INSTANCE Tftp

\* Sizes are numbers, and none that is divided by is 0.
ASSUME Sized == Reader!VolumesAreSized /\ Net!NetSizes

(* Devices of sixteen sectors: partition tables with blocks of one sector  *)
(* and of two, with a good and a bad primary header, and imaged onto a     *)
(* larger device; master boot records with and without a file system's    *)
(* marks.  The tool is asked with and without --force, to convert, for a   *)
(* partition by number, with files that fit and that do not, and with up   *)
(* to two blocks that cannot be written.                                   *)
Sector(s) == <<s, "data">>
MCP(t, a, b) == [type |-> t, start |-> a, end |-> b]
MCHead(lba, alt, arr, first, last, parts, crc) ==
  [sig |-> TRUE, crc |-> crc, acrc |-> TRUE, lba |-> lba, alt |-> alt, array |-> arr,
   size |-> IF first = 3 THEN 1 ELSE 2, first |-> first, last |-> last, parts |-> parts]
MCProt == [parts |-> <<MCP("gpt", 1, 15)>>, active |-> FALSE, flags |-> TRUE]
MCDev(tab, odd) ==
  [c \in {<<0, f>> : f \in {"code", "stamp", "loc", "table", "sig"}} \cup {Sector(s) : s \in 1..15} |->
                   IF c = <<0, "table">> THEN tab
                   ELSE IF c \in DOMAIN odd THEN odd[c]
                   ELSE IF c = <<0, "sig">> THEN "aa55" ELSE "orig"]
MCDisk(tab, hdr, hyb, odd) == [table |-> tab, hdr |-> hdr, iso |-> hyb, dev |-> MCDev(tab, odd)]
None == <<>>
\* 512-byte blocks, both headers; the primary may be bad
MCGpt1(parts, good, hyb, odd) ==
  MCDisk(MCProt, (1 :> MCHead(1, 15, 2, 4, 12, parts, good)) @@ (15 :> MCHead(15, 1, 13, 4, 12, parts, TRUE)), hyb, odd)
\* blocks of two sectors
MCGpt2(parts, good, hyb) ==
  MCDisk(MCProt, (2 :> MCHead(1, 7, 2, 3, 5, parts, good)) @@ (14 :> MCHead(7, 1, 6, 3, 5, parts, TRUE)), hyb, None)
\* a table imaged onto a larger device
MCGptL(parts, good, last) ==
  MCDisk(MCProt, (1 :> MCHead(1, 11, 2, 4, last, parts, good)) @@ (11 :> MCHead(11, 1, 9, 4, last, parts, TRUE)), TRUE, None)
MCMbr(parts, active, flags, odd) ==
  MCDisk([parts |-> parts, active |-> active, flags |-> flags], None, FALSE, odd)
Hint0 == <<0, "code">> :> "fs"
Hint2 == Sector(2) :> "ext"
NoSig == <<0, "sig">> :> "zero"
D == MCP("data", 8, 9)
MCDisks ==
  {MCGpt1(ps, g, i, None) : ps \in {<<D>>, <<D, MCP("bios", 10, 11)>>, <<MCP("bios", 4, 7), D>>,
                                      <<MCP("bios", 4, 8), D>>, <<MCP("data", 5, 6), D>>, <<MCP("bios", 8, 12)>>,
                                      <<MCP("none", 0, 0), MCP("data", 7, 12)>>},
                            g \in BOOLEAN, i \in BOOLEAN}
  \cup {MCGpt1(<<D, MCP("bios", 10, 12)>>, TRUE, FALSE, Sector(10) :> "fs")}
  \cup {MCGpt2(ps, g, i) : ps \in {<<MCP("data", 4, 5)>>, <<MCP("bios", 3, 4), MCP("data", 5, 5)>>},
                              g \in BOOLEAN, i \in BOOLEAN}
  \cup {MCGptL(<<MCP("data", 7, 8)>>, g, l) : g \in BOOLEAN, l \in {8, 11, 12}}
  \cup {MCMbr(ps, a, f, o) : ps \in {<<>>, <<D>>, <<MCP("none", 0, 0), MCP("data", 5, 9)>>},
                                a \in BOOLEAN, f \in BOOLEAN,
                                o \in {None, Hint0, Hint2, NoSig}}
MCJob(d, f, c, i, n, k, x) ==
  [disk |-> d, force |-> f, convert |-> c, index |-> i, stage2 |-> n, keep |-> k, faults |-> x]
MCJobs ==
  {MCJob(d, f, TRUE, 0, 2, TRUE, 0) : d \in MCDisks, f \in BOOLEAN}
  \cup {MCJob(d, f, FALSE, i, n, FALSE, 0) : d \in MCDisks, f \in BOOLEAN, i \in {0, 1, 2}, n \in {2, 5}}
  \cup {MCJob(d, f, TRUE, 0, 2, TRUE, 1) : d \in MCDisks, f \in BOOLEAN}
  \cup {MCJob(MCGpt2(<<MCP("data", 4, 5)>>, TRUE, TRUE), TRUE, TRUE, 0, 2, TRUE, 2),
         MCJob(MCMbr(<<D>>, FALSE, FALSE, Hint2), TRUE, TRUE, 0, 2, TRUE, 2)}

(* A device of eight sectors read in blocks of one and of two, and volumes *)
(* of it that begin off a block and end before, at and past its end.       *)
MCVolumes == {[ratio |-> r, xfer |-> x, first |-> f, count |-> c, device |-> 8] :
                r \in {1,2}, x \in {1,2,3}, f \in {0,1,2}, c \in {-1, 3, 4, 5}}

(* Machines with up to four drives: logical partitions whose links go on,  *)
(* go back and go in a circle, partition tables with a bad header and a    *)
(* backwards entry, media without a table, a drive that cannot be read;    *)
(* with contents all alike and all different; under both firmwares.        *)
E(t, f, c) == [type |-> t, first |-> f, count |-> c]
N == E("none", 0, 0)
MCEbrs == {(0 :> <<E("data", 1, 1), E("ext", 2, 2), N, N>>) @@ (2 :> <<E("data", 1, 1), E("ext", s, 2), E("data", f, 1), N>>)
             @@ (4 :> <<N, E("ext", 2, 2), N, E("data", 1, 1)>>) : s \in {0, 2, 4}, f \in {1, 5}}
          \cup {0 :> <<N, N, N, N>>, 0 :> <<E("data", 9, 1), E("data", 1, 2), N, N>>}
MCDrive(prim, mbr, hdr, ebr, size, o, rem, content) ==
  [answers |-> TRUE, readable |-> TRUE, removable |-> rem, optical |-> o, ratio |-> 1, size |-> size,
   prim |-> prim, mbr |-> mbr, hdr |-> hdr, ebr |-> ebr, content |-> content]
Same == [i \in 0..20 |-> <<0, 0>>]
Own(x) == [i \in 0..20 |-> <<x, i>>]
MCLog(ebr, c) == MCDrive(<<E("data", 1, 2), E("ext", 4, 6), N, N>>, TRUE, <<>>, ebr, 12, FALSE, FALSE, c)
H == [sig |-> TRUE, crc |-> TRUE, acrc |-> TRUE, lba |-> 1, alt |-> 11, array |-> 2, size |-> 1, first |-> 3, last |-> 9,
      parts |-> <<E("none",0,0), [type |-> "data", start |-> 3, end |-> 4], [type |-> "data", start |-> 5, end |-> 4], [type |-> "data", start |-> 6, end |-> 9]>>]
HP == [H EXCEPT !.parts[1] = [type |-> "none", start |-> 0, end |-> 0]]
MCGptD(crc, c) == MCDrive(<<E("gpt", 1, 11), N, N, N>>, TRUE, (1 :> [HP EXCEPT !.crc = crc]) @@ (11 :> [HP EXCEPT !.lba = 11, !.alt = 1, !.array = 10]), <<>>, 12, FALSE, FALSE, c)
Flat(o, c) == MCDrive(<<N, N, N, N>>, FALSE, <<>>, <<>>, -1, o, o, c)
Dead == [Flat(FALSE, Same) EXCEPT !.readable = FALSE]
MCDriveSets == {<<MCLog(e, Same), MCGptD(TRUE, Same)>> : e \in MCEbrs}
   \cup {<<Dead, Flat(TRUE, Own(2)), MCLog(e, Own(3)), MCGptD(FALSE, Own(4))>> : e \in MCEbrs}
   \cup {<<MCGptD(TRUE, Same), MCGptD(FALSE, Same), MCGptD(FALSE, Same)>>, <<MCGptD(TRUE, Same), Flat(TRUE, Same), Flat(FALSE, Own(3))>>}
MCParts(x) == IF x.hdr # <<>> THEN {<<0, x.size>>, <<3, 2>>} ELSE IF x.mbr THEN {<<0, x.size>>, <<1, 2>>} ELSE {<<0, x.size>>}
MCHandles(ds) == UNION {{[drive |-> i, first |-> q[1], count |-> q[2], whole |-> q[1] = 0, path |-> p] :
                          q \in MCParts(ds[i]), p \in BOOLEAN} : i \in {k \in DOMAIN ds : ds[k].readable}}
MCMachines == {[fw |-> f, drives |-> ds, bda |-> b, boot |-> 3, handles |-> MCHandles(ds)] :
                f \in {"bios", "uefi"}, ds \in MCDriveSets, b \in {0, 1, 3}}

(* Every small BIOS parameter block, and a path of one name and of two.    *)
MCPaths == {<<[long |-> <<"a", "b">>, short |-> "S"]>>, <<[long |-> <<"a">>, short |-> "-"], [long |-> <<"b", "b">>, short |-> "-"]>>}
MCBpbs == [sig : BOOLEAN, fats : 0..2, reserved : 0..1, root : {0, 2}, total : {6, 9, 16}, fat16 : {0, 1, 2}, fat32 : {0, 1, 3}, spc : {1, 2}]

(* Directories of up to three sectors, with files in one piece and in      *)
(* several, names in one fragment and in two, and a directory among them.  *)
NM(c, f) == [sig |-> "NM", continue |-> c, frag |-> f]
Rec(len, name, area, multi, lba) == [len |-> len, name |-> name, area |-> area, multi |-> multi,
   dir |-> name = <<"d">>, extent |-> [lba |-> lba, size |-> lba]]
F(len, m, lba) == Rec(len, <<"f">>, <<>>, m, lba)
G(len, m, lba) == Rec(len, <<"x">>, <<[sig |-> "PX"], NM(TRUE, <<"f">>), NM(FALSE, <<"g">>)>>, m, lba)
SubDir == Rec(1, <<"d">>, <<>>, FALSE, 2)
Recs1 == {F(1, m, 1) : m \in BOOLEAN} \cup {G(1, TRUE, 2), SubDir}
Recs2 == {F(2, m, 2) : m \in BOOLEAN} \cup {G(2, FALSE, 1)}
SectorsOf == {<<a>> : a \in Recs1 \cup Recs2} \cup {<<a, b>> : a \in Recs1, b \in Recs2}
MCDirectories == {<<a, <<b>>>> : a \in SectorsOf, b \in {F(2, FALSE, 1), G(2, FALSE, 1)}}
                   \cup {<<<<F(1, TRUE, 1)>>, <<SubDir>>>>, <<<<SubDir, F(2, TRUE, 2)>>>>,
                         <<<<F(2, TRUE, 2)>>, <<F(1, TRUE, 1)>>, <<F(2, TRUE, 1)>>>>}
MCIsoPaths == {<<>>, <<<<"f">>>>, <<<<"f", "g">>>>, <<<<"d">>, <<"f">>>>}

(* Memory already taken nowhere, in the middle, at both ends, everywhere.  *)
MCForeign == {{}, {2}, {6, 1}, {1,4,6}, 1..7}

MCClusters == 2 .. 4
MCEndMarks == {4088, 4095}
MCGeometries == {<<18, 2>>, <<2, 1>>}

hostVars == <<job, io, undo, queue, at, loc, torn>>
vreadVars == <<vol, vcache, vread, vreads>>
indexVars == <<mach, drive, part, walk, volumes, count>>
fatVars == <<fat, scan, table, chain, got>>
isoVars == <<iso, contexts, current, held, extents, isoGot>>
uriVars == <<uri, owner, ram, buf, pos, hashed, handles>>
netVars == <<net, remote, netHeld>>
mediaVars == <<scene, vars, hostVars, vreadVars, indexVars, fatVars, isoVars, uriVars, netVars>>

NoFloppy == /\ disk = 0 /\ pc = "none" /\ geometry = 0 /\ request = 0 /\ di = 0 /\ buffer = 0
            /\ stage2_cluster = 0 /\ bx = 0 /\ image = 0 /\ failed = 0 /\ stage = 0 /\ si = 0
            /\ error_code = 0
NoHost == job = 0 /\ io = 0 /\ undo = 0 /\ queue = 0 /\ at = 0 /\ loc = 0 /\ torn = 0
NoReader == vol = 0 /\ vcache = 0 /\ vread = 0 /\ vreads = 0
NoIndex == mach = 0 /\ drive = 0 /\ part = 0 /\ walk = 0 /\ volumes = 0 /\ count = 0
NoFat == fat = 0 /\ scan = 0 /\ table = 0 /\ chain = 0 /\ got = 0
NoIso == iso = 0 /\ contexts = 0 /\ current = 0 /\ held = 0 /\ extents = 0 /\ isoGot = 0
NoUri == uri = 0 /\ owner = 0 /\ ram = 0 /\ buf = 0 /\ pos = 0 /\ hashed = 0 /\ handles = 0
NoNet == net = 0 /\ remote = 0 /\ netHeld = 0

MediaInit ==
  /\ scene \in {"floppy", "host", "reader", "index", "fat", "iso", "uri", "net"}
  /\ IF scene = "floppy" THEN Init ELSE NoFloppy
  /\ IF scene = "host" THEN Host!HostInit ELSE NoHost
  /\ IF scene = "reader" THEN Reader!VReadInit ELSE NoReader
  /\ IF scene = "index" THEN Index!IndexInit ELSE NoIndex
  /\ IF scene = "fat" THEN Fat!FatInit ELSE NoFat
  /\ IF scene = "iso" THEN Iso!IsoInit ELSE NoIso
  /\ IF scene = "uri" THEN Uri!UriInit ELSE NoUri
  /\ IF scene = "net" THEN Net!NetInit ELSE NoNet

FloppyNext == scene = "floppy" /\ Next
FloppyStep == scene = "floppy" /\ Step

MediaNext ==
  \/ /\ FloppyNext
     /\ UNCHANGED <<scene, hostVars, vreadVars, indexVars, fatVars, isoVars, uriVars, netVars>>
  \/ /\ scene = "host" /\ Host!HostNext
     /\ UNCHANGED <<scene, vars, vreadVars, indexVars, fatVars, isoVars, uriVars, netVars>>
  \/ /\ scene = "reader" /\ Reader!VReadNext
     /\ UNCHANGED <<scene, vars, hostVars, indexVars, fatVars, isoVars, uriVars, netVars>>
  \/ /\ scene = "index" /\ Index!IndexNext
     /\ UNCHANGED <<scene, vars, hostVars, vreadVars, fatVars, isoVars, uriVars, netVars>>
  \/ /\ scene = "fat" /\ Fat!FatNext
     /\ UNCHANGED <<scene, vars, hostVars, vreadVars, indexVars, isoVars, uriVars, netVars>>
  \/ /\ scene = "iso" /\ Iso!IsoNext
     /\ UNCHANGED <<scene, vars, hostVars, vreadVars, indexVars, fatVars, uriVars, netVars>>
  \/ /\ scene = "uri" /\ Uri!UriNext
     /\ UNCHANGED <<scene, vars, hostVars, vreadVars, indexVars, fatVars, isoVars, netVars>>
  \/ /\ scene = "net" /\ Net!NetNext
     /\ UNCHANGED <<scene, vars, hostVars, vreadVars, indexVars, fatVars, isoVars, uriVars>>

MediaSpec == MediaInit /\ [][MediaNext]_mediaVars /\ WF_vars(FloppyStep)

(* What stage 1 jumps to is STAGE2.BIN, whole and in order, unless the file *)
(* wraps around the load segment, and it gives up only after a failed      *)
(* third try, a failed reset or a directory without the file               *)
(* (StageTwoIsTheFile and GivesUpForItsReason of FloppyBoot).              *)
StageTwoRight ==
  scene = "floppy" => TypeOK /\ StageTwoIsTheFile /\ GivesUpForItsReason

(* The floppy loader never hangs by itself (BootEnds of FloppyBoot).       *)
FloppyBootEnds == scene = "floppy" => BootEnds

(* bios-install, with its options, faults and a later --uninstall, writes  *)
(* to no partition but the chosen one, leaves a device it reports undone   *)
(* as it was, and one it reports installed bootable, with the tables it    *)
(* had (PartitionsUntouched, UndoRestores and InstalledRight of            *)
(* BiosInstall).                                                           *)
InstallRight ==
  scene = "host" =>
    Host!HostTypeOK /\ Host!PartitionsUntouched /\ Host!UndoRestores /\ Host!InstalledRight

(* The loader's volumes are the medium's: volume_read() returns no stale   *)
(* or foreign byte (ReadsTheMedium of VolumeRead); the resumed walk of the *)
(* extended boot records agrees with a fresh one, volume coordinates name  *)
(* one volume, and a firmware handle is matched to its own volume or none  *)
(* (MemoIsFresh, CoordinatesName and HandlesRight of VolumeIndex).         *)
VolumesRight ==
  /\ scene = "reader" => Reader!VReadTypeOK /\ Reader!ReadsTheMedium /\ Reader!VReadInv
  /\ scene = "index" => Index!IndexTypeOK /\ Index!MemoIsFresh /\ Index!CoordinatesName /\ Index!HandlesRight


(* uri_open() hands on the bytes that were hashed, decodes none that were  *)
(* not checked, and keeps no page or handle but the result's (UriOpen).    *)
ResourcesRight ==
  scene = "uri" => /\ Uri!UriTypeOK /\ Uri!HandsOnWhatWasHashed /\ Uri!HandsOnInOrder
                   /\ Uri!DecodesOnlyVouched /\ Uri!UriNothingLeaks
=============================================================================
