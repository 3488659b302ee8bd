----------------------------- MODULE FatVolume -----------------------------
(***************************************************************************)
(* Opening and reading a file on a FAT volume (src/limine/common/fs/       *)
(* fat32.s2.c): fat32_init_context(), the scan of each directory on the    *)
(* path with its long-name sets, the cluster chain, and fat32_read().      *)
(*                                                                         *)
(* The medium supplies what is read when it is read: the boot parameter    *)
(* block, each next directory entry, the file allocation table.  A long    *)
(* name is a sequence of fragments, one per long-name entry; a short entry *)
(* is a name and its checksum.                                             *)
(***************************************************************************)
EXTENDS Integers, Sequences, FiniteSets

CONSTANTS Frags, Shorts, Sums,  \* name fragments, short names, checksums
          MaxSeq,               \* FAT32_LFN_MAX_ENTRIES
          MaxEntries,           \* entries in a directory
          Bpbs,                 \* boot parameter blocks
          Fat12Most, Fat16Most, \* the cluster counts that tell the types apart
          Clusters,             \* the highest cluster the table maps
          ClusterLimit,         \* cluster_limit: larger values end a chain
          MaxChain,             \* FAT32_MAX_CHAIN_LENGTH
          BlockSize,            \* bytes in a cluster
          Paths                 \* paths: components [long, short]

VARIABLES fat,      \* where fat32_open() is, and the path left
          scan,     \* the directory scan
          table,    \* the allocation table, once read
          chain,    \* cluster_chain of the open file
          got       \* the last fat32_read()

fatVars == <<fat, scan, table, chain, got>>

Min2(a, b) == IF a < b THEN a ELSE b
Blank == "blank"
End == [k |-> "end"]
Deleted == [k |-> "deleted"]   \* a long-name entry whose first byte is 0xE5
EntryKinds ==
  {End, Deleted, [k |-> "other"]}
    \cup [k : {"lfn"}, seq : 1..MaxSeq, first : BOOLEAN, sum : Sums, frag : Frags]
    \cup [k : {"short"}, name : Shorts, sum : Sums]
    \cup [k : {"label"}, sum : Sums]

\* prev and set are history: the entry just passed, and the last long-name ones.
NoScan == [cur |-> End, exp |-> 0, sum |-> CHOOSE s \in Sums : TRUE,
           buf |-> [i \in 1..MaxSeq |-> Blank], n |-> 0, found |-> End, by |-> "none",
           prev |-> End, set |-> <<>>]
NoTable == [map |-> <<>>]

NoContext == [type |-> 0]

FatInit == /\ fat \in [at : {"context"}, path : Paths, ctx : {NoContext}]
           /\ scan = NoScan /\ table = NoTable /\ chain = <<>>
           /\ got = [loc |-> 0, buf |-> <<>>, how |-> "none"]

\* fat32_init_context(): the type comes from the count of clusters, and the
\* place of the data from the type.  Sizes are in sectors.
fat32_init_context(b) ==
  LET perFat == IF b.fat16 # 0 THEN b.fat16 ELSE b.fat32
      meta == b.reserved + b.fats * perFat + b.root
      clusters == (b.total - meta) \div b.spc
      type == IF clusters < Fat12Most THEN 12 ELSE IF clusters < Fat16Most THEN 16 ELSE 32
      own == IF type = 32 THEN b.fat32 ELSE b.fat16
      root == b.reserved + b.fats * own
  IN  IF \/ ~b.sig \/ b.fats = 0 \/ b.reserved = 0 \/ meta >= b.total
         \/ own = 0 \/ (type # 32 /\ b.root = 0)
      THEN NoContext
      ELSE [type |-> type, fat |-> b.reserved, perFat |-> own, rootAt |-> root,
            data |-> IF type = 32 THEN root ELSE root + b.root,
            clusters |-> clusters, spc |-> b.spc, bpb |-> b]

FatContext ==
  /\ fat.at = "context"
  /\ \E b \in Bpbs :
       LET c == fat32_init_context(b)
       IN  fat' = [fat EXCEPT !.ctx = c, !.at = IF c = NoContext THEN "absent" ELSE "directory"]
  /\ UNCHANGED <<scan, table, chain, got>>

\* The clusters of a directory are read whole before its entries are looked at.
OpenDirectory ==
  /\ fat.at = "directory"
  /\ \/ /\ fat' = [fat EXCEPT !.at = "absent", !.ctx = NoContext] /\ UNCHANGED scan
     \/ /\ fat' = [fat EXCEPT !.at = "scan", !.ctx = NoContext]
        /\ \E e \in EntryKinds : scan' = [NoScan EXCEPT !.cur = e]
  /\ UNCHANGED <<table, chain, got>>

wanted == Head(fat.path)

\* A long-name entry marked first starts a set afresh; any other has to carry on
\* the set in hand.
Started(e) == IF e.first THEN [scan EXCEPT !.exp = e.seq, !.sum = e.sum,
                                           !.buf = [i \in 1..MaxSeq |-> Blank]] ELSE scan
\* A set carried on by its numbers alone.
FitsAnySum(e) == e.seq = Started(e).exp

Fits(e) == LET s == Started(e) IN e.seq = s.exp /\ e.sum = s.sum

\* The name in the buffer, its trailing blanks removed.
Spelt(buf) == LET n == CHOOSE i \in 0..MaxSeq : /\ \A k \in (i + 1)..MaxSeq : buf[k] = Blank
                                                /\ i = 0 \/ buf[i] # Blank
              IN  [i \in 1..n |-> buf[i]]

\* What looking at entry e makes of the scan, `next' being the entry behind it.
\* A complete set decides only if the next entry is the short one it was made for.
Look(e, next) ==
  LET s == Started(e)
      c == [s EXCEPT !.exp = @ - 1, !.buf[e.seq] = e.frag]
  IN  CASE e = Deleted -> [scan EXCEPT !.exp = 0]
        [] e.k = "lfn" ->
             IF ~Fits(e) THEN [s EXCEPT !.exp = 0]
             ELSE IF /\ e.seq = 1 /\ Spelt(c.buf) = wanted.long
                     /\ next.k \in {"short", "label"}
                  THEN IF next.sum = c.sum THEN [c EXCEPT !.found = next, !.by = "long"] ELSE c
             ELSE c
        [] e.k = "short" -> IF e.name = wanted.short THEN [scan EXCEPT !.found = e, !.by = "short"] ELSE scan
        [] OTHER -> scan

LastOf(seq, n) == SubSeq(seq, Len(seq) - Min2(n, Len(seq)) + 1, Len(seq))

ScanEntry ==
  /\ fat.at = "scan" /\ scan.cur # End /\ scan.found = End
  /\ \E next \in (IF scan.n + 1 < MaxEntries THEN EntryKinds ELSE {End}) :
       scan' = [Look(scan.cur, next) EXCEPT
                  !.cur = next, !.n = @ + 1, !.prev = scan.cur,
                  !.set = IF scan.cur.k \in {"lfn", "deleted"} THEN LastOf(Append(@, scan.cur), MaxSeq) ELSE @]
  /\ UNCHANGED <<fat, table, chain, got>>

\* The path walk of fat32_open(): a component in front of another is a directory.
Component ==
  /\ fat.at = "scan" /\ (scan.cur = End \/ scan.found # End)
  /\ \E dir \in BOOLEAN :
     fat' = IF scan.found = End \/ (~dir /\ Len(fat.path) > 1) THEN [fat EXCEPT !.at = "absent"]
            ELSE IF Len(fat.path) = 1 THEN [fat EXCEPT !.at = "chain"]
            ELSE [fat EXCEPT !.at = "directory", !.path = Tail(@)]
  /\ scan' = NoScan
  /\ UNCHANGED <<table, chain, got>>

-----------------------------------------------------------------------------
\* cache_cluster_chain(): from `start', at most `max' clusters, none beyond what
\* the volume holds; <<>> when there is no such chain.
EndsChain(c) == c < 2 \/ c > ClusterLimit

RECURSIVE Follow(_, _, _, _)
Follow(t, c, most, sofar) ==
  IF c > t.readable \/ c \notin DOMAIN t.map \/ Len(sofar) = most THEN <<>>
  ELSE IF EndsChain(t.map[c]) THEN Append(sofar, c)
  ELSE Follow(t, t.map[c], most, Append(sofar, c))

cache_cluster_chain(t, start) ==
  IF EndsChain(start) THEN <<>>
  ELSE Follow(t, start, Min2(Min2(ClusterLimit - 1, MaxChain), Clusters + 1), <<>>)

Tables == [map : [2..Clusters -> {0, ClusterLimit + 1} \cup 2..(Clusters + 1)],
           readable : {Clusters - 1, Clusters}, start : {0} \cup 2..Clusters, size : 0..(2 * BlockSize + 1)]

\* The end of fat32_open(): the chain has to hold the size the entry states.
OpenFile ==
  /\ fat.at = "chain"
  /\ table' \in Tables
  /\ LET c == cache_cluster_chain(table', table'.start)
     IN  IF table'.size > Len(c) * BlockSize
         THEN /\ fat' = [fat EXCEPT !.at = "absent"] /\ chain' = <<>>
         ELSE /\ fat' = [fat EXCEPT !.at = "open"] /\ chain' = c
  /\ UNCHANGED <<scan, got>>

\* read_cluster_chain(): the bytes, or failure: past the end of the chain, or where
\* the medium cannot be read.  fat32_read() panics at a failure.
Byte(p) == <<chain[(p \div BlockSize) + 1], p % BlockSize>>
FatRead ==
  /\ fat.at = "open"
  /\ \E loc \in 0..table.size, n \in 1..table.size, readable \in BOOLEAN :
       /\ loc + n <= table.size
       /\ LET past == (loc + n - 1) \div BlockSize >= Len(chain)
              how == IF ~readable THEN "unreadable" ELSE IF past THEN "past" ELSE "read"
          IN  /\ got' = [loc |-> loc, how |-> how,
                         buf |-> IF how = "read" THEN [i \in 1..n |-> Byte(loc + i - 1)] ELSE <<>>]
              /\ fat' = [fat EXCEPT !.at = IF how = "read" THEN "closed" ELSE "panic"]
  /\ UNCHANGED <<scan, table, chain>>

FatNext == FatContext \/ OpenDirectory \/ ScanEntry \/ Component \/ OpenFile \/ FatRead

-----------------------------------------------------------------------------
FatTypeOK ==
  /\ fat.at \in {"context", "directory", "scan", "chain", "open", "closed", "panic", "absent"}
  /\ scan.exp \in 0..MaxSeq /\ scan.n <= MaxEntries
  /\ \A i \in DOMAIN chain : chain[i] \in 2..Clusters

\* The last long-name entries are a complete set, numbered n down to 1, made for
\* entry e and spelling the name wanted.  Entries of other kinds may stand between
\* them: only a long-name entry ever ends a set (lfn_expected, fat32.s2.c:531-548).
Named(e) ==
  \E n \in 1..Len(scan.set) :
    LET set == LastOf(scan.set, n)
    IN  /\ \A i \in 1..n : /\ set[i].k = "lfn" /\ set[i].seq = n + 1 - i
                           /\ set[i].sum = e.sum /\ (set[i].first <=> i = 1)
        /\ wanted.long = [i \in 1..n |-> set[n + 1 - i].frag]

\* fat32_open_in() returns an entry by its long name exactly when the long-name
\* entries of a whole set spell that name, were made for that entry, and the last
\* of them stands right before it: no set with a deleted, foreign, missing or
\* misplaced part names a file, and none hides one that is further down
\* (fat32.s2.c:531-596).  A set with a short entry in the middle counts as whole.
LongNamesRight ==
  /\ scan.by = "long" => Named(scan.found)
  /\ fat.at = "scan" /\ scan.found = End /\ scan.cur.k = "short" /\ scan.prev.k = "lfn" => ~Named(scan.cur)

\* An open file has the chain its start leads to in the table: every link
\* followed, ended by an end mark, no cluster twice, none beyond the volume;
\* and a table that has such a chain is never refused for it.
IsChain(c, t) ==
  /\ c # <<>> /\ c[1] = t.start
  /\ \A i \in DOMAIN c : c[i] \in DOMAIN t.map /\ c[i] <= t.readable
  /\ \A i \in 1..(Len(c) - 1) : t.map[c[i]] = c[i + 1]
  /\ EndsChain(t.map[c[Len(c)]])
ChainsRight ==
  /\ chain # <<>> => IsChain(chain, table) /\ Cardinality({chain[i] : i \in DOMAIN chain}) = Len(chain)
  /\ fat.at = "absent" /\ table # NoTable =>
       \A n \in 1..(Clusters - 1) : \A c \in [1..n -> 2..Clusters] :
         IsChain(c, table) => table.size > n * BlockSize

\* A read inside the size the entry states never runs off the chain: the panic in
\* fat32_read() is left to media that cannot be read (fat32.s2.c:369-387, 772-778).
ReadsInsideChain == fat.at = "panic" => got.how = "unreadable"

\* The sectors by which the data of a FAT32 volume starts behind the table the
\* clusters were counted with: its boot block gives the table two sizes, counts with
\* the FAT12/16 one and lays out with the other (fat32.s2.c:168-177, 192, 206-218).
Overhang(c) ==
  IF c.type = 32 /\ c.bpb.fat16 \in 1..c.bpb.fat32 THEN c.bpb.fats * (c.bpb.fat32 - c.bpb.fat16) ELSE 0

\* The clusters an accepted boot block counts all lie on the volume it describes,
\* behind both copies of the table and a FAT12/16 root directory, but for as many
\* sectors at the end as a second size of the table moves them.
ContextFits ==
  fat.ctx # NoContext =>
    LET c == fat.ctx IN
    /\ c.data + c.clusters * c.spc <= c.bpb.total + Overhang(c)
    /\ c.data >= c.fat + c.bpb.fats * c.perFat
    /\ c.type # 32 => c.data >= c.rootAt + c.bpb.root
=============================================================================
