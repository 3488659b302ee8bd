----------------------------- MODULE VolumeRead -----------------------------
(***************************************************************************)
(* volume_read() of Limine (src/limine/common/lib/part.s2.c): every file   *)
(* system reads a disk or a partition through this one-block cache, filled *)
(* by disk_read_sectors().  Sizes and places are in units of 512 bytes;    *)
(* unit u of the device holds the value u, so a result says where each of  *)
(* its bytes came from.                                                    *)
(***************************************************************************)
EXTENDS Integers, Sequences, FiniteSets

CONSTANTS Volumes,        \* the volumes to read from
          MaxReads,       \* how many volume_read()s are made
          MaxCount        \* the longest of them

Junk == -1                \* what was in the buffer before any transfer
Unknown == -1             \* sect_count of a drive that reports none

VARIABLES vol,            \* the struct volume
          vcache,         \* its cache: status, block number, buffer
          vread,          \* the call in progress: place, count, what is copied
          vreads          \* calls so far

vreadVars == <<vol, vcache, vread, vreads>>

BlockUnits == vol.xfer * vol.ratio

VReadInit ==
  /\ vol \in Volumes
  /\ vcache = [ready |-> FALSE, block |-> 0, data |-> [i \in 0..(vol.xfer * vol.ratio - 1) |-> Junk]]
  /\ vread = [st |-> "idle", loc |-> 0, count |-> 0, buf |-> <<>>]
  /\ vreads = 0

\* The part of cache_block() that decides what to transfer, in device sectors:
\* nothing for a volume that does not start on one, or beyond the volume's end.
Transfer(block) ==
  LET first == vol.first \div vol.ratio
      sector == first + block * vol.xfer
      end == first + (vol.count + vol.ratio - 1) \div vol.ratio
      left == end - sector
  IN  IF vol.first % vol.ratio # 0 THEN [ok |-> FALSE]
      ELSE IF vol.count = Unknown THEN [ok |-> TRUE, at |-> sector, n |-> vol.xfer]
      ELSE IF left <= 0 THEN [ok |-> FALSE]
      ELSE [ok |-> TRUE, at |-> sector, n |-> IF vol.xfer > left THEN left ELSE vol.xfer]

\* disk_read_sectors(): the device either fills its part of the buffer or,
\* past its end or at a fault, fails.
disk_read_sectors(t) ==
  [i \in DOMAIN vcache.data |-> IF i < t.n * vol.ratio THEN t.at * vol.ratio + i ELSE vcache.data[i]]

VolumeReadCall ==
  /\ vread.st = "idle" /\ vreads < MaxReads
  /\ \E loc \in 0..vol.device, count \in 1..MaxCount :
       vread' = [st |-> IF vol.count # Unknown /\ (loc >= vol.count \/ count > vol.count - loc)
                        THEN "refused" ELSE "busy",
                 loc |-> loc, count |-> count, buf |-> <<>>]
  /\ vreads' = vreads + 1
  /\ UNCHANGED <<vol, vcache>>

\* One round of the loop: cache_block(), then the copy of a chunk.
Copied(data) ==
  LET offset == (vread.loc + Len(vread.buf)) % BlockUnits
      left == vread.count - Len(vread.buf)
      chunk == IF left > BlockUnits - offset THEN BlockUnits - offset ELSE left
      buf == vread.buf \o [i \in 1..chunk |-> data[offset + i - 1]]
  IN  [vread EXCEPT !.buf = buf, !.st = IF Len(buf) = vread.count THEN "read" ELSE "busy"]

\* A failed transfer that leaves the cache marked ready.
SpoiltReady == {vcache, [vcache EXCEPT !.data = [i \in DOMAIN @ |-> Junk]]}

\* A failed transfer may have overwritten the buffer; the cache is invalid.
Spoilt == {[vcache EXCEPT !.ready = FALSE],
           [vcache EXCEPT !.ready = FALSE, !.data = [i \in DOMAIN @ |-> Junk]]}

CacheBlock ==
  LET block == (vread.loc + Len(vread.buf)) \div BlockUnits
      t == Transfer(block)
  IN  /\ vread.st = "busy"
      /\ \/ /\ vcache.ready /\ vcache.block = block
            /\ vread' = Copied(vcache.data)
            /\ UNCHANGED vcache
         \/ /\ ~(vcache.ready /\ vcache.block = block)
            /\ t.ok /\ (t.at + t.n) * vol.ratio <= vol.device
            /\ vcache' = [ready |-> TRUE, block |-> block, data |-> disk_read_sectors(t)]
            /\ vread' = Copied(vcache'.data)
         \/ /\ ~(vcache.ready /\ vcache.block = block)
            /\ vcache' \in Spoilt
            /\ vread' = [vread EXCEPT !.st = "failed"]
      /\ UNCHANGED <<vol, vreads>>

VolumeReadReturn ==
  /\ vread.st \in {"read", "failed", "refused"}
  /\ vread' = [st |-> "idle", loc |-> 0, count |-> 0, buf |-> <<>>]
  /\ UNCHANGED <<vol, vcache, vreads>>

VReadNext == VolumeReadCall \/ CacheBlock \/ VolumeReadReturn

VReadSpec == VReadInit /\ [][VReadNext]_vreadVars

\* A volume that volume_read() reads from: it refuses one whose sectors or
\* blocks have no size.
Volume == [ratio : Nat \ {0}, xfer : Nat \ {0}, first : Nat, count : Nat \cup {Unknown}, device : Nat]
VolumesAreSized == Volumes \subseteq Volume

VReadTypeOK ==
  /\ vol \in Volumes /\ vreads \in 0..MaxReads
  /\ vread.st \in {"idle", "busy", "read", "failed", "refused"}
  /\ Len(vread.buf) <= vread.count
  /\ DOMAIN vcache.data = 0..(BlockUnits - 1)

\* What volume_read() hands out, over every sequence of reads with failures in
\* between, is the volume's own bytes: never what a failed or shortened
\* transfer left behind in the cache (the clamp and the status reset of
\* cache_block(), part.s2.c:19-69), and never bytes past the volume's end.
ReadsTheMedium ==
  /\ \A i \in DOMAIN vread.buf : vread.buf[i] = vol.first + vread.loc + i - 1
  /\ vread.st = "read" /\ vol.count # Unknown => vread.loc + vread.count <= vol.count

-----------------------------------------------------------------------------
(* The inductive invariant.  A block that is marked ready holds the medium  *)
(* as far as the volume goes; what is behind the volume's end in it may be  *)
(* anything, and a call in progress stays before that end.                  *)
VReadTypes ==
  /\ vol \in Volumes
  /\ vcache \in [ready : BOOLEAN, block : Nat, data : [0..(BlockUnits - 1) -> Int]]
  /\ vread \in [st : {"idle", "busy", "read", "failed", "refused"}, loc : Nat, count : Nat, buf : Seq(Int)]

CacheHoldsTheMedium ==
  vcache.ready =>
    \A i \in 0..(BlockUnits - 1) :
      vol.count = Unknown \/ vcache.block * BlockUnits + i < vol.count =>
        vcache.data[i] = vol.first + vcache.block * BlockUnits + i

CallInside ==
  /\ vread.st \in {"busy", "read"} /\ vol.count # Unknown => vread.loc + vread.count <= vol.count
  /\ vread.st = "busy" => Len(vread.buf) < vread.count

VReadInv == VReadTypes /\ CacheHoldsTheMedium /\ CallInside /\ ReadsTheMedium
=============================================================================
