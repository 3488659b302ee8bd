------------------------------ MODULE UriOpen ------------------------------
(***************************************************************************)
(* uri_open() of src/limine/common/lib/uri.c with the handles it stacks:   *)
(* the raw file, the blake2b filter (crypt/blake2b.c), the decoder         *)
(* (compress/gzip.c), fclose() and fread() (fs/file.s2.c), and the buffer  *)
(* the resource is drained into, which grows while a stream of unknown     *)
(* length is read.                                                         *)
(*                                                                         *)
(* Memory is bytes in pages.  Two reads of one place of the medium may     *)
(* differ, so byte i of the file is <<i, TRUE>>, or <<i, FALSE>> when the  *)
(* read went wrong.  A digest is the blocks that were compressed, in order.  *)
(* The decoder turns a byte b into <<b, 1>> and <<b, 2>>.                  *)
(***************************************************************************)
EXTENDS Integers, Sequences, FiniteSets, SequencesExt

CONSTANTS PageBytes,       \* 4096
          RamPages,        \* pages of memory
          HighPage,        \* the first page above 4 GiB
          FirstCap,        \* the capacity the buffer starts with
          DoubleBelow,     \* up to which it doubles
          BlockBytes,      \* BLAKE2B_BLOCK_BYTES
          Chunk,           \* bytes read, and bounced, at a time
          MaxFile,         \* the longest resource
          Foreign          \* sets of pages that are in use before the call

VARIABLES uri,     \* the call: where it is and what was asked
          owner,   \* page -> who holds it
          ram,     \* byte address -> content
          buf,     \* buf_addr, buf_cap, buf_len
          pos,     \* compressed bytes the decoder has consumed, pending output
          hashed,  \* the state of the blake2b filter
          handles  \* the handles and copies that are allocated

uriVars == <<uri, owner, ram, buf, pos, hashed, handles>>

Bytes == 0..(RamPages * PageBytes - 1)
Nothing == "nothing"
NoBuf == [addr |-> 0, cap |-> 0, len |-> 0]

\* blake2b_update() keeps the last block back, full or not, until more comes;
\* blake2b_final() compresses it with the final flag set, padded, the counter
\* telling the padding from data.
blake2b_init == [h |-> <<>>, t |-> 0, buf |-> <<>>]
Compressed(st, block, n, final) ==
  [st EXCEPT !.h = Append(@, <<block, st.t + n, final>>), !.t = @ + n]

RECURSIVE Blocks(_, _)
Blocks(st, in) ==
  IF Len(in) <= BlockBytes THEN [st EXCEPT !.buf = in]
  ELSE Blocks(Compressed(st, SubSeq(in, 1, BlockBytes), BlockBytes, FALSE), SubSeq(in, BlockBytes + 1, Len(in)))
blake2b_update(st, in) ==
  LET fill == BlockBytes - Len(st.buf)
  IN  IF Len(in) <= fill THEN [st EXCEPT !.buf = @ \o in]
      ELSE Blocks(Compressed(st, st.buf \o SubSeq(in, 1, fill), BlockBytes, FALSE), SubSeq(in, fill + 1, Len(in)))
blake2b_final(st) == Compressed(st, st.buf, Len(st.buf), TRUE).h
blake2b(s) == blake2b_final(blake2b_update(blake2b_init, s))

UriInit ==
  /\ uri \in [at : {"open"}, gz : BOOLEAN, hash : {"none", "right", "wrong"}, high : BOOLEAN,
              size : 1..MaxFile, vouched : {FALSE}, overridden : {FALSE}]
  /\ \E f \in Foreign : owner = [p \in 0..(RamPages - 1) |-> IF p \in f THEN "other" ELSE "free"]
  /\ ram = [b \in Bytes |-> <<Nothing>>]
  /\ buf = NoBuf /\ pos = <<0, <<>>>> /\ hashed = blake2b_init /\ handles = {}

-----------------------------------------------------------------------------
\* What a read of the file's bytes from..from+n-1 may give.
Reads(from, n) == {[i \in 1..n |-> <<from + i - 1, from + i - 1 # bad>>] : bad \in {-1} \cup from..(from + n - 1)}
Decode(b) == <<<<b, 1>>, <<b, 2>>>>
DecodeAll(s) == FlattenSeq([i \in DOMAIN s |-> Decode(s[i])])
FileBytes(n) == [i \in 1..n |-> <<i - 1, TRUE>>]
Vouched(digest) == uri.hash = "right" /\ digest = blake2b(FileBytes(uri.size))


\* The filter fed with s in one read, or in strides of the bounce pool.
RECURSIVE FedStrides(_, _)
FedStrides(st, s) == IF s = <<>> THEN st
                     ELSE LET k == IF Len(s) < Chunk THEN Len(s) ELSE Chunk
                          IN  FedStrides(blake2b_update(st, SubSeq(s, 1, k)), SubSeq(s, k + 1, Len(s)))
Fed(s, high) == IF high THEN FedStrides(hashed, s) ELSE blake2b_update(hashed, s)

PagesOf(addr, n) == (addr \div PageBytes)..((addr + n - 1) \div PageBytes)
PagesFor(n) == (n + PageBytes - 1) \div PageBytes

\* ext_mem_alloc_type_aligned_mode(): the topmost run of free pages below 4 GiB,
\* or, if the caller allows it, above; -1 (a panic) when there is none.
TopRun(own, n, top) == LET fit == {p \in 0..(top - n) : \A q \in p..(p + n - 1) : own[q] = "free"}
                       IN  IF fit = {} THEN -1 ELSE CHOOSE p \in fit : \A q \in fit : q <= p
AllocPage(own, n) == IF TopRun(own, n, HighPage) = -1 /\ uri.high THEN TopRun(own, n, RamPages)
                     ELSE TopRun(own, n, HighPage)
Own(own, pages, who) == [p \in DOMAIN own |-> IF p \in pages THEN who ELSE own[p]]

Put(m, addr, s) == [b \in Bytes |-> IF b \in addr..(addr + Len(s) - 1) THEN s[b - addr + 1] ELSE m[b]]
Take(m, addr, n) == [i \in 1..n |-> m[addr + i - 1]]

\* The strides copied last first, over a source the target overlaps.
CopyBackwards(m, dst, src, n, off) ==
  LET strides == [k \in 1..((n + Chunk - 1) \div Chunk) |-> Chunk * (k - 1)]
      put(o, a) == Put(a, dst + o, Take(a, src + o, IF n - o < Chunk THEN n - o ELSE Chunk))
  IN  FoldRight(put, strides, m)

\* A copy in strides of the bounce pool, first stride first.
RECURSIVE CopyStrides(_, _, _, _, _)
CopyStrides(m, dst, src, n, off) ==
  IF off >= n THEN m
  ELSE LET k == IF n - off < Chunk THEN n - off ELSE Chunk
       IN  CopyStrides(Put(m, dst + off, Take(m, src + off, k)), dst, src, n, off + Chunk)

Stop(why) == uri' = [uri EXCEPT !.at = why]

\* uri_hash_mismatch(): a panic, the menu, or the user insisting.
Mismatch(next) == \E how \in {"panic", "menu", "insist"} :
                    uri' = IF how = "insist" THEN [uri EXCEPT !.at = next, !.overridden = TRUE]
                           ELSE [uri EXCEPT !.at = how]

-----------------------------------------------------------------------------
\* uri_resolve() and the dispatch to a volume or server; Secure Boot insists on
\* a hash.
Resolve ==
  /\ uri.at = "open"
  /\ \/ Stop("absent") /\ UNCHANGED handles
     \/ uri.hash = "none" /\ Stop("panic") /\ UNCHANGED handles
     \/ /\ handles' = {"raw", "copy"} \cup (IF uri.hash # "none" /\ ~uri.gz THEN {"filter"} ELSE {})
        /\ Stop(IF uri.hash # "none" /\ uri.gz THEN "verify" ELSE "alloc")
  /\ UNCHANGED <<owner, ram, buf, pos, hashed>>

\* A compressed resource with a hash: it is read once, checked where it lies,
\* and decoded from that copy, which a memory file then owns.
Verify ==
  /\ uri.at = "verify"
  /\ LET n == PagesFor(uri.size)
         p == AllocPage(owner, n)
     IN  IF p = -1 THEN Stop("panic") /\ UNCHANGED <<owner, ram, handles>>
         ELSE \E s \in Reads(0, uri.size) :
                /\ owner' = Own(owner, p..(p + n - 1), "compressed")
                /\ ram' = Put(ram, p * PageBytes, s)
                /\ handles' = (handles \ {"raw"}) \cup {"carrier"}
                /\ IF Vouched(blake2b_final(Fed(s, p >= HighPage))) THEN uri' = [uri EXCEPT !.at = "alloc", !.vouched = TRUE] ELSE Mismatch("alloc")
  /\ UNCHANGED <<buf, pos, hashed>>

\* The buffer, and for a resource that is not compressed the whole of it.
AllocBuffer ==
  /\ uri.at = "alloc"
  /\ LET cap == IF uri.gz THEN FirstCap ELSE uri.size
         n == PagesFor(cap)
         p == AllocPage(owner, n)
     IN  IF p = -1 THEN Stop("panic") /\ UNCHANGED <<owner, ram, buf, hashed, handles>>
         ELSE /\ owner' = Own(owner, p..(p + n - 1), "buffer")
              /\ IF uri.gz
                 THEN /\ buf' = [addr |-> p * PageBytes, cap |-> cap, len |-> 0]
                      /\ handles' = handles \cup {"decoder"} /\ Stop("drain")
                      /\ UNCHANGED <<ram, hashed>>
                 ELSE \E s \in Reads(0, uri.size) :
                        /\ ram' = Put(ram, p * PageBytes, s)
                        /\ buf' = [addr |-> p * PageBytes, cap |-> cap, len |-> cap]
                        /\ hashed' = IF "filter" \in handles THEN Fed(s, p >= HighPage) ELSE hashed
                        /\ Stop("check") /\ UNCHANGED handles
  /\ UNCHANGED pos

\* A full buffer grows: downwards in place when the pages below are free, else
\* into a new one.
Grow ==
  /\ uri.at = "drain" /\ buf.len = buf.cap
  /\ LET cap == IF buf.cap < DoubleBelow THEN buf.cap * 2 ELSE buf.cap + DoubleBelow
         delta == cap - buf.cap
         base == buf.addr - delta
         inPlace == base >= 0 /\ \A p \in PagesOf(base, delta) : owner[p] = "free"
         p == AllocPage(owner, PagesFor(cap))
     IN  IF inPlace
         THEN /\ owner' = Own(owner, PagesOf(base, delta), "buffer")
              /\ ram' = CopyStrides(ram, base, buf.addr, buf.len, 0)
              /\ buf' = [buf EXCEPT !.addr = base, !.cap = cap]
              /\ UNCHANGED uri
         ELSE IF p = -1 THEN Stop("panic") /\ UNCHANGED <<owner, ram, buf>>
         ELSE /\ owner' = Own(Own(owner, PagesOf(buf.addr, buf.cap), "free"), p..(p + PagesFor(cap) - 1), "buffer")
              /\ ram' = CopyStrides(ram, p * PageBytes, buf.addr, buf.len, 0)
              /\ buf' = [buf EXCEPT !.addr = p * PageBytes, !.cap = cap]
              /\ UNCHANGED uri
  /\ UNCHANGED <<pos, hashed, handles>>

\* gzip_read() through gz_source_read(): up to `want' bytes, fewer only at the
\* end.  The decoder's source is the checked copy, or the medium.
Source(from) == IF "carrier" \in handles
                THEN LET c == CHOOSE p \in DOMAIN owner : owner[p] = "compressed" /\ \A q \in DOMAIN owner : owner[q] = "compressed" => p <= q
                     IN  {<<ram[c * PageBytes + from]>>}
                ELSE Reads(from, 1)

RECURSIVE Pull(_, _, _)
Pull(st, want, out) ==  \* st = <<compressed bytes taken, output not yet delivered>>
  IF Len(out) = want \/ (st[2] = <<>> /\ st[1] = uri.size) THEN {[st |-> st, out |-> out]}
  ELSE IF st[2] # <<>> THEN Pull(<<st[1], Tail(st[2])>>, want, Append(out, Head(st[2])))
  ELSE UNION {Pull(<<st[1] + 1, Decode(s[1])>>, want, out) : s \in Source(st[1])}

Drain ==
  /\ uri.at = "drain" /\ buf.len < buf.cap
  /\ LET room == buf.cap - buf.len
         want == IF room > Chunk THEN Chunk ELSE room
     IN  \E r \in Pull(pos, want, <<>>) :
           /\ ram' = Put(ram, buf.addr + buf.len, r.out) /\ pos' = r.st
           /\ buf' = [buf EXCEPT !.len = @ + Len(r.out)]
           /\ uri' = IF r.out = <<>> THEN [uri EXCEPT !.at = "trim"] ELSE uri
  /\ UNCHANGED <<owner, hashed, handles>>

\* The pages behind the data go back, except that one page stays.
Trim ==
  /\ uri.at = "trim"
  /\ LET kept == IF buf.len = 0 THEN PageBytes ELSE PagesFor(buf.len) * PageBytes
     IN  /\ owner' = IF kept < buf.cap THEN Own(owner, PagesOf(buf.addr + kept, buf.cap - kept), "free") ELSE owner
         /\ buf' = IF kept < buf.cap THEN [buf EXCEPT !.cap = kept] ELSE buf
  /\ Stop("check")
  /\ UNCHANGED <<ram, pos, hashed, handles>>

\* The filter's digest, then fclose() down the chain, then the memory file.
Finish ==
  /\ uri.at = "check"
  /\ IF "filter" \notin handles THEN Stop("done")
     ELSE IF Vouched(blake2b_final(hashed)) THEN uri' = [uri EXCEPT !.at = "done", !.vouched = TRUE]
     ELSE Mismatch("done")
  /\ IF uri'.at = "done"
     THEN /\ owner' = [p \in DOMAIN owner |-> IF owner[p] = "compressed" THEN "free" ELSE owner[p]]
          /\ handles' = (handles \ {"raw", "filter", "decoder", "carrier"}) \cup {"out"}
     ELSE UNCHANGED <<owner, handles>>
  /\ UNCHANGED <<ram, buf, pos, hashed>>

UriNext == Resolve \/ Verify \/ AllocBuffer \/ Grow \/ Drain \/ Trim \/ Finish

-----------------------------------------------------------------------------
UriTypeOK ==
  /\ uri.at \in {"open", "verify", "alloc", "drain", "trim", "check", "done", "absent", "panic", "menu"}
  /\ buf.len <= buf.cap /\ buf.addr + buf.cap <= RamPages * PageBytes

Handed == Take(ram, buf.addr, buf.len)

\* What uri_open() hands on with a hash, the user not insisting, is the file
\* the hash was made of (decoded), byte for byte, however the buffer moved and
\* whatever a second read of the medium would have given; a wrong hash never
\* gets that far (uri.c:373-451, 508-653).
HandsOnWhatWasHashed ==
  uri.at = "done" /\ uri.hash # "none" /\ ~uri.overridden =>
    /\ uri.hash = "right"
    /\ Handed = IF uri.gz THEN DecodeAll(FileBytes(uri.size)) ELSE FileBytes(uri.size)

\* Without a hash the length is still right and every byte is in its place.
HandsOnInOrder ==
  uri.at = "done" =>
    /\ buf.len = IF uri.gz THEN 2 * uri.size ELSE uri.size
    /\ \A i \in 1..buf.len : IF uri.gz THEN Handed[i][1][1] = (i - 1) \div 2 /\ Handed[i][2] = ((i - 1) % 2) + 1
                             ELSE Handed[i][1] = i - 1

\* The decoder never sees bytes of a hashed resource before they were checked.
DecodesOnlyVouched == uri.at \in {"drain", "trim"} /\ uri.hash # "none" => uri.vouched \/ uri.overridden

\* At the end only the data's own pages, its handle and its path are allocated;
\* nobody else's page changed hands, and the buffer's pages are always its own.
UriNothingLeaks ==
  /\ uri.at = "done" => /\ handles = {"out", "copy"}
                        /\ {p \in DOMAIN owner : owner[p] \in {"buffer", "compressed"}} = PagesOf(buf.addr, buf.cap)
                        /\ buf.cap < buf.len + PageBytes
  /\ buf.cap > 0 => \A p \in PagesOf(buf.addr, buf.cap) : owner[p] = "buffer"
  /\ {p \in DOMAIN owner : owner[p] = "other"} \in Foreign
=============================================================================
