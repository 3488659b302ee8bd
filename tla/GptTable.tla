------------------------------ MODULE GptTable ------------------------------
(***************************************************************************)
(* Finding a GUID partition table, as the host tool (host/limine.c) and    *)
(* the loader (common/lib/part.s2.c) both do.  A header is a record with   *)
(* the fields the checks read; `hdr' gives the header each 512-byte sector *)
(* holds.  A candidate is a pair <<block size in sectors, LBA>>.           *)
(***************************************************************************)
EXTENDS Integers, Sequences, SequencesExt

NoHeader == [sig |-> FALSE]
HeaderIn(hdr, c) == LET s == c[1] * c[2] IN IF s \in DOMAIN hdr THEN hdr[s] ELSE NoHeader

\* The entry array lies in front of the usable range, or between it and the header.
ArrayPlaced(h, lba) ==
  LET end == h.array + h.size
  IN  /\ h.first <= h.last
      /\ \/ h.array < h.first /\ end <= h.first
         \/ h.array >= h.first /\ h.array > h.last /\ end <= lba

\* gpt_verify_header(): what it charges to the budget, and whether it accepts.
\* `blocks' is the size of the device in blocks, 0 when it is not known.
gpt_verify_header(h, lba, blocks, most, budget) ==
  LET sane == /\ h.sig
              /\ h.lba = lba /\ h.crc
              /\ h.size # 0 /\ h.size <= most /\ h.size <= budget
              /\ ArrayPlaced(h, lba)
              /\ blocks # 0 => h.array + h.size <= blocks
  IN  [left |-> IF sane THEN budget - h.size ELSE budget, ok |-> sane /\ h.acrc]

\* The first of the candidates that verifies, with the array budget they share.
FirstValid(hdr, cands, unread, blocks(_), most) ==
  LET try(acc, c) ==
        LET h == HeaderIn(hdr, c)
            v == gpt_verify_header(h, c[2], blocks(c[1]), most, acc.left)
        IN  IF acc.at # <<>> \/ c \in unread \/ ~h.sig THEN acc
            ELSE [left |-> v.left, at |-> IF v.ok THEN c ELSE <<>>]
  IN  FoldLeft(try, [left |-> 2 * most, at |-> <<>>], cands).at

\* The places to look at for one block size: LBA 1, then the last block, then
\* the block a primary that did not verify names.
CandidatesFor(hdr, lb, last, primaryRead, altOk(_)) ==
  LET p == IF primaryRead THEN HeaderIn(hdr, <<lb, 1>>) ELSE NoHeader
  IN  <<<<lb, 1>>>> \o (IF last >= 1 THEN <<<<lb, last>>>> ELSE <<>>)
        \o (IF ~p.sig THEN <<>>
            ELSE IF p.alt > 1 /\ p.alt # last /\ altOk(p.alt) THEN <<<<lb, p.alt>>>> ELSE <<>>)
=============================================================================
