----------------------------- MODULE HeaderPass -----------------------------
(***************************************************************************)
(* The header pass: a node that writes block records into its blk files,   *)
(* and the reader that walks those files (blkfile.rs), reconstructs the    *)
(* chain with the most work from the headers it found (chain.rs), and asks *)
(* the node which blocks are stale (node.rs).  The node keeps running      *)
(* between any two steps of the reader.                                    *)
(*                                                                         *)
(* Bytes are scaled to cells.  The magic word, the length word and the     *)
(* header take one cell each, so that a record is                          *)
(*     <<magic, len, header, body...>>   with len = 1 + Len(body);         *)
(* the header cell is the block's name and stands for its 80 bytes: the    *)
(* hash, the previous hash and the bits are functions of it.  The XOR key  *)
(* repeats every Len(key) cells, as the 8-byte key does.                   *)
(***************************************************************************)
EXTENDS Integers, Sequences, FiniteSets, FiniteSetsExt, SequencesExt

CONSTANTS
    Block,        \* the blocks of this run, positive numbers (header cells)
    Parent,       \* prev_hash of each block; NoHash for the genesis block
    Bits,         \* the compact target of each block: [exponent, mantissa]
    Body,         \* the cells of each block that follow its header
    Setups,       \* the nodes to consider: [xor, padded, invalid]
    KnownMagics,  \* is_known_network_magic
    Magic,        \* the magic this node writes
    XorCell(_, _), \* the exclusive or of two cells
    FileCap,      \* a blk file is not extended past this many cells
    MaxRecords    \* bound: records written in one behaviour

VARIABLES
    node,     \* a member of Setups: its xor.dat, whether it preallocates, the blocks it rejects
    raw,      \* the blk files, as the cells on disk
    records,  \* the records the node began, in order: [block, file, offset]
    pending,  \* cells of the last record that are not on disk yet
    active,   \* the tip of the node's active chain
    stage,    \* where build_chain_index and run_parse are
    nfiles,   \* the files discover_blk_files found
    scanned,  \* how many of them have been scanned
    headers,  \* the header map: first-seen location of every hash
    chain,    \* the main chain, height 0 first
    orphans,  \* the result of orphan_block_hashes
    seen,     \* the blocks on disk throughout the scan; {} if the node wrote during it
    view      \* the node's tree when it answered getchaintips

nodeVars   == <<node, raw, records, pending, active>>
readerVars == <<stage, nfiles, scanned, headers, chain, orphans, seen, view>>
hpVars     == <<nodeVars, readerVars>>

NoHash  == -1
Unknown == -2
NoView  == [known |-> {}, stored |-> {}, active |-> NoHash]

-----------------------------------------------------------------------------
(* Block headers. *)

\* The magic words of the known networks, after decoding.
is_known_network_magic(w) == w \in KnownMagics

\* BlockHeader::parse: what a header cell says of its parent and its target.
\* Cells that were never written read as zero, or as the key where the file is
\* obfuscated: a header nobody's child, or the child of a hash nobody has.
prev_hash(h) == IF h \in Block THEN Parent[h] ELSE IF h = 0 THEN NoHash ELSE Unknown
bits(h)      == IF h \in Block THEN Bits[h] ELSE [exponent |-> 0, mantissa |-> 0]

\* work_from_bits, with 2^256 scaled to 2^8 and 256^(e-3) to 2^(e-3).
work_from_bits(b) ==
    IF b.mantissa = 0 \/ b.exponent < 3
    THEN 0
    ELSE 256 \div (b.mantissa * 2^(b.exponent - 3))

\* A block and all below it, and their work as the node adds it up (external).
Ancestors[b \in Block] ==
    IF Parent[b] = NoHash THEN {b} ELSE {b} \cup Ancestors[Parent[b]]
TotalWork[b \in Block] ==
    work_from_bits(Bits[b]) + IF Parent[b] = NoHash THEN 0 ELSE TotalWork[Parent[b]]

\* The blocks are finitely many and form trees.
ASSUME BlockAssumption ==
    /\ IsFiniteSet(Block) /\ Block \subseteq Nat \ {0}
    /\ Parent \in [Block -> Block \cup {NoHash}]
    /\ \E height \in [Block -> 0..Cardinality(Block)] :
         \A b \in Block : Parent[b] # NoHash => height[Parent[b]] < height[b]
    /\ \A b \in Block : work_from_bits(Bits[b]) \in Nat
    /\ Body \in [Block -> Seq(Nat)]

\* The cells of the records.
Cells == {Magic} \cup Block \cup {1 + Len(Body[b]) : b \in Block} \cup UNION {ToSet(Body[b]) : b \in Block}

\* Exclusive or is undone by itself, and what reads from a cell that was never written,
\* zero or the key, is neither a magic nor a header anybody mined.
ASSUME CellAssumption ==
    /\ Magic \in KnownMagics /\ KnownMagics \subseteq Nat \ {0}
    /\ \A c \in Cells : XorCell(c, 0) = c
    /\ \A s \in Setups :
         /\ s.xor \in Seq(Nat)
         /\ \A k \in ToSet(s.xor) :
              /\ \A c \in Cells : XorCell(c, k) \in Nat /\ XorCell(XorCell(c, k), k) = c
              /\ XorCell(0, k) \in Nat \ (KnownMagics \cup Block)

ASSUME BoundAssumption == FileCap \in Nat /\ MaxRecords \in Nat

\* The values of a loop variable: x at first, then after each round of the body F.
Iterate(F, x, n) ==
    LET it[i \in 0..n] == IF i = 0 THEN x ELSE F[it[i - 1]] IN it

-----------------------------------------------------------------------------
(* The node (external): it writes records, preallocates, and picks its tip. *)

Obfuscate(cell, off) ==
    IF node.xor = <<>> THEN cell ELSE XorCell(cell, node.xor[(off % Len(node.xor)) + 1])

RecordCells(b) == <<Magic, 1 + Len(Body[b]), b>> \o Body[b]
Zeros(n)       == [i \in 1..n |-> 0]

RecordEnd(r)   == r.offset + Len(RecordCells(r.block))

Complete == IF pending = <<>> THEN ToSet(records) ELSE ToSet(Front(records))
Stored   == {r.block : r \in Complete}
Connected(S) == {b \in S : Ancestors[b] \subseteq S}

\* Begin the record of b: in the current file if it fits, else in the next one,
\* after cutting the preallocated tail of the current one.
BeginRecord(b) ==
    /\ pending = <<>>
    /\ Len(records) < MaxRecords
    /\ records = <<>> => Parent[b] = NoHash
    /\ LET f    == Len(raw)
           end  == RecordEnd(Last(records))
           fits == f > 0 /\ end + Len(RecordCells(b)) <= FileCap
           cut  == [g \in DOMAIN raw |-> IF g = f THEN SubSeq(raw[g], 1, end) ELSE raw[g]]
           new  == IF node.padded THEN Zeros(FileCap) ELSE <<>>
       IN /\ raw' = IF fits THEN raw ELSE Append(cut, new)
          /\ records' = Append(records, [block  |-> b,
                                         file   |-> IF fits THEN f ELSE f + 1,
                                         offset |-> IF fits THEN end ELSE 0])
    /\ pending' = RecordCells(b)
    /\ seen' = IF stage = "scan" THEN {} ELSE seen
    /\ UNCHANGED <<node, active, stage, nfiles, scanned, headers, chain, orphans, view>>

\* One more cell of the record reaches the file; the last one lets the node
\* connect the block, and move to a valid chain with more work.
WriteCell ==
    /\ pending # <<>>
    /\ LET r   == Last(records)
           off == RecordEnd(r) - Len(pending)
           c   == Obfuscate(Head(pending), off)
           f   == raw[r.file]
           S   == Connected(Stored \cup {r.block})
           ok  == {b \in S : Ancestors[b] \cap node.invalid = {}}
           better == {b \in ok : active = NoHash \/ TotalWork[b] > TotalWork[active]}
       IN /\ raw' = [raw EXCEPT ![r.file] = IF off < Len(f) THEN [f EXCEPT ![off + 1] = c]
                                                            ELSE Append(f, c)]
          /\ active' \in IF Len(pending) > 1 \/ better = {} THEN {active}
                         ELSE {b \in better : \A o \in better : TotalWork[o] <= TotalWork[b]}
    /\ pending' = Tail(pending)
    /\ seen' = IF stage = "scan" THEN {} ELSE seen
    /\ UNCHANGED <<node, records, stage, nfiles, scanned, headers, chain, orphans, view>>

-----------------------------------------------------------------------------
(* blkfile.rs *)

\* read_xor_key: a file of the wrong length or of zeros is no key.
read_xor_key(x) == IF \A i \in DOMAIN x : x[i] = 0 THEN <<>> ELSE x

\* One cell of a file, decoded with the key cell of its offset.
word(file, off, key) ==
    IF key = <<>> THEN file[off + 1] ELSE XorCell(file[off + 1], key[(off % Len(key)) + 1])

\* xor_decode over the cells below data_end.
xor_decode(file, key, end) == [i \in 1..end |-> word(file, i - 1, key)]

\* One round of the record walk: past a whole record, or no further.
walk_round(file, key) ==
    [p \in 0..Len(file) |->
        IF /\ p + 3 <= Len(file)
           /\ is_known_network_magic(word(file, p, key))
           /\ word(file, p + 1, key) \in 1..(Len(file) - p - 2)
        THEN p + 2 + word(file, p + 1, key)
        ELSE p]

\* As many rounds as there can be records, of three cells at least.
Rounds(file) == Len(file) \div 3

\* Where the walk ends.  In a file that is not preallocated this is the end of the
\* last complete record; in one that is, a record in progress counts as soon as
\* its magic and its length are there.
WalkEnd(file, key) == Iterate(walk_round(file, key), 0, Rounds(file))[Rounds(file)]

\* record_walk_end: a file that starts with anything but padding and has no
\* record is handed over whole, so that the iterator reports what is wrong.
record_walk_end(file, key) ==
    LET end == WalkEnd(file, key)
    IN IF end = 0 /\ file # <<>> /\ file[1] # 0 THEN Len(file) ELSE end

\* BlkFile::open and data: the decoded cells up to the end of the last record.
open(file) == LET key == read_xor_key(node.xor)
              IN xor_decode(file, key, record_walk_end(file, key))

\* What the iterator yields of a record: its place, with the prefix, and the header.
BlkRecord(pos, len, header) == [offset |-> pos, len |-> 2 + len, header |-> header]

\* The first cell from p on that is not zero.
skip_zeros(data, p) == Min({i \in p..Len(data) : i < Len(data) => data[i + 1] # 0})

\* Magic and length at p are those of a record within the data.
RecordAt(data, p) ==
    /\ p + 2 <= Len(data)
    /\ is_known_network_magic(data[p + 1])
    /\ data[p + 2] \in 1..(Len(data) - p - 2)

\* BlkRecordIter::next, from the start of one record to that of the next.
iter_next(data) ==
    [p \in 0..Len(data) |-> IF RecordAt(data, p) THEN skip_zeros(data, p + 2 + data[p + 2]) ELSE p]

\* The iterator until it yields None or an error: the records found, and
\* whether the end was reached without an error.
records_of(data) ==
    LET at  == Iterate(iter_next(data), skip_zeros(data, 0), Rounds(data))
        pos == {at[i] : i \in 0..Rounds(data)}
    IN [ok   |-> at[Rounds(data)] + 2 > Len(data),
        recs |-> {BlkRecord(p, data[p + 2], data[p + 3]) : p \in {q \in pos : RecordAt(data, q)}}]

\* Mutant: a payload end computed from the record length, prefix included.
block_bytes_with_prefix(data, loc) ==
    IF loc.offset + 2 + loc.len > Len(data) THEN <<>>
    ELSE SubSeq(data, loc.offset + 3, loc.offset + 2 + loc.len)

\* BlkFile::block_bytes: the payload at a location, <<>> for the overrun error.
block_bytes(data, loc) ==
    IF loc.offset + loc.len > Len(data) THEN <<>>
    ELSE SubSeq(data, loc.offset + 3, loc.offset + loc.len)

-----------------------------------------------------------------------------
(* chain.rs *)

\* A block's place among the files.
BlockLocation(f, rec) == [file |-> f, offset |-> rec.offset, len |-> rec.len]

\* build_chain_index, first step: the files there are now.  None is NoFiles.
Discover ==
    /\ stage = "start"
    /\ nfiles' = Len(raw)
    /\ stage' = IF raw = <<>> THEN "failed" ELSE "scan"
    /\ seen' = IF pending = <<>> THEN Stored ELSE {}
    /\ UNCHANGED <<nodeVars, scanned, headers, chain, orphans, view>>

\* headers.entry(hash).or_insert for the records of one file, in file order.
FirstSeen(map, f, recs) ==
    [h \in DOMAIN map \cup {r.header : r \in recs} |->
        IF h \in DOMAIN map THEN map[h]
        ELSE BlockLocation(f, CHOOSE r \in recs : /\ r.header = h
                                                 /\ \A q \in recs : q.header = h => r.offset <= q.offset)]

\* The next file is opened and its records enter the header map; a corrupt
\* record ends the pass.
ScanFile ==
    /\ stage = "scan" /\ scanned < nfiles
    /\ LET found == records_of(open(raw[scanned + 1]))
       IN /\ headers' = FirstSeen(headers, scanned + 1, found.recs)
          /\ stage' = IF found.ok THEN stage ELSE "failed"
    /\ scanned' = scanned + 1
    /\ UNCHANGED <<nodeVars, nfiles, chain, orphans, seen, view>>

\* Mutant: cumulative work that counts a parent it has not seen as zero.
cum_work_unanchored ==
    LET cum[h \in DOMAIN headers] ==
          LET p == prev_hash(h)
              w == work_from_bits(bits(h))
          IN IF p = NoHash \/ p \notin DOMAIN headers THEN w ELSE cum[p] + w
    IN cum

\* cum_work after the genesis candidates and resolve_cum: the work of a header
\* and of all below it, for those whose parents lead to an all-zero prev_hash.
\* cum_work[h] is -1 for a header that has none.
cum_work ==
    LET cum[h \in DOMAIN headers] ==
          LET p == prev_hash(h)
              w == work_from_bits(bits(h))
          IN IF p = NoHash THEN w
             ELSE IF p \notin DOMAIN headers \/ cum[p] = -1 THEN -1
             ELSE cum[p] + w
    IN cum

\* The tips the search over cum_work may end with: equal work is decided by the
\* iteration order of a hash map.
best_tips ==
    LET cum == cum_work
        h0  == {h \in DOMAIN cum : cum[h] >= 0}
    IN {h \in h0 : \A o \in h0 : cum[o] <= cum[h]}

\* The walk back from a tip, reversed.
walk_back ==
    LET back[h \in DOMAIN headers] ==
          IF prev_hash(h) \in DOMAIN headers THEN Append(back[prev_hash(h)], h) ELSE <<h>>
    IN back

\* Tip, walk back, heights; no header with cumulative work is NoRecords.
BuildChain ==
    /\ stage = "scan" /\ scanned = nfiles
    /\ \/ /\ best_tips = {}
          /\ stage' = "failed"
          /\ UNCHANGED chain
       \/ \E tip \in best_tips :
            /\ chain' = walk_back[tip]
            /\ stage' = "built"
    /\ UNCHANGED <<nodeVars, nfiles, scanned, headers, orphans, seen, view>>

-----------------------------------------------------------------------------
(* node.rs, and its use by run_parse *)

ActiveAncestors(t) == IF t = NoHash THEN {} ELSE Ancestors[t]

\* getchaintips (external): the leaves of the header tree and the active tip.
\* marked are the rejected blocks the node already tried to connect.
chain_tips(known, marked) ==
    LET leaves == {b \in known : \A c \in known : Parent[c] # b} \cup ({active} \ {NoHash})
        status(t) == IF t \in ActiveAncestors(active) THEN "active"
                     ELSE IF Ancestors[t] \cap marked # {} THEN "invalid"
                     ELSE IF ~(Ancestors[t] \subseteq Stored) THEN "headers-only"
                     ELSE "valid-fork"
    IN {[hash |-> t, status |-> status(t),
         branch_len |-> Cardinality(Ancestors[t] \ ActiveAncestors(active))] : t \in leaves}

\* The first n headers from h downwards (getblockheader's previous hash).
branch(h, n) ==
    LET previous == [b \in Block \cup {NoHash} |-> IF b = NoHash THEN NoHash ELSE Parent[b]]
        cur      == Iterate(previous, h, n)
    IN {cur[i] : i \in 0..(n - 1)} \ {NoHash}

\* Mutant: one header too many on every stale branch.
orphan_block_hashes_over(tips) ==
    UNION {branch(t.hash, t.branch_len + 1) :
             t \in {u \in tips : u.status \notin {"active", "headers-only"}}}

\* orphan_block_hashes: the branches of every tip that is neither active nor
\* headers-only.
orphan_block_hashes(tips) ==
    UNION {branch(t.hash, t.branch_len) :
             t \in {u \in tips : u.status \notin {"active", "headers-only"}}}

\* The stale blocks are fetched after the chain was built, from the node as it
\* is by then; the tree it knows holds at least what it stored.
FetchOrphans ==
    /\ stage = "built"
    /\ \E known \in SUBSET Block, marked \in SUBSET (node.invalid \cap Connected(Stored)) :
         /\ \A b \in known \cup {r.block : r \in ToSet(records)} : Ancestors[b] \subseteq known
         /\ orphans' = orphan_block_hashes(chain_tips(known, marked))
         /\ view' = [known |-> known, stored |-> Stored, active |-> active]
    /\ stage' = "ready"
    /\ UNCHANGED <<nodeVars, nfiles, scanned, headers, chain, seen>>

\* No --rpc-url, --skip-disk-check, or an RPC error: parsing goes on unfiltered.
FetchFails ==
    /\ stage = "built"
    /\ stage' = "unfiltered"
    /\ UNCHANGED <<nodeVars, nfiles, scanned, headers, chain, orphans, seen, view>>

-----------------------------------------------------------------------------
HPInit ==
    /\ node \in Setups
    /\ raw = <<>> /\ records = <<>> /\ pending = <<>> /\ active = NoHash
    /\ stage = "start" /\ nfiles = 0 /\ scanned = 0 /\ headers = <<>>
    /\ chain = <<>> /\ orphans = {} /\ seen = {} /\ view = NoView

HPNode   == (\E b \in Block : BeginRecord(b)) \/ WriteCell
HPReader == Discover \/ ScanFile \/ BuildChain \/ FetchOrphans \/ FetchFails
HPNext   == HPNode \/ HPReader
HPSpec   == HPInit /\ [][HPNext]_hpVars

-----------------------------------------------------------------------------
Built == stage \in {"built", "ready", "unfiltered"}

(* ChainBest: when the node wrote nothing while the files were scanned, the  *)
(* pass succeeds and the chain is the whole path from the genesis block to a *)
(* block with the most work of all that connect to it, in whatever order, in *)
(* whichever files and how often the records were written, padded,           *)
(* obfuscated or ending in zeros.                                            *)
ChainBest ==
    seen # {} =>
        /\ stage # "failed"
        /\ Built => \E tip \in Connected(seen) :
             /\ \A b \in Connected(seen) : TotalWork[b] <= TotalWork[tip]
             /\ ToSet(chain) = Ancestors[tip]
             /\ \A i \in 1..(Len(chain) - 1) : Parent[chain[i + 1]] = chain[i]
             /\ Len(chain) = Cardinality(Ancestors[tip])

(* ChainReadable: even if the node wrote while the files were scanned, and   *)
(* however many records it appends later, the location stored for a height   *)
(* is that of a record of its block, and opening the file again and reading  *)
(* the location gives the whole block but for cells the node has not written *)
(* yet; such a block is in the chain only if the node preallocates.          *)
(* blkfile.rs:165-167 says of a partially written trailing record that it is *)
(* "excluded rather than parsed as garbage": that is true of the other nodes *)
(* only.  Magic, length and header on disk are enough in a preallocated      *)
(* file, and the rest is read as zeros, or as the key.                       *)
ChainReadable ==
    Built => \A h \in ToSet(chain) \cap Block :
        LET loc     == headers[h]
            rec     == [block |-> h, file |-> loc.file, offset |-> loc.offset]
            missing == IF rec \in Complete THEN 0 ELSE Len(pending)
            cells   == block_bytes(open(raw[loc.file]), loc)
            whole   == <<h>> \o Body[h]
        IN /\ rec \in ToSet(records)
           /\ missing > 0 => node.padded
           /\ Len(cells) = Len(whole)
           /\ \A i \in 1..(Len(whole) - missing) : cells[i] = whole[i]

(* RetainedActive: whatever the node did between the scan and the answer to  *)
(* getchaintips, a block of the built chain is skipped exactly if it is off  *)
(* the chain that was active by then, except on a branch of which the node   *)
(* lacks some block, whose tip it reports as headers-only.                   *)
RetainedActive ==
    stage = "ready" => \A b \in ToSet(chain) \cap Block :
        LET isActive == b \in ActiveAncestors(view.active)
            headersOnly == \E t \in view.known :
                              b \in Ancestors[t] /\ ~(Ancestors[t] \subseteq view.stored)
        IN (isActive => b \notin orphans) /\ (~isActive => b \in orphans \/ headersOnly)
=============================================================================
