----------------------------- MODULE Warehouse ------------------------------
(***************************************************************************)
(* From rows to ClickHouse: ParquetSink (crates/bidx-store/src/            *)
(* parquet_writers.rs) under the passes of `bidx parse', and the loader    *)
(* (crates/bidx-loader) that reads the part files they leave.  Two         *)
(* processes and a directory between them.                                 *)
(*                                                                         *)
(* A row is <<height, i>>: the i-th row of the block for its entity.  A    *)
(* block need not have any: one with a coinbase only spends nothing.  A    *)
(* part file is a sequence of rows and can be read only once its writer    *)
(* has been closed, which writes the footer; until then it is in `opened'. *)
(* The tables are MergeTree, without primary keys, so a table is a bag:    *)
(* it counts how often each row has been inserted.                         *)
(***************************************************************************)
EXTENDS Integers, FiniteSets, SequencesExt, Columns

CONSTANTS Entities,       \* ENTITIES, in order
          Ddl,            \* the tables of all_ddl, in order; some no load fills
          RowsPer,        \* entity -> height -> rows the block has in it
          Tip,            \* the last height
          BlocksPerPart,  \* --blocks-per-part
          BatchSize,      \* SinkConfig.batch_size
          MaxPasses,      \* bound: passes of `bidx parse'
          MaxLoads        \* bound: calls of `bidx load'

ASSUME EntityAssumption == /\ Entities \in Seq(Range(Entities))
                           /\ Len(Entities) > 0 /\ IsInjective(Entities)
                           /\ Range(Entities) \subseteq Range(Ddl) \cap Range(ENTITIES)
                           /\ Range(Ddl) \subseteq Range(all_ddl)
ASSUME RowAssumption == RowsPer \in [Range(Entities) -> [0..Tip -> Nat]]
ASSUME SizeAssumption == /\ Tip \in Nat /\ BatchSize \in Nat \ {0}
                         /\ BlocksPerPart \in Nat \ {0}
                         /\ MaxPasses \in Nat /\ MaxLoads \in Nat

Entity == Range(Entities)
PartOf(h) == h \div BlocksPerPart

\* The rows an entity has of the blocks at the heights hs.
RowsOf(e, hs) == UNION {{h} \X (1..RowsPer[e][h]) : h \in hs}
Row == UNION {RowsOf(e, 0..Tip) : e \in Entity}

VARIABLES ppc,       \* the sink: "down", "open", "recv", "push", "flush", "close", "create"
          part,      \* part_id
          height, end,   \* the block being written, and the end of the pass
          k, i,      \* the entity at hand, and the row of it
          buffered,  \* entity -> rows in its column builders
          written,   \* entity -> rows in its row groups
          passes,
          files,     \* <<entity, part>> -> rows, for the files with a footer
          opened,    \* <<entity, part>> of the files without one
          tables,    \* tables init_schema has created
          table,     \* entity -> row -> how often it was inserted
          lpc, lk,   \* load_all: "idle", "load", "ok" or "err"; the entity at hand
          loads,     \* calls of load_all so far
          held,      \* the part files each of them found
          upto,      \* the entity each of them got to
          raced      \* part files changed during a load

sinkVars == <<ppc, part, height, end, k, i, buffered, written, passes>>
fileVars == <<files, opened>>
loadVars == <<tables, table, lpc, lk, loads, held, upto>>
vars == <<sinkVars, fileVars, loadVars, raced>>

NoRows == [e \in Entity |-> <<>>]

Init ==
  /\ ppc = "down" /\ part = 0 /\ height = 0 /\ end = 0 /\ k = 1 /\ i = 1
  /\ buffered = NoRows /\ written = NoRows /\ passes = 0
  /\ files = [x \in {} |-> <<>>] /\ opened = {}
  /\ tables = {} /\ table = [e \in Entity |-> [r \in Row |-> 0]]
  /\ lpc = "idle" /\ lk = 1 /\ loads = 0 /\ held = <<>> /\ upto = <<>> /\ raced = FALSE

-----------------------------------------------------------------------------
(* ParquetSink.                                                            *)

E == Entities[k]
LastEntity == k = Len(Entities)

\* A file of the directory has changed under a load.
Touches == raced' = (raced \/ lpc = "load")

\* A pass over from..to-1 begins with the part of its first height.
BeginPass(from, to) ==
  /\ ppc = "down" /\ passes < MaxPasses
  /\ ppc' = "open" /\ part' = PartOf(from) /\ height' = from /\ end' = to
  /\ k' = 1 /\ i' = 1 /\ buffered' = NoRows /\ written' = NoRows
  /\ passes' = passes + 1
  /\ UNCHANGED <<fileVars, loadVars, raced>>

\* create_writer for one entity: File::create truncates what was there.
CreateWriter ==
  /\ ppc \in {"open", "create"}
  /\ opened' = opened \cup {<<E, part>>}
  /\ files' = [x \in DOMAIN files \ {<<E, part>>} |-> files[x]]
  /\ IF LastEntity THEN ppc' = (IF ppc = "open" THEN "recv" ELSE "push") /\ k' = 1
                   ELSE k' = k + 1 /\ UNCHANGED ppc
  /\ Touches
  /\ UNCHANGED <<part, height, end, i, buffered, written, passes, loadVars>>

\* The next block in order, which may belong to another part; or the channel is
\* closed before the end, and what there is gets finished.
Receive ==
  /\ ppc = "recv"
  /\ \/ ppc' = (IF PartOf(height) # part THEN "flush" ELSE "push") /\ UNCHANGED end
     \/ ppc' = "flush" /\ end' = height
  /\ UNCHANGED <<part, height, k, i, buffered, written, passes, fileVars, loadVars, raced>>

\* The next height is that of a stale block, and the one after it is waited for.
Skip ==
  /\ ppc = "recv"
  /\ height' = height + 1
  /\ ppc' = IF height + 1 >= end THEN "flush" ELSE "recv"
  /\ UNCHANGED <<part, end, k, i, buffered, written, passes, fileVars, loadVars, raced>>

\* Mutant: the column builders keep their rows.
take_batch_keeps(rows) == rows

\* take_batch empties the column builders.
take_batch(rows) == <<>>

\* push_block, push_tx, push_input, push_output, push_spend: one row, and a row
\* group once the batch is full.
Push ==
  /\ ppc = "push" /\ i <= RowsPer[E][height]
  /\ LET rows == Append(buffered[E], <<height, i>>)
     IN  IF Len(rows) >= BatchSize
           THEN /\ written' = [written EXCEPT ![E] = @ \o rows]
                /\ buffered' = [buffered EXCEPT ![E] = take_batch(rows)]
           ELSE buffered' = [buffered EXCEPT ![E] = rows] /\ UNCHANGED written
  /\ i' = i + 1
  /\ UNCHANGED <<ppc, part, height, end, k, passes, fileVars, loadVars, raced>>

\* There are no more rows of this entity: the next one, or the next block.
RowsDone ==
  /\ ppc = "push" /\ i > RowsPer[E][height]
  /\ i' = 1
  /\ IF LastEntity
       THEN /\ k' = 1 /\ height' = height + 1
            /\ ppc' = IF height + 1 >= end THEN "flush" ELSE "recv"
       ELSE k' = k + 1 /\ UNCHANGED <<ppc, height>>
  /\ UNCHANGED <<part, end, buffered, written, passes, fileVars, loadVars, raced>>

\* Mutant: a partial batch is left behind.
PartialBatchLost(e) == <<>>

\* What finish writes of an entity before it closes anything.
PartialBatch(e) == buffered[e]

Flush ==
  /\ ppc = "flush"
  /\ written' = [written EXCEPT ![E] = @ \o PartialBatch(E)]
  /\ buffered' = [buffered EXCEPT ![E] = <<>>]
  /\ IF LastEntity THEN ppc' = "close" /\ k' = 1 ELSE k' = k + 1 /\ UNCHANGED ppc
  /\ UNCHANGED <<part, height, end, i, passes, fileVars, loadVars, raced>>

\* ArrowWriter::close for one entity; after the last the pass goes on with the
\* part of the block at hand, or is over.
CloseWriter ==
  /\ ppc = "close"
  /\ files' = [x \in DOMAIN files \cup {<<E, part>>} |->
                 IF x = <<E, part>> THEN written[E] ELSE files[x]]
  /\ opened' = opened \ {<<E, part>>}
  /\ IF LastEntity
       THEN /\ k' = 1 /\ written' = NoRows
            /\ IF height >= end
                 THEN ppc' = "down" /\ part' = 0 /\ height' = 0 /\ end' = 0
                 ELSE ppc' = "create" /\ part' = PartOf(height) /\ UNCHANGED <<height, end>>
       ELSE k' = k + 1 /\ UNCHANGED <<ppc, part, height, end, written>>
  /\ Touches
  /\ UNCHANGED <<i, buffered, passes, loadVars>>

\* Any of it fails, or the process dies: the writers are dropped unclosed.
PassFails ==
  /\ ppc # "down"
  /\ ppc' = "down" /\ part' = 0 /\ height' = 0 /\ end' = 0
  /\ k' = 1 /\ i' = 1 /\ buffered' = NoRows /\ written' = NoRows
  /\ UNCHANGED <<passes, fileVars, loadVars, raced>>

-----------------------------------------------------------------------------
(* ChLoader.                                                               *)

\* init_schema: CREATE TABLE IF NOT EXISTS one after the other, up to a failure.
InitSchema ==
  /\ lpc # "load"
  /\ \E n \in 0..Len(Ddl) : tables' = tables \cup {Ddl[j] : j \in 1..n}
  /\ tables' # tables
  /\ UNCHANGED <<sinkVars, fileVars, table, lpc, lk, loads, held, upto, raced>>

BeginLoad ==
  /\ lpc # "load" /\ loads < MaxLoads
  /\ lpc' = "load" /\ lk' = 1 /\ loads' = loads + 1
  /\ held' = Append(held, files) /\ upto' = Append(upto, 1)
  /\ UNCHANGED <<sinkVars, fileVars, tables, table, raced>>

\* The files <entity>/*.parquet with a footer, as pairs.
Glob(e) == {x \in DOMAIN files : x[1] = e}

\* ClickHouse reads every file of the glob, or fails: at a file without footer,
\* without any file, and without the table.
Readable(e) == /\ e \in tables
               /\ Glob(e) # {}
               /\ \A x \in opened : x[1] # e

\* Where the row r is in the files fs: pairs of a file and a place in it.
Occurrences(fs, r) == UNION {{x} \X {j \in DOMAIN files[x] : files[x][j] = r} : x \in fs}

\* The table once the rows of the files fs are inserted.
Inserted(e, fs) == [r \in Row |-> table[e][r] + Cardinality(Occurrences(fs, r))]

L == Entities[lk]

LoadEntity ==
  /\ lpc = "load" /\ Readable(L)
  /\ table' = [table EXCEPT ![L] = Inserted(L, Glob(L))]
  /\ IF lk = Len(Entities) THEN lpc' = "ok" /\ UNCHANGED lk ELSE lk' = lk + 1 /\ UNCHANGED lpc
  /\ upto' = [upto EXCEPT ![loads] = lk + 1]
  /\ UNCHANGED <<sinkVars, fileVars, tables, loads, held, raced>>

\* Mutant: an error is logged and the next entity loaded.
LoadFailsGoesOn ==
  /\ lpc = "load"
  /\ IF lk = Len(Entities) THEN lpc' = "err" /\ UNCHANGED lk ELSE lk' = lk + 1 /\ UNCHANGED lpc
  /\ upto' = [upto EXCEPT ![loads] = lk + 1]
  /\ UNCHANGED <<sinkVars, fileVars, tables, table, loads, held, raced>>

\* The client fails.  INSERT ... SELECT is no transaction: it may have inserted
\* the rows of some files.
LoadFails ==
  /\ lpc = "load"
  /\ \/ UNCHANGED table
     \/ /\ Readable(L)
        /\ \E fs \in SUBSET Glob(L) : table' = [table EXCEPT ![L] = Inserted(L, fs)]
  /\ lpc' = "err"
  /\ UNCHANGED <<sinkVars, fileVars, tables, lk, loads, held, upto, raced>>

Next == \/ \E from \in 0..Tip : \E to \in (from + 1)..(Tip + 1) : BeginPass(from, to)
        \/ CreateWriter \/ Receive \/ Skip \/ Push \/ RowsDone \/ Flush \/ CloseWriter \/ PassFails
        \/ InitSchema \/ BeginLoad \/ LoadEntity \/ LoadFails

Spec == Init /\ [][Next]_vars

-----------------------------------------------------------------------------
(* Properties.                                                             *)

HeightsOf(p) == {h \in 0..Tip : PartOf(h) = p}

\* The files of a part that can be read are about the same blocks, whichever pass
\* wrote them and wherever it failed: each has all rows of these, and each once.
PartsAgree ==
  \A x \in DOMAIN files : \E hs \in SUBSET HeightsOf(x[2]) : \A e \in Entity :
    <<e, x[2]>> \in DOMAIN files =>
      /\ IsInjective(files[<<e, x[2]>>])
      /\ Range(files[<<e, x[2]>>]) = RowsOf(e, hs)

\* The first load, if it succeeds and no part file changed meanwhile, leaves
\* every block there is in every table, with each of its rows once and each
\* field in the column of its name.
FirstLoadExact ==
  lpc = "ok" /\ loads = 1 /\ ~raced =>
    /\ \A e \in Range(ENTITIES) : ColumnsAlign(e)
    /\ \A h \in 0..Tip : \E n \in {0, 1} :
         \A e \in Entity : \A j \in 1..RowsPer[e][h] : table[e][<<h, j>>] = n

\* The loads that found the row r of the entity in a part file.
Found(e, r) ==
  {l \in DOMAIN held : \E x \in DOMAIN held[l] : x[1] = e /\ r \in Range(held[l][x])}

\* Those of them that got past the entity, and those that failed in it.
Past(a, r) == {l \in Found(Entities[a], r) : upto[l] > a}
FailedIn(a, r) ==
  {l \in Found(Entities[a], r) : upto[l] = a /\ ~(l = loads /\ lpc = "load")}

\* A row is in its table once for each load that got past its entity, and at most
\* once more for each that failed in it, whatever was parsed in between.  So a
\* load that failed and is run again does not "retry cleanly", as the README says
\* of it: it leaves a second copy of all that the first had inserted.
LoadsAddUp ==
  ~raced =>
    \A a \in 1..Len(Entities) : \A h \in 0..Tip : \A j \in 1..RowsPer[Entities[a]][h] :
      LET n == Cardinality(Past(a, <<h, j>>))
      IN  table[Entities[a]][<<h, j>>] \in n..(n + Cardinality(FailedIn(a, <<h, j>>)))

=============================================================================
