----------------------------- MODULE FileCache ------------------------------
(***************************************************************************)
(* ThreadFileCache of crates/bidx-cli/src/pipeline.rs: decoded blk files   *)
(* shared by the workers of the bulk pipeline, an LRU list under a mutex   *)
(* and a map under a read-write lock.  block_bytes takes the two locks one *)
(* after the other and opens files under neither, so each of its critical  *)
(* sections is a step.                                                     *)
(*                                                                         *)
(* Each open decodes a file into memory of its own.  A Copy is one such    *)
(* decoded file, alive while the map or a worker holds its Arc; two        *)
(* workers that miss the same file open it twice.                          *)
(***************************************************************************)
EXTENDS Integers, FiniteSets, Sequences, Functions

CONSTANTS Worker, File, Copy,
          NoCopy,          \* a worker holds no Arc
          MaxCachedFiles   \* MAX_CACHED_FILES

ASSUME CacheAssumption ==
  /\ MaxCachedFiles \in Nat \ {0}
  /\ IsFiniteSet(Worker)
  /\ File # {}
  /\ NoCopy \notin Copy

VARIABLES lru,   \* file ids, the least recently used first
          map,   \* file id -> the copy cached
          pc,    \* worker -> where in block_bytes it is
          file,  \* worker -> loc.file_id
          held   \* worker -> f, the Arc block_bytes holds, or NoCopy

vars == <<lru, map, pc, file, held>>

TypeOK ==
  /\ lru \in Seq(File)
  /\ DOMAIN map \subseteq File /\ map \in [DOMAIN map -> Copy]
  /\ pc \in [Worker -> {"idle", "open", "insert", "touch", "read"}]
  /\ file \in [Worker -> File]
  /\ held \in [Worker -> Copy \cup {NoCopy}]

Init ==
  /\ lru = <<>>
  /\ map = [f \in {} |-> NoCopy]
  /\ pc = [w \in Worker |-> "idle"]
  /\ file \in {[w \in Worker |-> f] : f \in File}
  /\ held = [w \in Worker |-> NoCopy]

\* The copies some Arc still points to.
Alive == Range(map) \cup (Range(held) \ {NoCopy})

-----------------------------------------------------------------------------
\* The map is read, and the entry's Arc cloned if there is one.
Lookup(w, f) ==
  /\ pc[w] = "idle"
  /\ file' = [file EXCEPT ![w] = f]
  /\ \/ /\ f \in DOMAIN map
        /\ held' = [held EXCEPT ![w] = map[f]]
        /\ pc' = [pc EXCEPT ![w] = "touch"]
     \/ /\ f \notin DOMAIN map
        /\ pc' = [pc EXCEPT ![w] = "open"]
        /\ UNCHANGED held
  /\ UNCHANGED <<lru, map>>

\* BlkFile::open, under no lock.
Open(w) ==
  /\ pc[w] = "open"
  /\ \E c \in Copy \ Alive : held' = [held EXCEPT ![w] = c]
  /\ pc' = [pc EXCEPT ![w] = "insert"]
  /\ UNCHANGED <<lru, map, file>>

\* Mutant: the worker goes on without a file.
OpenFailsGoesOn(w) ==
  /\ pc[w] = "open"
  /\ pc' = [pc EXCEPT ![w] = "insert"]
  /\ UNCHANGED <<lru, map, file, held>>

\* Or it fails, and block_bytes with it.
OpenFails(w) ==
  /\ pc[w] = "open"
  /\ pc' = [pc EXCEPT ![w] = "idle"]
  /\ UNCHANGED <<lru, map, file, held>>

Inserted(m, f, c) == [g \in DOMAIN m \cup {f} |-> IF g = f THEN c ELSE m[g]]

\* A copy another worker inserted meanwhile is replaced.
Insert(w) ==
  /\ pc[w] = "insert"
  /\ map' = Inserted(map, file[w], held[w])
  /\ pc' = [pc EXCEPT ![w] = "touch"]
  /\ UNCHANGED <<lru, file, held>>

\* lru.remove(pos)
RemovePos(s, pos) ==
  [i \in 1..(Len(s) - 1) |-> IF i < pos THEN s[i] ELSE s[i + 1]]

\* The list with f moved, or put, to the back.
MovedToBack(s, f) ==
  Append(IF \E i \in DOMAIN s : s[i] = f
           THEN RemovePos(s, CHOOSE i \in DOMAIN s : s[i] = f)
           ELSE s,
         f)

\* Mutants: the oldest leaves the list but not the map; one file too many.
touch_keeps_map(f) ==
  LET moved == MovedToBack(lru, f)
  IN  /\ lru' = IF Len(moved) > MaxCachedFiles THEN Tail(moved) ELSE moved
      /\ UNCHANGED map

touch_one_more(f) ==
  LET moved == MovedToBack(lru, f)
  IN  IF Len(moved) > MaxCachedFiles + 1
        THEN /\ lru' = Tail(moved)
             /\ map' = [g \in DOMAIN map \ ({Head(moved)} \ {f}) |-> map[g]]
        ELSE lru' = moved /\ UNCHANGED map

\* The list is at most one above its capacity, so `while' takes one turn.  The
\* map's lock is taken inside the list's, and nobody takes them the other way
\* round.  A lookup or an insert that falls between pop_front and remove reads
\* no list, so it is as if it came before: touch is one step.
touch(f) ==
  LET moved == MovedToBack(lru, f)
  IN  IF Len(moved) > MaxCachedFiles
        THEN /\ lru' = Tail(moved)
             /\ map' = [g \in DOMAIN map \ ({Head(moved)} \ {f}) |-> map[g]]
        ELSE lru' = moved /\ UNCHANGED map

Touch(w) ==
  /\ pc[w] = "touch"
  /\ touch(file[w])
  /\ pc' = [pc EXCEPT ![w] = "read"]
  /\ UNCHANGED <<file, held>>

\* The block is copied out of the file and the Arc dropped.
Read(w) ==
  /\ pc[w] = "read"
  /\ held' = [held EXCEPT ![w] = NoCopy]
  /\ pc' = [pc EXCEPT ![w] = "idle"]
  /\ UNCHANGED <<lru, map, file>>

Step(w) == \/ \E f \in File : Lookup(w, f)
           \/ Open(w) \/ OpenFails(w) \/ Insert(w) \/ Touch(w) \/ Read(w)

Next == \E w \in Worker : Step(w)

Spec == Init /\ [][Next]_vars

-----------------------------------------------------------------------------
(* Properties.                                                             *)

Touching == {w \in Worker : pc[w] = "touch"}

\* A file in the map is in the list too, or a worker is about to put it there:
\* no race of lookups, inserts and evictions leaves one that is never evicted.
EveryFileEvictable == DOMAIN map \subseteq Range(lru) \cup {file[w] : w \in Touching}

\* The list has no duplicates and never more than MAX_CACHED_FILES entries.
ListBound == /\ Len(lru) <= MaxCachedFiles
             /\ \A i, j \in DOMAIN lru : lru[i] = lru[j] => i = j

\* The map holds at most MAX_CACHED_FILES files, and one more for each worker
\* between its insert and its touch.
ResidentBound == Cardinality(DOMAIN map) <= MaxCachedFiles + Cardinality(Touching)

\* The decoded files in memory, cached, just opened or evicted while being
\* read, are at most MAX_CACHED_FILES plus one for each worker.
MemoryBound == Cardinality(Alive) <= MaxCachedFiles + Cardinality(Worker)

=============================================================================
