-------------------------- MODULE FileCacheProofs ---------------------------
(***************************************************************************)
(* The memory bounds of the shared file cache, for every number of         *)
(* workers, files and cached files.                                        *)
(***************************************************************************)
EXTENDS FileCache, FiniteSetTheorems, TLAPS

Distinct(s) == \A i, j \in DOMAIN s : s[i] = s[j] => i = j

\* An entry that the list does not have belongs to a worker that inserted it,
\* still holds it and is about to touch it.
MapBacked ==
  \A f \in DOMAIN map \ Range(lru) :
    \E w \in Worker : pc[w] = "touch" /\ file[w] = f /\ held[w] = map[f]

\* A worker that is about to insert has a file in hand.
HoldsCopy == \A w \in Worker : pc[w] = "insert" => held[w] # NoCopy

IInv == TypeOK /\ ListBound /\ MapBacked /\ HoldsCopy

-----------------------------------------------------------------------------
(* The list.                                                               *)

LEMMA RemovePosFacts ==
  ASSUME NEW s \in Seq(File), Distinct(s), NEW pos \in DOMAIN s
  PROVE  /\ RemovePos(s, pos) \in Seq(File)
         /\ Len(RemovePos(s, pos)) = Len(s) - 1
         /\ Distinct(RemovePos(s, pos))
         /\ Range(RemovePos(s, pos)) = Range(s) \ {s[pos]}
<1> DEFINE r == RemovePos(s, pos)
<1>1. Len(s) \in Nat /\ Len(s) >= 1 /\ pos \in 1..Len(s) /\ DOMAIN s = 1..Len(s)
  OBVIOUS
<1>2. Len(s) - 1 \in Nat
  BY <1>1
<1>3. r \in [1..(Len(s) - 1) -> File]
  BY <1>1 DEF RemovePos
<1>4. r \in Seq(File) /\ Len(r) = Len(s) - 1 /\ DOMAIN r = 1..(Len(s) - 1)
  BY <1>2, <1>3
<1>5. \A i \in 1..(Len(s) - 1) : r[i] = IF i < pos THEN s[i] ELSE s[i + 1]
  BY DEF RemovePos
<1> HIDE DEF r
<1>6. Distinct(r)
  <2> SUFFICES ASSUME NEW i \in 1..(Len(s) - 1), NEW j \in 1..(Len(s) - 1), r[i] = r[j]
               PROVE  i = j
    BY <1>4 DEF Distinct
  <2>1. \A k, l \in 1..Len(s) : s[k] = s[l] => k = l
    BY <1>1 DEF Distinct
  <2> QED BY <1>1, <1>5, <2>1
<1>7. Range(r) \subseteq Range(s) \ {s[pos]}
  <2> SUFFICES ASSUME NEW i \in 1..(Len(s) - 1)
               PROVE  r[i] \in Range(s) /\ r[i] # s[pos]
    BY <1>4 DEF Range
  <2>1. \A k, l \in 1..Len(s) : s[k] = s[l] => k = l
    BY <1>1 DEF Distinct
  <2>2. CASE i < pos
    BY <1>1, <1>5, <2>1, <2>2 DEF Range
  <2>3. CASE ~(i < pos)
    <3>1. i + 1 \in 1..Len(s) /\ i + 1 # pos /\ r[i] = s[i + 1]
      BY <1>1, <1>5, <2>3
    <3> QED BY <1>1, <2>1, <3>1 DEF Range
  <2> QED BY <2>2, <2>3
<1>8. Range(s) \ {s[pos]} \subseteq Range(r)
  <2> SUFFICES ASSUME NEW k \in 1..Len(s), s[k] # s[pos]
               PROVE  s[k] \in Range(r)
    BY <1>1 DEF Range
  <2>1. CASE k < pos
    <3>1. k \in 1..(Len(s) - 1) /\ r[k] = s[k]
      BY <1>1, <1>5, <2>1
    <3> QED BY <1>4, <3>1 DEF Range
  <2>2. CASE ~(k < pos)
    <3>1. k - 1 \in 1..(Len(s) - 1) /\ ~(k - 1 < pos) /\ k - 1 + 1 = k
      BY <1>1, <2>2
    <3>2. r[k - 1] = s[k]
      BY <1>5, <3>1
    <3> QED BY <1>4, <3>1, <3>2 DEF Range
  <2> QED BY <2>1, <2>2
<1> QED BY <1>4, <1>6, <1>7, <1>8 DEF r

LEMMA AppendFacts ==
  ASSUME NEW s \in Seq(File), Distinct(s), NEW f \in File, f \notin Range(s)
  PROVE  /\ Append(s, f) \in Seq(File)
         /\ Len(Append(s, f)) = Len(s) + 1
         /\ Distinct(Append(s, f))
         /\ Range(Append(s, f)) = Range(s) \cup {f}
         /\ Append(s, f)[Len(s) + 1] = f
<1> DEFINE a == Append(s, f)
<1>1. /\ a \in Seq(File) /\ Len(a) = Len(s) + 1 /\ DOMAIN a = 1..(Len(s) + 1)
      /\ a[Len(s) + 1] = f
      /\ \A i \in 1..Len(s) : a[i] = s[i]
      /\ Len(s) \in Nat /\ DOMAIN s = 1..Len(s)
  OBVIOUS
<1> HIDE DEF a
<1>2. \A i \in 1..Len(s) : s[i] # f
  BY <1>1 DEF Range
<1>3. Distinct(a)
  <2> SUFFICES ASSUME NEW i \in 1..(Len(s) + 1), NEW j \in 1..(Len(s) + 1), a[i] = a[j]
               PROVE  i = j
    BY <1>1 DEF Distinct
  <2>1. \A k, l \in 1..Len(s) : s[k] = s[l] => k = l
    BY <1>1 DEF Distinct
  <2>2. \A k \in 1..(Len(s) + 1) : k = Len(s) + 1 \/ k \in 1..Len(s)
    BY <1>1
  <2> QED BY <1>1, <1>2, <2>1, <2>2
<1>4. Range(a) = Range(s) \cup {f}
  <2>1. Range(a) \subseteq Range(s) \cup {f}
    <3> SUFFICES ASSUME NEW i \in 1..(Len(s) + 1) PROVE a[i] \in Range(s) \cup {f}
      BY <1>1 DEF Range
    <3>1. i = Len(s) + 1 \/ i \in 1..Len(s)
      BY <1>1
    <3> QED BY <1>1, <3>1 DEF Range
  <2>2. \A i \in 1..Len(s) : s[i] \in Range(a)
    <3> SUFFICES ASSUME NEW i \in 1..Len(s) PROVE s[i] \in Range(a)
      OBVIOUS
    <3>1. i \in DOMAIN a /\ a[i] = s[i]
      BY <1>1
    <3> QED BY <3>1 DEF Range
  <2>3. f \in Range(a)
    <3>1. Len(s) + 1 \in DOMAIN a
      BY <1>1
    <3> QED BY <1>1, <3>1 DEF Range
  <2> QED BY <1>1, <2>1, <2>2, <2>3 DEF Range
<1> QED BY <1>1, <1>3, <1>4 DEF a

\* Moving a file to the back adds it to the list and loses none.
LEMMA MovedFacts ==
  ASSUME NEW s \in Seq(File), Distinct(s), NEW f \in File
  PROVE  /\ MovedToBack(s, f) \in Seq(File)
         /\ Distinct(MovedToBack(s, f))
         /\ Range(MovedToBack(s, f)) = Range(s) \cup {f}
         /\ Len(MovedToBack(s, f)) \in 1..(Len(s) + 1)
         /\ MovedToBack(s, f)[Len(MovedToBack(s, f))] = f
<1>1. CASE \E i \in DOMAIN s : s[i] = f
  <2>1. PICK pos \in DOMAIN s : s[pos] = f /\ pos = CHOOSE i \in DOMAIN s : s[i] = f
    BY <1>1
  <2>2. PICK r : r = RemovePos(s, pos)
    OBVIOUS
  <2>3. r \in Seq(File) /\ Len(r) = Len(s) - 1 /\ Distinct(r) /\ Range(r) = Range(s) \ {f}
    BY <2>1, <2>2, RemovePosFacts
  <2>4. MovedToBack(s, f) = Append(r, f)
    BY <1>1, <2>1, <2>2 DEF MovedToBack
  <2>5. /\ Append(r, f) \in Seq(File) /\ Len(Append(r, f)) = Len(r) + 1
        /\ Distinct(Append(r, f)) /\ Range(Append(r, f)) = Range(r) \cup {f}
        /\ Append(r, f)[Len(r) + 1] = f
    BY <2>3, AppendFacts
  <2>6. f \in Range(s)
    BY <1>1 DEF Range
  <2>7. Len(s) \in Nat /\ Len(s) >= 1
    BY <1>1
  <2> QED BY <2>3, <2>4, <2>5, <2>6, <2>7
<1>2. CASE ~ \E i \in DOMAIN s : s[i] = f
  <2>1. f \notin Range(s)
    BY <1>2 DEF Range
  <2>2. MovedToBack(s, f) = Append(s, f)
    BY <1>2 DEF MovedToBack
  <2>3. Len(s) \in Nat
    OBVIOUS
  <2> QED BY <2>1, <2>2, <2>3, AppendFacts
<1> QED BY <1>1, <1>2

LEMMA TailFacts ==
  ASSUME NEW s \in Seq(File), Distinct(s), Len(s) >= 1
  PROVE  /\ Tail(s) \in Seq(File)
         /\ Len(Tail(s)) = Len(s) - 1
         /\ Distinct(Tail(s))
         /\ Range(Tail(s)) = Range(s) \ {Head(s)}
<1> DEFINE t == Tail(s)
<1>1. /\ t \in Seq(File) /\ Len(t) = Len(s) - 1 /\ DOMAIN t = 1..(Len(s) - 1)
      /\ \A i \in 1..(Len(s) - 1) : t[i] = s[i + 1]
      /\ Len(s) \in Nat /\ DOMAIN s = 1..Len(s) /\ Head(s) = s[1]
  OBVIOUS
<1> HIDE DEF t
<1>2. \A k, l \in 1..Len(s) : s[k] = s[l] => k = l
  BY <1>1 DEF Distinct
<1>3. \A i \in 1..(Len(s) - 1) : i + 1 \in 1..Len(s) /\ i + 1 # 1
  BY <1>1
<1>4. Distinct(t)
  BY <1>1, <1>2, <1>3 DEF Distinct
<1>5. Range(t) \subseteq Range(s) \ {Head(s)}
  <2> SUFFICES ASSUME NEW i \in 1..(Len(s) - 1) PROVE t[i] \in Range(s) \ {Head(s)}
    BY <1>1 DEF Range
  <2>1. i + 1 \in 1..Len(s) /\ i + 1 # 1 /\ 1 \in 1..Len(s) /\ t[i] = s[i + 1]
    BY <1>1, <1>3
  <2> QED BY <1>1, <1>2, <2>1 DEF Range
<1>6. Range(s) \ {Head(s)} \subseteq Range(t)
  <2> SUFFICES ASSUME NEW k \in 1..Len(s), s[k] # Head(s) PROVE s[k] \in Range(t)
    BY <1>1 DEF Range
  <2>1. k - 1 \in 1..(Len(s) - 1) /\ k - 1 + 1 = k
    BY <1>1
  <2>2. t[k - 1] = s[k]
    BY <1>1, <2>1
  <2> QED BY <1>1, <2>1, <2>2 DEF Range
<1> QED BY <1>1, <1>4, <1>5, <1>6 DEF t

-----------------------------------------------------------------------------
(* The inductive invariant.                                                *)

LEMMA ListBoundDistinct == ListBound <=> Len(lru) <= MaxCachedFiles /\ Distinct(lru)
  BY DEF ListBound, Distinct

LEMMA InitIInv == Init => IInv
<1> SUFFICES ASSUME Init PROVE IInv
  OBVIOUS
<1>1. lru \in Seq(File) /\ Len(lru) = 0 /\ DOMAIN lru = {}
  BY DEF Init
<1>2. TypeOK
  <2>1. DOMAIN map = {} /\ map \in [DOMAIN map -> Copy]
    BY DEF Init
  <2> QED BY <1>1, <2>1 DEF Init, TypeOK
<1>3. ListBound
  BY <1>1, CacheAssumption DEF ListBound
<1>4. MapBacked
  BY DEF Init, MapBacked
<1>5. HoldsCopy
  BY DEF Init, HoldsCopy
<1> QED BY <1>2, <1>3, <1>4, <1>5 DEF IInv

\* What touch does to the list and to the map.
LEMMA TouchFacts ==
  ASSUME IInv, NEW f \in File, touch(f)
  PROVE  /\ lru' \in Seq(File) /\ ListBound'
         /\ f \in Range(lru')
         /\ DOMAIN map' \subseteq DOMAIN map
         /\ map' \in [DOMAIN map' -> Copy]
         /\ \A g \in DOMAIN map' : map'[g] = map[g]
         /\ DOMAIN map' \cap Range(lru) \subseteq Range(lru')
<1> DEFINE moved == MovedToBack(lru, f)
<1>1. lru \in Seq(File) /\ Distinct(lru) /\ Len(lru) <= MaxCachedFiles /\ Len(lru) \in Nat
  BY ListBoundDistinct DEF IInv, TypeOK
<1>2. /\ moved \in Seq(File) /\ Distinct(moved) /\ Range(moved) = Range(lru) \cup {f}
      /\ Len(moved) \in 1..(Len(lru) + 1) /\ moved[Len(moved)] = f
  BY <1>1, MovedFacts
<1>3. DOMAIN map \subseteq File /\ map \in [DOMAIN map -> Copy]
  BY DEF IInv, TypeOK
<1>4. CASE Len(moved) > MaxCachedFiles
  <2>1. /\ lru' = Tail(moved)
        /\ map' = [g \in DOMAIN map \ ({Head(moved)} \ {f}) |-> map[g]]
    BY <1>4 DEF touch
  <2> HIDE DEF moved
  <2>2. /\ Tail(moved) \in Seq(File) /\ Len(Tail(moved)) = Len(moved) - 1
        /\ Distinct(Tail(moved)) /\ Range(Tail(moved)) = Range(moved) \ {Head(moved)}
    BY <1>2, TailFacts
  <2>3. Head(moved) # f
    <3>1. Len(moved) > 1 /\ 1 \in DOMAIN moved /\ Len(moved) \in DOMAIN moved
      BY <1>2, <1>4, CacheAssumption
    <3>2. Head(moved) = moved[1]
      BY <1>2, <3>1
    <3> QED BY <1>2, <3>1, <3>2 DEF Distinct
  <2>4. ListBound'
    <3>1. Len(lru') <= MaxCachedFiles
      BY <1>1, <1>2, <2>1, <2>2, CacheAssumption
    <3> QED BY <2>1, <2>2, <3>1 DEF ListBound, Distinct
  <2>5. DOMAIN map' = DOMAIN map \ {Head(moved)} /\ \A g \in DOMAIN map' : map'[g] = map[g]
    BY <2>1, <2>3
  <2>6. map' \in [DOMAIN map' -> Copy]
    BY <1>3, <2>1
  <2> QED BY <1>2, <2>1, <2>2, <2>3, <2>4, <2>5, <2>6
<1>5. CASE ~(Len(moved) > MaxCachedFiles)
  <2>1. lru' = moved /\ map' = map
    BY <1>5 DEF touch
  <2> HIDE DEF moved
  <2>2. ListBound'
    BY <1>2, <1>5, <2>1, CacheAssumption DEF ListBound, Distinct
  <2> QED BY <1>2, <1>3, <2>1, <2>2
<1> QED BY <1>4, <1>5

LEMMA NextIInv == IInv /\ [Next]_vars => IInv'
<1> SUFFICES ASSUME IInv, [Next]_vars PROVE IInv'
  OBVIOUS
<1> USE DEF IInv
<1>1. ASSUME NEW w \in Worker, NEW f \in File, Lookup(w, f) PROVE IInv'
  <2> USE <1>1 DEF Lookup
  <2>1. TypeOK'
    BY DEF TypeOK
  <2>2. ListBound'
    BY DEF ListBound
  <2>3. MapBacked'
    BY DEF MapBacked, TypeOK
  <2>4. HoldsCopy'
    BY DEF HoldsCopy, TypeOK
  <2> QED BY <2>1, <2>2, <2>3, <2>4
<1>2. ASSUME NEW w \in Worker, Open(w) PROVE IInv'
  <2> USE <1>2 DEF Open
  <2>1. TypeOK'
    BY DEF TypeOK
  <2>2. ListBound'
    BY DEF ListBound
  <2>3. MapBacked'
    BY DEF MapBacked, TypeOK
  <2>4. HoldsCopy'
    BY CacheAssumption DEF HoldsCopy, TypeOK
  <2> QED BY <2>1, <2>2, <2>3, <2>4
<1>3. ASSUME NEW w \in Worker, OpenFails(w) PROVE IInv'
  <2> USE <1>3 DEF OpenFails
  <2>1. TypeOK'
    BY DEF TypeOK
  <2>2. ListBound'
    BY DEF ListBound
  <2>3. MapBacked'
    BY DEF MapBacked, TypeOK
  <2>4. HoldsCopy'
    BY DEF HoldsCopy, TypeOK
  <2> QED BY <2>1, <2>2, <2>3, <2>4
<1>4. ASSUME NEW w \in Worker, Insert(w) PROVE IInv'
  <2> USE <1>4 DEF Insert
  <2>1. held[w] \in Copy /\ file[w] \in File
    BY DEF TypeOK, HoldsCopy
  <2>2. /\ DOMAIN map' = DOMAIN map \cup {file[w]} /\ map'[file[w]] = held[w]
        /\ \A g \in DOMAIN map \ {file[w]} : map'[g] = map[g]
    BY DEF Inserted
  <2>3. TypeOK'
    <3>1. map' \in [DOMAIN map' -> Copy]
      BY <2>1 DEF Inserted, TypeOK
    <3> QED BY <2>1, <2>2, <3>1 DEF TypeOK
  <2>4. ListBound'
    BY DEF ListBound
  <2>5. MapBacked'
    <3> SUFFICES ASSUME NEW f \in DOMAIN map', f \notin Range(lru)
                 PROVE  \E u \in Worker : pc'[u] = "touch" /\ file[u] = f /\ held[u] = map'[f]
      BY DEF MapBacked, Range
    <3>1. CASE f = file[w]
      BY <2>2, <3>1 DEF TypeOK
    <3>2. CASE f # file[w]
      <4>1. f \in DOMAIN map /\ map'[f] = map[f]
        BY <2>2, <3>2
      <4>2. PICK u \in Worker : pc[u] = "touch" /\ file[u] = f /\ held[u] = map[f]
        BY <4>1 DEF MapBacked
      <4>3. pc'[u] = "touch"
        BY <4>2 DEF TypeOK
      <4> QED BY <4>1, <4>2, <4>3
    <3> QED BY <3>1, <3>2
  <2>6. HoldsCopy'
    BY DEF HoldsCopy, TypeOK
  <2> QED BY <2>3, <2>4, <2>5, <2>6
<1>5. ASSUME NEW w \in Worker, Touch(w) PROVE IInv'
  <2>1. file[w] \in File /\ touch(file[w])
    BY <1>5 DEF TypeOK, Touch
  <2>2. /\ lru' \in Seq(File) /\ ListBound' /\ file[w] \in Range(lru')
        /\ DOMAIN map' \subseteq DOMAIN map /\ map' \in [DOMAIN map' -> Copy]
        /\ \A g \in DOMAIN map' : map'[g] = map[g]
        /\ DOMAIN map' \cap Range(lru) \subseteq Range(lru')
    BY <2>1, TouchFacts
  <2>3. pc' = [pc EXCEPT ![w] = "read"] /\ file' = file /\ held' = held
    BY <1>5 DEF Touch
  <2>4. TypeOK'
    BY <2>2, <2>3 DEF TypeOK
  <2>5. MapBacked'
    <3> SUFFICES ASSUME NEW f \in DOMAIN map', f \notin Range(lru')
                 PROVE  \E u \in Worker : pc'[u] = "touch" /\ file'[u] = f /\ held'[u] = map'[f]
      BY DEF MapBacked, Range
    <3>1. f \in DOMAIN map /\ f \notin Range(lru) /\ f # file[w]
      BY <2>2
    <3>2. PICK u \in Worker : pc[u] = "touch" /\ file[u] = f /\ held[u] = map[f]
      BY <3>1 DEF MapBacked
    <3>3. pc'[u] = "touch"
      BY <2>3, <3>1, <3>2 DEF TypeOK
    <3> QED BY <2>2, <2>3, <3>2, <3>3
  <2>6. HoldsCopy'
    BY <2>3 DEF HoldsCopy, TypeOK
  <2> QED BY <2>2, <2>4, <2>5, <2>6
<1>6. ASSUME NEW w \in Worker, Read(w) PROVE IInv'
  <2> USE <1>6 DEF Read
  <2>1. TypeOK'
    BY DEF TypeOK
  <2>2. ListBound'
    BY DEF ListBound
  <2>3. MapBacked'
    BY DEF MapBacked, TypeOK
  <2>4. HoldsCopy'
    BY DEF HoldsCopy, TypeOK
  <2> QED BY <2>1, <2>2, <2>3, <2>4
<1>7. CASE UNCHANGED vars
  BY <1>7 DEF vars, TypeOK, ListBound, MapBacked, HoldsCopy, Range
<1> QED BY <1>1, <1>2, <1>3, <1>4, <1>5, <1>6, <1>7 DEF Next, Step

LEMMA SpecIInv == Spec => []IInv
  BY InitIInv, NextIInv, PTL DEF Spec
-----------------------------------------------------------------------------
(* Counting.                                                               *)

\* The image of a finite set under a function is no larger than the set.
LEMMA ImageBound ==
  ASSUME NEW S, IsFiniteSet(S), NEW g, S \subseteq DOMAIN g
  PROVE  /\ IsFiniteSet({g[x] : x \in S})
         /\ Cardinality({g[x] : x \in S}) <= Cardinality(S)
<1> DEFINE T == {g[x] : x \in S}
<1>1. [x \in S |-> g[x]] \in Surjection(S, T)
  BY DEF Surjection
<1> HIDE DEF T
<1>2. IsFiniteSet(T) /\ Cardinality(T) <= Cardinality(S)
  BY <1>1, FS_Surjection
<1> QED BY <1>2 DEF T

\* A union is no larger than its parts together.
LEMMA UnionBound ==
  ASSUME NEW S, NEW T, NEW R, IsFiniteSet(S), IsFiniteSet(T), R \subseteq S \cup T
  PROVE  /\ IsFiniteSet(R)
         /\ Cardinality(R) <= Cardinality(S) + Cardinality(T)
<1>1. /\ IsFiniteSet(S \cup T)
      /\ Cardinality(S \cup T) = Cardinality(S) + Cardinality(T) - Cardinality(S \cap T)
  BY FS_Union
<1>2. IsFiniteSet(R) /\ Cardinality(R) <= Cardinality(S \cup T)
  BY <1>1, FS_Subset
<1>3. IsFiniteSet(S \cap T)
  BY FS_Subset
<1>4. /\ Cardinality(S) \in Nat /\ Cardinality(T) \in Nat /\ Cardinality(S \cap T) \in Nat
      /\ Cardinality(R) \in Nat /\ Cardinality(S \cup T) \in Nat
  BY <1>1, <1>2, <1>3, FS_CardinalityType
<1> QED BY <1>1, <1>2, <1>4

LEMMA UpToBound ==
  ASSUME NEW n \in Nat
  PROVE  IsFiniteSet(1..n) /\ Cardinality(1..n) = n
<1>1. IsFiniteSet(1..n) /\ Cardinality(1..n) = IF 1 > n THEN 0 ELSE n - 1 + 1
  BY FS_Interval
<1> QED BY <1>1

\* The list names at most MAX_CACHED_FILES files.
LEMMA ListedBound ==
  ASSUME TypeOK, ListBound
  PROVE  /\ IsFiniteSet(Range(lru))
         /\ Cardinality(Range(lru)) <= MaxCachedFiles
<1>1. Len(lru) \in Nat /\ DOMAIN lru = 1..Len(lru) /\ Len(lru) <= MaxCachedFiles
  BY DEF TypeOK, ListBound
<1>2. IsFiniteSet(1..Len(lru)) /\ Cardinality(1..Len(lru)) = Len(lru)
  BY <1>1, UpToBound
<1>3. Range(lru) = {lru[i] : i \in 1..Len(lru)}
  BY <1>1 DEF Range
<1>4. IsFiniteSet(Range(lru)) /\ Cardinality(Range(lru)) <= Len(lru)
  BY <1>1, <1>2, <1>3, ImageBound
<1>5. Cardinality(Range(lru)) \in Nat
  BY <1>4, FS_CardinalityType
<1> QED BY <1>1, <1>4, <1>5, CacheAssumption

LEMMA IInvEvictable == IInv => EveryFileEvictable
  BY DEF IInv, MapBacked, EveryFileEvictable, Touching

LEMMA IInvResident == IInv => ResidentBound
<1> SUFFICES ASSUME IInv PROVE ResidentBound
  OBVIOUS
<1>1. IsFiniteSet(Range(lru)) /\ Cardinality(Range(lru)) <= MaxCachedFiles
  BY ListedBound DEF IInv
<1>2. IsFiniteSet(Touching) /\ Touching \subseteq DOMAIN file
  BY CacheAssumption, FS_Subset DEF Touching, IInv, TypeOK
<1>3. /\ IsFiniteSet({file[w] : w \in Touching})
      /\ Cardinality({file[w] : w \in Touching}) <= Cardinality(Touching)
  BY <1>2, ImageBound
<1>4. DOMAIN map \subseteq Range(lru) \cup {file[w] : w \in Touching}
  BY IInvEvictable DEF EveryFileEvictable
<1>5. /\ IsFiniteSet(DOMAIN map)
      /\ Cardinality(DOMAIN map) <= Cardinality(Range(lru)) + Cardinality({file[w] : w \in Touching})
  BY <1>1, <1>3, <1>4, UnionBound
<1>6. /\ Cardinality(DOMAIN map) \in Nat /\ Cardinality(Range(lru)) \in Nat
      /\ Cardinality(Touching) \in Nat /\ Cardinality({file[w] : w \in Touching}) \in Nat
  BY <1>1, <1>2, <1>3, <1>5, FS_CardinalityType
<1> QED BY <1>1, <1>3, <1>5, <1>6, CacheAssumption DEF ResidentBound

\* A copy that is alive is cached for a file of the list, or in a worker's hand:
\* here MapBacked needs its last conjunct.
LEMMA IInvMemory == IInv => MemoryBound
<1> SUFFICES ASSUME IInv PROVE MemoryBound
  OBVIOUS
<1> DEFINE Listed == Range(lru) \cap DOMAIN map
<1>1. IsFiniteSet(Range(lru)) /\ Cardinality(Range(lru)) <= MaxCachedFiles
  BY ListedBound DEF IInv
<1>2. /\ IsFiniteSet(Listed) /\ Cardinality(Listed) <= Cardinality(Range(lru))
      /\ Listed \subseteq DOMAIN map
  BY <1>1, FS_Subset
<1>3. /\ IsFiniteSet({map[f] : f \in Listed})
      /\ Cardinality({map[f] : f \in Listed}) <= Cardinality(Listed)
  <2> HIDE DEF Listed
  <2> QED BY <1>2, ImageBound
<1>4. DOMAIN held = Worker /\ IsFiniteSet(Worker)
  BY CacheAssumption DEF IInv, TypeOK
<1>5. /\ IsFiniteSet({held[w] : w \in Worker})
      /\ Cardinality({held[w] : w \in Worker}) <= Cardinality(Worker)
  BY <1>4, ImageBound
<1>6. Alive \subseteq {map[f] : f \in Listed} \cup {held[w] : w \in Worker}
  <2>1. Range(held) = {held[w] : w \in Worker}
    BY <1>4 DEF Range
  <2>2. ASSUME NEW f \in DOMAIN map
        PROVE  map[f] \in {map[g] : g \in Listed} \cup {held[w] : w \in Worker}
    <3>1. CASE f \in Range(lru)
      BY <3>1
    <3>2. CASE f \notin Range(lru)
      BY <3>2 DEF IInv, MapBacked
    <3> QED BY <3>1, <3>2
  <2>3. Range(map) \subseteq {map[g] : g \in Listed} \cup {held[w] : w \in Worker}
    BY <2>2 DEF Range
  <2> QED BY <2>1, <2>3 DEF Alive
<1>7. /\ IsFiniteSet(Alive)
      /\ Cardinality(Alive) <= Cardinality({map[f] : f \in Listed})
                                 + Cardinality({held[w] : w \in Worker})
  BY <1>3, <1>5, <1>6, UnionBound
<1>8. /\ Cardinality(Alive) \in Nat /\ Cardinality(Range(lru)) \in Nat
      /\ Cardinality(Listed) \in Nat /\ Cardinality({map[f] : f \in Listed}) \in Nat
      /\ Cardinality(Worker) \in Nat /\ Cardinality({held[w] : w \in Worker}) \in Nat
  BY <1>1, <1>2, <1>3, <1>4, <1>5, <1>7, FS_CardinalityType
<1> HIDE DEF Listed
<1> QED BY <1>1, <1>2, <1>3, <1>5, <1>7, <1>8, CacheAssumption DEF MemoryBound

-----------------------------------------------------------------------------
(* The theorems.                                                           *)

\* No race between block_bytes calls leaves a file in the map that the list
\* does not know and no worker is about to add to it.
THEOREM EvictableHolds == Spec => []EveryFileEvictable
  BY SpecIInv, IInvEvictable, PTL

\* The list is one of files, each worker holds the copy its step calls for, and
\* nothing a worker does outside the two locks breaks that.
THEOREM TypeCorrect == Spec => []TypeOK
<1>1. IInv => TypeOK
  BY DEF IInv
<1> QED BY <1>1, SpecIInv, PTL

\* The map exceeds MAX_CACHED_FILES by at most the workers between their
\* insert and their touch.
THEOREM ResidentBoundHolds == Spec => []ResidentBound
  BY SpecIInv, IInvResident, PTL

\* Decoded files in memory, evicted ones still being read included, are at most
\* MAX_CACHED_FILES plus the number of workers.
THEOREM MemoryBoundHolds == Spec => []MemoryBound
  BY SpecIInv, IInvMemory, PTL

=============================================================================
