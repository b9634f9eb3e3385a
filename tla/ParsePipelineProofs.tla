------------------------ MODULE ParsePipelineProofs ------------------------
(***************************************************************************)
(* The bulk pipeline, for every range, pool, watermark, channel, part      *)
(* length and scenario: no height is lost or delivered twice, the reorder  *)
(* buffer keeps to its bound, and an Ok run leaves complete part files.    *)
(***************************************************************************)
EXTENDS ParsePipeline, FiniteSetTheorems, TLAPS

-----------------------------------------------------------------------------
(* Sequences of distinct heights, and sequences of disjoint leaves.        *)

NoRepeat(s) == \A i, j \in DOMAIN s : s[i] = s[j] => i = j

LeavesApart(d) ==
  /\ \A i \in DOMAIN d : NoRepeat(d[i])
  /\ \A i, j \in DOMAIN d : i # j => Range(d[i]) \cap Range(d[j]) = {}

LEMMA TailFacts ==
  ASSUME NEW S, NEW s \in Seq(S), s # <<>>, NoRepeat(s)
  PROVE  /\ Head(s) \in S /\ Head(s) \in Range(s) /\ Tail(s) \in Seq(S)
         /\ Range(Tail(s)) = Range(s) \ {Head(s)}
         /\ NoRepeat(Tail(s))
<1>1. Len(s) \in Nat \ {0} /\ DOMAIN s = 1..Len(s) /\ Head(s) = s[1]
  OBVIOUS
<1>2. /\ Tail(s) \in Seq(S) /\ DOMAIN Tail(s) = 1..(Len(s) - 1)
      /\ \A i \in 1..(Len(s) - 1) : Tail(s)[i] = s[i + 1]
  BY <1>1
<1>3. Head(s) \in S /\ Head(s) \in Range(s)
  BY <1>1 DEF Range
<1>4. Range(Tail(s)) \subseteq Range(s) \ {Head(s)}
  BY <1>1, <1>2 DEF Range, NoRepeat
<1>5. Range(s) \ {Head(s)} \subseteq Range(Tail(s))
  <2> SUFFICES ASSUME NEW i \in 1..Len(s), i # 1 PROVE s[i] \in Range(Tail(s))
    BY <1>1 DEF Range
  <2>1. i - 1 \in 1..(Len(s) - 1) /\ Tail(s)[i - 1] = s[i]
    BY <1>1, <1>2
  <2> QED BY <1>2, <2>1 DEF Range
<1>6. NoRepeat(Tail(s))
  BY <1>1, <1>2 DEF NoRepeat
<1> QED BY <1>2, <1>3, <1>4, <1>5, <1>6

LEMMA AppendFacts ==
  ASSUME NEW S, NEW s \in Seq(S), NEW e \in S, e \notin Range(s), NoRepeat(s)
  PROVE  /\ Append(s, e) \in Seq(S)
         /\ Range(Append(s, e)) = Range(s) \cup {e}
         /\ NoRepeat(Append(s, e))
<1>1. Len(s) \in Nat /\ DOMAIN s = 1..Len(s)
  OBVIOUS
<1>2. /\ Append(s, e) \in Seq(S) /\ DOMAIN Append(s, e) = 1..(Len(s) + 1)
      /\ \A i \in 1..Len(s) : Append(s, e)[i] = s[i]
      /\ Append(s, e)[Len(s) + 1] = e
  BY <1>1
<1>3. Range(Append(s, e)) = Range(s) \cup {e}
  <2>1. Range(Append(s, e)) \subseteq Range(s) \cup {e}
    BY <1>1, <1>2 DEF Range
  <2>2. Range(s) \subseteq Range(Append(s, e))
    BY <1>1, <1>2 DEF Range
  <2>3. e \in Range(Append(s, e))
    BY <1>1, <1>2 DEF Range
  <2> QED BY <2>1, <2>2, <2>3
<1>4. NoRepeat(Append(s, e))
  BY <1>1, <1>2 DEF NoRepeat, Range
<1> QED BY <1>2, <1>3, <1>4

LEMMA SplitFacts ==
  ASSUME NEW S, NEW s \in Seq(S), NEW m \in 0..Len(s), NoRepeat(s)
  PROVE  LET a == SubSeq(s, 1, m)
             b == SubSeq(s, m + 1, Len(s))
         IN  /\ a \in Seq(S) /\ b \in Seq(S)
             /\ Range(a) \cup Range(b) = Range(s) /\ Range(a) \cap Range(b) = {}
             /\ NoRepeat(a) /\ NoRepeat(b)
<1> DEFINE a == SubSeq(s, 1, m)
           b == SubSeq(s, m + 1, Len(s))
<1>1. Len(s) \in Nat /\ m \in Nat /\ m <= Len(s) /\ DOMAIN s = 1..Len(s)
  OBVIOUS
<1>2. /\ a \in Seq(S) /\ DOMAIN a = 1..m
      /\ \A i \in DOMAIN a : i \in Nat /\ i <= m /\ i \in DOMAIN s /\ a[i] = s[i]
  BY <1>1
<1>3. /\ b \in Seq(S) /\ DOMAIN b = 1..(Len(s) - m)
      /\ \A i \in DOMAIN b : i \in Nat \ {0} /\ i + m \in DOMAIN s /\ b[i] = s[i + m]
  BY <1>1
<1> HIDE DEF a, b
<1>4. Range(a) \subseteq Range(s) /\ Range(b) \subseteq Range(s)
  <2>1. \A i \in DOMAIN b : b[i] \in Range(s)
    BY <1>3 DEF Range
  <2>2. \A i \in DOMAIN a : a[i] \in Range(s)
    BY <1>2 DEF Range
  <2> QED BY <2>1, <2>2 DEF Range
<1>5. Range(s) \subseteq Range(a) \cup Range(b)
  <2> SUFFICES ASSUME NEW i \in 1..Len(s) PROVE s[i] \in Range(a) \cup Range(b)
    BY <1>1 DEF Range
  <2>1. CASE i <= m
    BY <1>1, <1>2, <2>1 DEF Range
  <2>2. CASE i > m
    <3>1. i - m \in 1..(Len(s) - m) /\ b[i - m] = s[i]
      BY <1>1, <1>3, <2>2
    <3> QED BY <1>3, <3>1 DEF Range
  <2> QED BY <1>1, <2>1, <2>2
<1>6. Range(a) \cap Range(b) = {}
  <2> SUFFICES ASSUME NEW i \in DOMAIN a, NEW j \in DOMAIN b, a[i] = b[j] PROVE FALSE
    BY DEF Range
  <2>1. i = j + m
    BY <1>2, <1>3 DEF NoRepeat
  <2> QED BY <1>1, <1>2, <1>3, <2>1
<1>7. NoRepeat(a)
  BY <1>2 DEF NoRepeat
<1>8. NoRepeat(b)
  <2> SUFFICES ASSUME NEW i \in DOMAIN b, NEW j \in DOMAIN b, b[i] = b[j] PROVE i = j
    BY DEF NoRepeat
  <2>1. i + m = j + m
    BY <1>3 DEF NoRepeat
  <2> QED BY <1>1, <1>3, <2>1
<1> QED BY <1>2, <1>3, <1>4, <1>5, <1>6, <1>7, <1>8 DEF a, b

\* A leaf goes on a deque.
LEMMA PushFacts ==
  ASSUME NEW S, NEW d \in Seq(Seq(S)), NEW s \in Seq(S), NoRepeat(s), LeavesApart(d),
         Range(s) \cap Elements(d) = {}
  PROVE  /\ Append(d, s) \in Seq(Seq(S))
         /\ Elements(Append(d, s)) = Elements(d) \cup Range(s)
         /\ LeavesApart(Append(d, s))
<1>1. Len(d) \in Nat /\ DOMAIN d = 1..Len(d)
  OBVIOUS
<1>2. /\ Append(d, s) \in Seq(Seq(S)) /\ DOMAIN Append(d, s) = 1..(Len(d) + 1)
      /\ \A i \in 1..Len(d) : Append(d, s)[i] = d[i]
      /\ Append(d, s)[Len(d) + 1] = s
  BY <1>1
<1>3. \A i \in 1..Len(d) : Range(d[i]) \subseteq Elements(d)
  BY <1>1 DEF Elements
<1>4. Elements(Append(d, s)) = Elements(d) \cup Range(s)
  <2>1. Elements(Append(d, s)) \subseteq Elements(d) \cup Range(s)
    BY <1>1, <1>2 DEF Elements
  <2>2. Elements(d) \subseteq Elements(Append(d, s))
    BY <1>1, <1>2 DEF Elements
  <2>3. Range(s) \subseteq Elements(Append(d, s))
    BY <1>1, <1>2 DEF Elements
  <2> QED BY <2>1, <2>2, <2>3
<1>5. LeavesApart(Append(d, s))
  <2> DEFINE e == Append(d, s)
  <2>1. ASSUME NEW i \in 1..(Len(d) + 1)
        PROVE  NoRepeat(e[i])
    <3>1. CASE i = Len(d) + 1
      BY <1>2, <3>1
    <3>2. CASE i \in 1..Len(d)
      <4>1. e[i] = d[i] /\ NoRepeat(d[i])
        BY <1>1, <1>2, <3>2 DEF LeavesApart
      <4> QED BY <4>1
    <3> QED BY <1>1, <3>1, <3>2
  <2>2. ASSUME NEW i \in 1..(Len(d) + 1), NEW j \in 1..(Len(d) + 1), i # j
        PROVE  Range(e[i]) \cap Range(e[j]) = {}
    <3>1. CASE i \in 1..Len(d) /\ j \in 1..Len(d)
      BY <1>1, <1>2, <2>2, <3>1 DEF LeavesApart
    <3>2. CASE i = Len(d) + 1 /\ j \in 1..Len(d)
      BY <1>2, <1>3, <3>2
    <3>3. CASE i \in 1..Len(d) /\ j = Len(d) + 1
      BY <1>2, <1>3, <3>3
    <3>4. \A k \in 1..(Len(d) + 1) : k \in 1..Len(d) \/ k = Len(d) + 1
      BY <1>1
    <3> QED BY <2>2, <3>1, <3>2, <3>3, <3>4
  <2> QED BY <1>2, <2>1, <2>2 DEF LeavesApart
<1> QED BY <1>2, <1>4, <1>5

\* The newest leaf comes off a deque, or the oldest.
LEMMA TakeFacts ==
  ASSUME NEW T, NEW d \in Seq(T), LeavesApart(d), d # <<>>,
         NEW k, k = 1 \/ k = Len(d), NEW e \in Seq(T),
         Len(e) = Len(d) - 1,
         \A i \in DOMAIN e : e[i] = IF k = 1 THEN d[i + 1] ELSE d[i]
  PROVE  /\ d[k] \in T /\ NoRepeat(d[k])
         /\ Elements(e) \cup Range(d[k]) = Elements(d)
         /\ Elements(e) \cap Range(d[k]) = {}
         /\ LeavesApart(e)
<1> DEFINE from(i) == IF k = 1 THEN i + 1 ELSE i
<1>1. Len(d) \in Nat \ {0} /\ DOMAIN d = 1..Len(d) /\ DOMAIN e = 1..(Len(d) - 1) /\ k \in DOMAIN d
  OBVIOUS
<1>2. \A i \in DOMAIN e : from(i) \in DOMAIN d /\ from(i) # k /\ e[i] = d[from(i)]
  BY <1>1
<1>3. \A j \in DOMAIN d : j = k \/ \E i \in DOMAIN e : from(i) = j
  <2> SUFFICES ASSUME NEW j \in DOMAIN d, j # k PROVE \E i \in DOMAIN e : from(i) = j
    OBVIOUS
  <2>1. CASE k = 1
    <3>1. j - 1 \in DOMAIN e /\ from(j - 1) = j
      BY <1>1, <2>1
    <3> QED BY <3>1
  <2>2. CASE k # 1
    <3>1. j \in DOMAIN e /\ from(j) = j
      BY <1>1, <2>2
    <3> QED BY <3>1
  <2> QED BY <2>1, <2>2
<1>4. \A i, j \in DOMAIN e : i # j => from(i) # from(j)
  BY <1>1
<1> HIDE DEF from
<1>5. d[k] \in T /\ NoRepeat(d[k])
  BY <1>1 DEF LeavesApart
<1>6. Elements(e) \subseteq Elements(d) /\ Range(d[k]) \subseteq Elements(d)
  BY <1>1, <1>2 DEF Elements
<1>7. Elements(d) \subseteq Elements(e) \cup Range(d[k])
  <2> SUFFICES ASSUME NEW j \in DOMAIN d, j # k PROVE Range(d[j]) \subseteq Elements(e)
    BY DEF Elements
  <2>1. PICK i \in DOMAIN e : from(i) = j
    BY <1>3
  <2>2. e[i] = d[j]
    BY <1>2, <2>1
  <2> QED BY <2>2 DEF Elements
<1>8. Elements(e) \cap Range(d[k]) = {}
  <2> SUFFICES ASSUME NEW i \in DOMAIN e PROVE Range(e[i]) \cap Range(d[k]) = {}
    BY DEF Elements
  <2> QED BY <1>1, <1>2 DEF LeavesApart
<1>9. LeavesApart(e)
  <2>1. \A i \in DOMAIN e : NoRepeat(e[i])
    BY <1>2 DEF LeavesApart
  <2>2. \A i, j \in DOMAIN e : i # j => Range(e[i]) \cap Range(e[j]) = {}
    BY <1>2, <1>4 DEF LeavesApart
  <2> QED BY <2>1, <2>2 DEF LeavesApart
<1> QED BY <1>5, <1>6, <1>7, <1>8, <1>9

LEMMA PopFacts ==
  ASSUME NEW T, NEW d \in Seq(T), LeavesApart(d), d # <<>>
  PROVE  /\ Last(d) \in T /\ NoRepeat(Last(d)) /\ Front(d) \in Seq(T)
         /\ Elements(Front(d)) \cup Range(Last(d)) = Elements(d)
         /\ Elements(Front(d)) \cap Range(Last(d)) = {}
         /\ LeavesApart(Front(d))
<1>1. Len(d) \in Nat \ {0}
  OBVIOUS
<1>2. PICK m \in Nat : m = Len(d) - 1
  BY <1>1
<1>3. SubSeq(d, 1, m) \in Seq(T) /\ DOMAIN SubSeq(d, 1, m) = 1..m
      /\ \A i \in 1..m : SubSeq(d, 1, m)[i] = d[i]
  BY <1>1, <1>2
<1>4. Front(d) = SubSeq(d, 1, m)
  BY <1>2 DEF Front
<1>5. Front(d) \in Seq(T) /\ Len(Front(d)) = Len(d) - 1
  BY <1>2, <1>3, <1>4
<1>6. \A i \in DOMAIN Front(d) : Front(d)[i] = IF Len(d) = 1 THEN d[i + 1] ELSE d[i]
  BY <1>1, <1>2, <1>3, <1>4
<1>7. d[Len(d)] = Last(d)
  BY DEF Last
<1> QED BY <1>1, <1>5, <1>6, <1>7, TakeFacts

LEMMA StealFacts ==
  ASSUME NEW T, NEW d \in Seq(T), LeavesApart(d), d # <<>>
  PROVE  /\ Head(d) \in T /\ NoRepeat(Head(d)) /\ Tail(d) \in Seq(T)
         /\ Elements(Tail(d)) \cup Range(Head(d)) = Elements(d)
         /\ Elements(Tail(d)) \cap Range(Head(d)) = {}
         /\ LeavesApart(Tail(d))
<1> DEFINE k == 1
           e == Tail(d)
<1>1. e \in Seq(T) /\ Len(e) = Len(d) - 1
  OBVIOUS
<1>2. \A i \in DOMAIN e : e[i] = d[i + 1]
  OBVIOUS
<1>3. d[k] = Head(d)
  OBVIOUS
<1>4. \A i \in DOMAIN e : e[i] = IF k = 1 THEN d[i + 1] ELSE d[i]
  BY <1>2
<1>5. k = 1 \/ k = Len(d)
  OBVIOUS
<1> HIDE DEF k, e
<1>6. /\ d[k] \in T /\ NoRepeat(d[k])
      /\ Elements(e) \cup Range(d[k]) = Elements(d)
      /\ Elements(e) \cap Range(d[k]) = {}
      /\ LeavesApart(e)
  BY <1>1, <1>4, <1>5, TakeFacts
<1> QED BY <1>1, <1>3, <1>6 DEF e

-----------------------------------------------------------------------------
(* Where the heights are.                                                  *)

Leaf(w) == Range(work[w])
Queued(w) == Elements(deque[w])

InPool == {h \in Heights : \E w \in Worker : h \in Leaf(w) \cup Queued(w)}
InChannel == Range(channel)
Applying == IF cpc = "apply" THEN {next} ELSE {}
Done == Start..(next - 1)
WithConsumer == buffer \cup skipped \cup Applying \cup Done

\* No height is twice in the pool, and a worker past "seek" has one in hand.
PoolType ==
  /\ work \in [Worker -> Seq(Heights)]
  /\ deque \in [Worker -> Seq(Seq(Heights))]
  /\ fresh \subseteq Worker
  /\ wpc \in [Worker -> {"seek", "gate", "send"}]
  /\ pool \in {"running", "failed"}
  /\ \A w \in Worker : wpc[w] # "seek" => work[w] # <<>>

PoolApart ==
  /\ \A w \in Worker : NoRepeat(work[w]) /\ LeavesApart(deque[w])
  /\ \A v, w \in Worker : v # w => Leaf(v) \cap Leaf(w) = {} /\ Queued(v) \cap Queued(w) = {}
  /\ \A v, w \in Worker : Leaf(v) \cap Queued(w) = {}

PoolInv == PoolType /\ PoolApart

ChannelInv ==
  /\ channel \in Seq(Heights)
  /\ Len(channel) <= ChannelDepth
  /\ NoRepeat(channel)

\* What the consumer holds is at or above the height it waits for, and its
\* counter is the size of its buffer as long as it runs.
ConsumerInv ==
  /\ scenario \in Scenarios
  /\ cpc \in {"recv", "skip", "drain", "apply", "ok", "err"}
  /\ buffer \subseteq Heights \ Orphan
  /\ skipped \subseteq Orphan
  /\ next \in Start..End /\ nextHeight = next
  /\ cpc \in {"recv", "skip", "drain", "apply"} => next < End
  /\ cpc = "ok" => next = End
  /\ \A h \in buffer \cup skipped : h >= next
  /\ cpc = "apply" => next \notin buffer \cup skipped \cup Orphan
  /\ cpc = "recv" => next \notin buffer
  /\ depth \in Nat /\ Cardinality(buffer) <= depth
  /\ cpc # "err" => depth = Cardinality(buffer)
  /\ depth <= End - Start

MainInv ==
  /\ main \in {"parse", "join", "ok", "err"}
  /\ watchdog \in {"watching", "tripped"}
  /\ main \in {"join", "ok"} => pool = "running" /\ InPool = {} /\ \A w \in Worker : wpc[w] = "seek"
  /\ main = "ok" => cpc = "ok"

\* Pool, channel and consumer have no height in common.
ApartInv ==
  /\ InPool \cap InChannel = {}
  /\ InPool \cap WithConsumer = {}
  /\ InChannel \cap WithConsumer = {}

\* Until something fails they have all of them.
CoverInv ==
  pool = "running" /\ cpc # "err" => Heights \subseteq InPool \cup InChannel \cup WithConsumer

FlowInv == PoolInv /\ ChannelInv /\ ConsumerInv /\ MainInv /\ ApartInv /\ CoverInv

-----------------------------------------------------------------------------
(* The pool.                                                               *)

\* Heights go from a leaf a to a deque b or back.
LEMMA PoolMove ==
  ASSUME PoolInv, NEW a \in Worker, NEW b \in Worker,
         work' \in [Worker -> Seq(Heights)], deque' \in [Worker -> Seq(Seq(Heights))],
         \A v \in Worker \ {a} : work'[v] = work[v],
         \A v \in Worker \ {b} : deque'[v] = deque[v],
         NoRepeat(work'[a]), LeavesApart(deque'[b]),
         Leaf(a)' \cup Queued(b)' = Leaf(a) \cup Queued(b),
         Leaf(a)' \cap Queued(b)' = {}
  PROVE  PoolApart' /\ InPool' = InPool
<1>1. /\ \A v \in Worker : v # a => Leaf(v)' = Leaf(v) /\ work'[v] = work[v]
      /\ \A v \in Worker : v # b => Queued(v)' = Queued(v) /\ deque'[v] = deque[v]
  BY DEF Leaf, Queued
<1>2. \A w \in Worker : NoRepeat(work[w])' /\ LeavesApart(deque[w])'
  BY <1>1 DEF PoolInv, PoolApart
<1>3. \A v \in Worker : \A h :
        /\ h \in Leaf(v)' => h \in Leaf(v) \/ (v = a /\ h \in Queued(b))
        /\ h \in Queued(v)' => h \in Queued(v) \/ (v = b /\ h \in Leaf(a))
  BY <1>1
<1> DEFINE Twice(v, w, h) == /\ v # w => /\ ~(h \in Leaf(v) /\ h \in Leaf(w))
                                         /\ ~(h \in Queued(v) /\ h \in Queued(w))
                             /\ ~(h \in Leaf(v) /\ h \in Queued(w))
<1>4. \A v, w \in Worker : \A h : Twice(v, w, h)
  BY DEF PoolInv, PoolApart
<1>5. \A v, w \in Worker : \A h : v # w => ~(h \in Leaf(v)' /\ h \in Leaf(w)')
  BY <1>3, <1>4, Zenon
<1>6. \A v, w \in Worker : \A h : v # w => ~(h \in Queued(v)' /\ h \in Queued(w)')
  BY <1>3, <1>4, Zenon
<1>7. \A v, w \in Worker : \A h : ~(h \in Leaf(v)' /\ h \in Queued(w)')
  <2>1. \A h : ~(h \in Leaf(a)' /\ h \in Queued(b)')
    OBVIOUS
  <2> QED BY <1>3, <1>4, <2>1, Zenon
<1>8. PoolApart'
  <2>1. \A v, w \in Worker : v # w => Leaf(v)' \cap Leaf(w)' = {}
    BY <1>5
  <2>2. \A v, w \in Worker : v # w => Queued(v)' \cap Queued(w)' = {}
    BY <1>6
  <2>3. \A v, w \in Worker : Leaf(v)' \cap Queued(w)' = {}
    BY <1>7
  <2> QED BY <1>2, <2>1, <2>2, <2>3 DEF PoolApart
<1>9. InPool' \subseteq InPool
  <2> SUFFICES ASSUME NEW h \in Heights, NEW w \in Worker, h \in Leaf(w)' \cup Queued(w)'
               PROVE  h \in InPool
    BY DEF InPool, Heights
  <2>1. h \in Leaf(w) \cup Queued(w) \cup Leaf(a) \cup Queued(b)
    BY <1>3
  <2> QED BY <2>1 DEF InPool
<1>10. InPool \subseteq InPool'
  <2> SUFFICES ASSUME NEW h \in Heights, NEW w \in Worker, h \in Leaf(w) \cup Queued(w)
               PROVE  \E v \in Worker : h \in Leaf(v)' \cup Queued(v)'
    BY DEF InPool, Heights
  <2>1. h \in Leaf(w)' \cup Queued(w)' \cup Leaf(a)' \cup Queued(b)'
    BY <1>1
  <2> QED BY <2>1
<1> QED BY <1>8, <1>9, <1>10

LEMMA SplitPool ==
  ASSUME PoolInv, NEW w \in Worker, Split(w)
  PROVE  PoolInv' /\ InPool' = InPool
<1> DEFINE n == Len(work[w])
           mid == n \div 2
           kept == SubSeq(work[w], 1, mid)
           given == SubSeq(work[w], mid + 1, n)
<1>1. /\ work' = [work EXCEPT ![w] = kept]
      /\ deque' = [deque EXCEPT ![w] = Append(@, given)]
      /\ wpc[w] = "seek" /\ fresh' = fresh /\ wpc' = wpc /\ pool' = pool
  BY DEF Split
<1>2. n \in Nat /\ n >= 2
  BY DEF Split, PoolInv, PoolType
<1>3. mid \in 0..n
  <2>1. \A k \in Nat : k \div 2 \in 0..k
    OBVIOUS
  <2> QED BY <1>2, <2>1
<1>4. work[w] \in Seq(Heights) /\ NoRepeat(work[w])
  BY DEF PoolInv, PoolType, PoolApart
<1> HIDE DEF mid
<1>5. /\ kept \in Seq(Heights) /\ given \in Seq(Heights)
      /\ Range(kept) \cup Range(given) = Leaf(w) /\ Range(kept) \cap Range(given) = {}
      /\ NoRepeat(kept) /\ NoRepeat(given)
  BY <1>3, <1>4, SplitFacts DEF Leaf
<1> HIDE DEF kept, given
<1>6. Range(given) \cap Queued(w) = {}
  BY <1>5 DEF PoolInv, PoolApart
<1>7. deque[w] \in Seq(Seq(Heights)) /\ LeavesApart(deque[w])
  BY DEF PoolInv, PoolType, PoolApart
<1>8. /\ Append(deque[w], given) \in Seq(Seq(Heights))
      /\ Elements(Append(deque[w], given)) = Queued(w) \cup Range(given)
      /\ LeavesApart(Append(deque[w], given))
  BY <1>5, <1>6, <1>7, PushFacts DEF Queued
<1>9. /\ work' \in [Worker -> Seq(Heights)] /\ deque' \in [Worker -> Seq(Seq(Heights))]
      /\ work'[w] = kept /\ deque'[w] = Append(deque[w], given)
      /\ \A v \in Worker \ {w} : work'[v] = work[v]
      /\ \A v \in Worker \ {w} : deque'[v] = deque[v]
  BY <1>1, <1>5, <1>8 DEF PoolInv, PoolType
<1>10. Leaf(w)' = Range(kept) /\ Queued(w)' = Queued(w) \cup Range(given)
  BY <1>8, <1>9 DEF Leaf, Queued
<1>11. PoolApart' /\ InPool' = InPool
  <2>1. Leaf(w)' \cup Queued(w)' = Leaf(w) \cup Queued(w)
    BY <1>5, <1>10
  <2>2. Leaf(w)' \cap Queued(w)' = {}
    BY <1>5, <1>10 DEF PoolInv, PoolApart
  <2> QED BY <1>5, <1>8, <1>9, <2>1, <2>2, PoolMove
<1>12. PoolType'
  BY <1>1, <1>9 DEF PoolInv, PoolType
<1> QED BY <1>11, <1>12 DEF PoolInv

LEMMA PopPool ==
  ASSUME PoolInv, NEW w \in Worker, Pop(w)
  PROVE  PoolInv' /\ InPool' = InPool
<1>1. /\ work' = [work EXCEPT ![w] = Last(deque[w])]
      /\ deque' = [deque EXCEPT ![w] = Front(@)]
      /\ wpc[w] = "seek" /\ work[w] = <<>> /\ deque[w] # <<>>
      /\ fresh' \subseteq Worker /\ wpc' = wpc /\ pool' = pool
  BY DEF Pop, PoolInv, PoolType
<1>2. deque[w] \in Seq(Seq(Heights)) /\ LeavesApart(deque[w])
  BY DEF PoolInv, PoolType, PoolApart
<1>3. /\ Last(deque[w]) \in Seq(Heights) /\ NoRepeat(Last(deque[w]))
      /\ Front(deque[w]) \in Seq(Seq(Heights))
      /\ Elements(Front(deque[w])) \cup Range(Last(deque[w])) = Elements(deque[w])
      /\ Elements(Front(deque[w])) \cap Range(Last(deque[w])) = {}
      /\ LeavesApart(Front(deque[w]))
  BY <1>1, <1>2, PopFacts
<1>4. /\ work' \in [Worker -> Seq(Heights)] /\ deque' \in [Worker -> Seq(Seq(Heights))]
      /\ work'[w] = Last(deque[w]) /\ deque'[w] = Front(deque[w])
      /\ \A v \in Worker \ {w} : work'[v] = work[v]
      /\ \A v \in Worker \ {w} : deque'[v] = deque[v]
  BY <1>1, <1>3 DEF PoolInv, PoolType
<1>5. Leaf(w) = {}
  BY <1>1 DEF Leaf, Range
<1>6. PoolApart' /\ InPool' = InPool
  <2>1. Leaf(w)' \cup Queued(w)' = Leaf(w) \cup Queued(w) /\ Leaf(w)' \cap Queued(w)' = {}
    BY <1>3, <1>4, <1>5 DEF Leaf, Queued
  <2> QED BY <1>3, <1>4, <2>1, PoolMove
<1>7. PoolType'
  BY <1>1, <1>4 DEF PoolInv, PoolType
<1> QED BY <1>6, <1>7 DEF PoolInv

LEMMA StealPool ==
  ASSUME PoolInv, NEW w \in Worker, Steal(w)
  PROVE  PoolInv' /\ InPool' = InPool
<1>1. PICK v \in Worker \ {w} :
         /\ deque[v] # <<>>
         /\ work' = [work EXCEPT ![w] = Head(deque[v])]
         /\ deque' = [deque EXCEPT ![v] = Tail(@)]
  BY DEF Steal
<1>2. /\ wpc[w] = "seek" /\ work[w] = <<>>
      /\ fresh' \subseteq Worker /\ wpc' = wpc /\ pool' = pool
  BY DEF Steal, PoolInv, PoolType
<1>3. deque[v] \in Seq(Seq(Heights)) /\ LeavesApart(deque[v])
  BY DEF PoolInv, PoolType, PoolApart
<1>4. /\ Head(deque[v]) \in Seq(Heights) /\ NoRepeat(Head(deque[v]))
      /\ Tail(deque[v]) \in Seq(Seq(Heights))
      /\ Elements(Tail(deque[v])) \cup Range(Head(deque[v])) = Elements(deque[v])
      /\ Elements(Tail(deque[v])) \cap Range(Head(deque[v])) = {}
      /\ LeavesApart(Tail(deque[v]))
  BY <1>1, <1>3, StealFacts
<1>5. /\ work' \in [Worker -> Seq(Heights)] /\ deque' \in [Worker -> Seq(Seq(Heights))]
      /\ work'[w] = Head(deque[v]) /\ deque'[v] = Tail(deque[v])
      /\ \A u \in Worker \ {w} : work'[u] = work[u]
      /\ \A u \in Worker \ {v} : deque'[u] = deque[u]
  BY <1>1, <1>4 DEF PoolInv, PoolType
<1>6. Leaf(w) = {}
  BY <1>2 DEF Leaf, Range
<1>7. PoolApart' /\ InPool' = InPool
  <2>1. Leaf(w)' \cup Queued(v)' = Leaf(w) \cup Queued(v) /\ Leaf(w)' \cap Queued(v)' = {}
    BY <1>4, <1>5, <1>6 DEF Leaf, Queued
  <2>2. v \in Worker /\ NoRepeat(work'[w]) /\ LeavesApart(deque'[v])
    BY <1>4, <1>5
  <2>3. /\ work' \in [Worker -> Seq(Heights)] /\ deque' \in [Worker -> Seq(Seq(Heights))]
        /\ \A u \in Worker \ {w} : work'[u] = work[u]
        /\ \A u \in Worker \ {v} : deque'[u] = deque[u]
    BY <1>5
  <2> QED BY <2>1, <2>2, <2>3, PoolMove, Zenon
<1>8. PoolType'
  BY <1>2, <1>5 DEF PoolInv, PoolType
<1> QED BY <1>7, <1>8 DEF PoolInv

\* A leaf loses heights.
LEMMA ShrinkPool ==
  ASSUME PoolInv, NEW a \in Worker, NEW s \in Seq(Heights), NoRepeat(s),
         Range(s) \subseteq Leaf(a), work' = [work EXCEPT ![a] = s], deque' = deque
  PROVE  /\ work' \in [Worker -> Seq(Heights)]
         /\ PoolApart' /\ InPool' = InPool \ (Leaf(a) \ Range(s))
<1>1. /\ work' \in [Worker -> Seq(Heights)] /\ work'[a] = s
      /\ \A v \in Worker \ {a} : work'[v] = work[v]
  BY DEF PoolInv, PoolType
<1>2. /\ Leaf(a)' = Range(s)
      /\ \A v \in Worker : Queued(v)' = Queued(v)
      /\ \A v \in Worker : v # a => Leaf(v)' = Leaf(v)
  BY <1>1 DEF Leaf, Queued
<1>3. \A v \in Worker : Leaf(v)' \subseteq Leaf(v)
  BY <1>2
<1>4. PoolApart'
  <2>1. \A w \in Worker : NoRepeat(work[w])' /\ LeavesApart(deque[w])'
    BY <1>1 DEF PoolInv, PoolApart
  <2>2. \A v, w \in Worker : v # w => Leaf(v)' \cap Leaf(w)' = {} /\ Queued(v)' \cap Queued(w)' = {}
    BY <1>2, <1>3 DEF PoolInv, PoolApart
  <2>3. \A v, w \in Worker : Leaf(v)' \cap Queued(w)' = {}
    BY <1>2, <1>3 DEF PoolInv, PoolApart
  <2> QED BY <2>1, <2>2, <2>3 DEF PoolApart
<1>5. InPool' \subseteq InPool \ (Leaf(a) \ Range(s))
  <2> SUFFICES ASSUME NEW h \in Heights, NEW w \in Worker, h \in Leaf(w)' \cup Queued(w)'
               PROVE  h \in InPool /\ h \notin Leaf(a) \ Range(s)
    BY DEF InPool, Heights
  <2>1. h \in Leaf(w) \cup Queued(w)
    BY <1>2, <1>3
  <2>2. CASE w = a /\ h \in Leaf(a)'
    BY <1>2, <2>1, <2>2 DEF InPool
  <2>3. CASE h \in Queued(w)'
    BY <1>2, <2>1, <2>3 DEF InPool, PoolInv, PoolApart
  <2>4. CASE w # a /\ h \in Leaf(w)'
    BY <1>2, <2>1, <2>4 DEF InPool, PoolInv, PoolApart
  <2> QED BY <2>2, <2>3, <2>4
<1>6. InPool \ (Leaf(a) \ Range(s)) \subseteq InPool'
  <2> SUFFICES ASSUME NEW h \in Heights, NEW w \in Worker, h \in Leaf(w) \cup Queued(w),
                      h \notin Leaf(a) \ Range(s)
               PROVE  \E v \in Worker : h \in Leaf(v)' \cup Queued(v)'
    BY DEF InPool, Heights
  <2>1. h \in Leaf(w)' \cup Queued(w)'
    BY <1>2
  <2> QED BY <2>1
<1> QED BY <1>1, <1>4, <1>5, <1>6

LEMMA SamePool ==
  ASSUME PoolInv, work' = work, deque' = deque
  PROVE  PoolApart' /\ InPool' = InPool
  BY DEF PoolInv, PoolApart, InPool, Leaf, Queued, Heights

\* A step of the pool that sends nothing.
LEMMA PoolStep ==
  ASSUME FlowInv, PoolInv', main = "parse",
         InPool' \subseteq InPool, InPool' = InPool \/ pool' = "failed",
         pool' = pool \/ pool' = "failed",
         UNCHANGED <<scenario, channel, consumerVars, main, watchdog>>
  PROVE  FlowInv'
<1>1. /\ scenario' = scenario /\ channel' = channel /\ main' = main /\ watchdog' = watchdog
      /\ buffer' = buffer /\ skipped' = skipped /\ next' = next /\ depth' = depth
      /\ nextHeight' = nextHeight /\ cpc' = cpc
  BY DEF consumerVars
<1>2. InChannel' = InChannel /\ WithConsumer' = WithConsumer
  BY <1>1 DEF InChannel, WithConsumer, Applying, Done
<1>3. ChannelInv' /\ ConsumerInv'
  BY <1>1 DEF FlowInv, ChannelInv, ConsumerInv, Orphan, Heights
<1>4. MainInv'
  BY <1>1 DEF FlowInv, MainInv
<1>5. ApartInv'
  BY <1>2 DEF FlowInv, ApartInv
<1>6. CoverInv'
  BY <1>1, <1>2 DEF FlowInv, CoverInv, Heights
<1> QED BY <1>3, <1>4, <1>5, <1>6 DEF FlowInv

\* A worker past "seek" holds a height, and the pool is not closed.
LEMMA InHand ==
  ASSUME FlowInv, ~Returned, NEW w \in Worker, wpc[w] # "seek"
  PROVE  /\ main = "parse"
         /\ work[w] \in Seq(Heights) /\ work[w] # <<>> /\ NoRepeat(work[w])
         /\ Head(work[w]) \in Heights /\ Head(work[w]) \in Leaf(w)
         /\ Head(work[w]) \in InPool
<1>1. main = "parse"
  BY DEF FlowInv, MainInv, Returned
<1>2. work[w] \in Seq(Heights) /\ work[w] # <<>> /\ NoRepeat(work[w])
  BY DEF FlowInv, PoolInv, PoolType, PoolApart
<1>3. Head(work[w]) \in Heights /\ Head(work[w]) \in Leaf(w)
  BY <1>2, TailFacts DEF Leaf
<1> QED BY <1>1, <1>2, <1>3 DEF InPool

LEMMA RayonStep ==
  ASSUME FlowInv, NEW w \in Worker, Rayon(w), scenario' = scenario
  PROVE  FlowInv'
<1>1. /\ main = "parse" /\ pool' = pool
      /\ UNCHANGED <<scenario, channel, consumerVars, main, watchdog>>
  BY DEF Rayon, Split, Pop, Steal, Begin, Running
<1>2. PoolInv' /\ InPool' = InPool
  <2>1. CASE Begin(w)
    <3>1. /\ work' = work /\ deque' = deque /\ wpc' = [wpc EXCEPT ![w] = "gate"]
          /\ work[w] # <<>> /\ fresh' \subseteq Worker
      BY <2>1 DEF Begin, FlowInv, PoolInv, PoolType
    <3>2. PoolType'
      BY <1>1, <3>1 DEF FlowInv, PoolInv, PoolType, Heights
    <3> QED BY <3>1, <3>2, SamePool DEF FlowInv, PoolInv
  <2> QED BY <2>1, SplitPool, PopPool, StealPool DEF Rayon, FlowInv
<1> QED BY <1>1, <1>2, PoolStep

LEMMA FailsStep ==
  ASSUME FlowInv, ~Returned, NEW w \in Worker, wpc[w] # "seek", WorkerFails(w),
         scenario' = scenario
  PROVE  FlowInv'
<1>1. /\ pool' = "failed" /\ work' = [work EXCEPT ![w] = <<>>] /\ deque' = deque
      /\ wpc' = [wpc EXCEPT ![w] = "seek"] /\ fresh' = fresh
      /\ UNCHANGED <<scenario, channel, consumerVars, main, watchdog>>
  BY DEF WorkerFails
<1>2. <<>> \in Seq(Heights) /\ NoRepeat(<<>>) /\ Range(<<>>) = {}
  BY DEF NoRepeat, Range
<1>3. PoolInv
  BY DEF FlowInv
<1>4. Range(<<>>) \subseteq Leaf(w)
  BY <1>2
<1>5. work' \in [Worker -> Seq(Heights)] /\ PoolApart' /\ InPool' \subseteq InPool
  BY <1>1, <1>2, <1>3, <1>4, ShrinkPool
<1>6. PoolType'
  BY <1>1, <1>3, <1>5 DEF PoolInv, PoolType, Heights
<1> QED BY <1>1, <1>5, <1>6, InHand, PoolStep DEF PoolInv

LEMMA SendStep ==
  ASSUME FlowInv, ~Returned, NEW w \in Worker, Send(w), scenario' = scenario
  PROVE  FlowInv'
<1> DEFINE h == Head(work[w])
<1>1. /\ wpc[w] = "send" /\ Len(channel) < ChannelDepth
      /\ channel' = Append(channel, h)
      /\ work' = [work EXCEPT ![w] = Tail(work[w])]
      /\ wpc' = [wpc EXCEPT ![w] = "seek"]
      /\ deque' = deque /\ fresh' = fresh /\ pool' = pool /\ main' = main /\ watchdog' = watchdog
      /\ buffer' = buffer /\ skipped' = skipped /\ next' = next /\ depth' = depth
      /\ nextHeight' = nextHeight /\ cpc' = cpc
  BY DEF Send, consumerVars
<1>2. /\ main = "parse" /\ work[w] \in Seq(Heights) /\ work[w] # <<>> /\ NoRepeat(work[w])
      /\ h \in Heights /\ h \in Leaf(w) /\ h \in InPool
  BY <1>1, InHand
<1>3. /\ Tail(work[w]) \in Seq(Heights) /\ NoRepeat(Tail(work[w]))
      /\ Range(Tail(work[w])) = Leaf(w) \ {h}
  BY <1>2, TailFacts DEF Leaf
<1>4. work' \in [Worker -> Seq(Heights)] /\ PoolApart' /\ InPool' = InPool \ {h}
  <2>1. PoolInv /\ Range(Tail(work[w])) \subseteq Leaf(w)
    BY <1>3 DEF FlowInv
  <2>2. Leaf(w) \ Range(Tail(work[w])) = {h}
    BY <1>2, <1>3
  <2>3. /\ work' \in [Worker -> Seq(Heights)]
        /\ PoolApart' /\ InPool' = InPool \ (Leaf(w) \ Range(Tail(work[w])))
    BY <1>1, <1>3, <2>1, ShrinkPool
  <2> QED BY <2>2, <2>3
<1> HIDE DEF h
<1>5. PoolInv'
  BY <1>1, <1>4 DEF FlowInv, PoolInv, PoolType, Heights
<1>6. h \notin InChannel /\ h \notin WithConsumer
  BY <1>2 DEF FlowInv, ApartInv
<1>7. ChannelInv' /\ InChannel' = InChannel \cup {h}
  <2>1. channel \in Seq(Heights) /\ NoRepeat(channel) /\ h \notin Range(channel)
    BY <1>6 DEF FlowInv, ChannelInv, InChannel
  <2>2. /\ channel' \in Seq(Heights) /\ Range(channel') = Range(channel) \cup {h}
        /\ NoRepeat(channel')
    BY <1>1, <1>2, <2>1, AppendFacts
  <2>3. Len(channel') <= ChannelDepth
    BY <1>1, <1>2, <2>1, DepthAssumption
  <2> QED BY <2>2, <2>3 DEF ChannelInv, InChannel, Heights
<1>8. WithConsumer' = WithConsumer
  BY <1>1 DEF WithConsumer, Applying, Done
<1>9. ConsumerInv'
  BY <1>1 DEF FlowInv, ConsumerInv, Orphan, Heights
<1>10. MainInv'
  BY <1>1, <1>2 DEF FlowInv, MainInv
<1>11. ApartInv'
  BY <1>4, <1>6, <1>7, <1>8 DEF FlowInv, ApartInv
<1>12. CoverInv'
  BY <1>1, <1>4, <1>7, <1>8 DEF FlowInv, CoverInv, Heights
<1> QED BY <1>5, <1>7, <1>9, <1>10, <1>11, <1>12 DEF FlowInv

LEMMA WorkerKeepsFlow ==
  ASSUME FlowInv, ~Returned, NEW w \in Worker, WorkerStep(w), scenario' = scenario
  PROVE  FlowInv'
<1>1. CASE Gate(w)
  <2>1. /\ wpc[w] = "gate" /\ wpc' = [wpc EXCEPT ![w] = "send"]
        /\ work' = work /\ deque' = deque /\ fresh' = fresh /\ pool' = pool
        /\ UNCHANGED <<scenario, channel, consumerVars, main, watchdog>>
    BY <1>1 DEF Gate
  <2>2. main = "parse" /\ work[w] # <<>>
    BY <2>1, InHand
  <2>3. PoolInv
    BY DEF FlowInv
  <2>4. PoolApart' /\ InPool' = InPool
    BY <2>1, <2>3, SamePool
  <2>5. PoolType'
    BY <2>1, <2>2, <2>3 DEF PoolInv, PoolType, Heights
  <2>6. PoolInv'
    BY <2>4, <2>5 DEF PoolInv
  <2>7. InPool' \subseteq InPool
    BY <2>4
  <2> QED BY <2>1, <2>2, <2>4, <2>6, <2>7, PoolStep
<1>2. CASE Spin(w)
  BY <1>2 DEF Spin, vars, workerVars, consumerVars, FlowInv, PoolInv, PoolType, PoolApart,
     Leaf, Queued, ChannelInv, ConsumerInv, MainInv, ApartInv, CoverInv, InPool, InChannel,
     WithConsumer, Applying, Done, Orphan, Heights
<1>3. CASE GateAborts(w) \/ ParseFails(w) \/ SendFails(w)
  <2>1. wpc[w] # "seek" /\ WorkerFails(w)
    BY <1>3 DEF GateAborts, ParseFails, SendFails
  <2> QED BY <2>1, FailsStep
<1> QED BY <1>1, <1>2, <1>3, RayonStep, SendStep DEF WorkerStep

-----------------------------------------------------------------------------
(* The consumer.                                                           *)

LEMMA BufferFinite ==
  ASSUME NEW B, B \subseteq Heights
  PROVE  /\ IsFiniteSet(B) /\ Cardinality(B) \in Nat
         /\ Cardinality(B) <= End - Start
<1>1. IsFiniteSet(Heights) /\ Cardinality(Heights) = End - Start
  <2>1. /\ IsFiniteSet(Start..(End - 1))
        /\ Cardinality(Start..(End - 1)) = IF Start > End - 1 THEN 0 ELSE (End - 1) - Start + 1
    BY RangeAssumption, FS_Interval
  <2> QED BY <2>1, RangeAssumption DEF Heights
<1>2. IsFiniteSet(B) /\ Cardinality(B) <= Cardinality(Heights)
  BY <1>1, FS_Subset
<1> QED BY <1>1, <1>2, FS_CardinalityType

LEMMA OrphanFacts ==
  ASSUME scenario \in Scenarios
  PROVE  Orphan \subseteq Heights /\ (Kind # "parse" => Orphan = {})
  BY ScenarioAssumption DEF Scenario, Orphan, Kind, Heights

\* An item comes in: it is ahead of the consumer, and new to it.
LEMMA ReceiveStep ==
  ASSUME FlowInv, ~Returned, cpc = "recv", channel # <<>>,
         channel' = Tail(channel),
         \/ Head(channel) \in Orphan /\ skipped' = skipped \cup {Head(channel)}
              /\ buffer' = buffer /\ depth' = depth
         \/ Head(channel) \notin Orphan /\ buffer' = buffer \cup {Head(channel)}
              /\ depth' = depth + 1 /\ skipped' = skipped,
         cpc' \in {"skip", "drain"},
         UNCHANGED <<scenario, workerVars, next, nextHeight, main, watchdog>>
  PROVE  FlowInv'
<1> DEFINE h == Head(channel)
<1>1. /\ scenario' = scenario /\ work' = work /\ deque' = deque /\ fresh' = fresh
      /\ wpc' = wpc /\ pool' = pool /\ next' = next /\ nextHeight' = nextHeight
      /\ main' = main /\ watchdog' = watchdog
  BY DEF workerVars
<1>2. channel \in Seq(Heights) /\ NoRepeat(channel)
  BY DEF FlowInv, ChannelInv
<1>3. /\ h \in Heights /\ h \in InChannel /\ channel' \in Seq(Heights) /\ NoRepeat(channel')
      /\ InChannel' = InChannel \ {h}
  BY <1>2, TailFacts DEF InChannel
<1>4. Len(channel') <= ChannelDepth
  BY <1>2, DepthAssumption DEF FlowInv, ChannelInv
<1>5. h \notin WithConsumer /\ h \notin InPool
  BY <1>3 DEF FlowInv, ApartInv
<1>6. h \notin buffer /\ h \notin skipped /\ h >= next
  BY <1>3, <1>5, RangeAssumption DEF WithConsumer, Done, Heights, FlowInv, ConsumerInv
<1>7. next < End /\ next \in Nat /\ next \notin buffer /\ Orphan' = Orphan
  BY <1>1, RangeAssumption DEF FlowInv, ConsumerInv, Orphan
<1> HIDE DEF h
<1>8. ConsumerInv'
  <2>1. /\ scenario' \in Scenarios /\ cpc' \in {"recv", "skip", "drain", "apply", "ok", "err"}
        /\ buffer' \subseteq Heights \ Orphan' /\ skipped' \subseteq Orphan'
    BY <1>1, <1>3, <1>7 DEF FlowInv, ConsumerInv, h
  <2>2. \A k \in buffer' \cup skipped' : k >= next'
    BY <1>1, <1>6 DEF FlowInv, ConsumerInv, h
  <2>3. depth' \in Nat /\ depth' = Cardinality(buffer') /\ depth' <= End - Start
    <3>1. depth = Cardinality(buffer) /\ depth \in Nat /\ buffer \subseteq Heights
      BY DEF FlowInv, ConsumerInv
    <3>2. Cardinality(buffer \cup {h}) = Cardinality(buffer) + 1
      BY <1>6, <3>1, BufferFinite, FS_AddElement
    <3>3. Cardinality(buffer') <= End - Start
      BY <2>1, BufferFinite
    <3>4. \/ buffer' = buffer /\ depth' = depth
          \/ buffer' = buffer \cup {h} /\ depth' = depth + 1
      BY DEF h
    <3>5. depth' = Cardinality(buffer')
      BY <3>1, <3>2, <3>4
    <3>6. depth' \in Nat
      BY <3>1, <3>4
    <3> QED BY <3>3, <3>5, <3>6
  <2>4. Cardinality(buffer') <= depth'
    BY <2>3
  <2> QED BY <1>1, <1>7, <2>1, <2>2, <2>3, <2>4 DEF FlowInv, ConsumerInv, Heights
<1>9. PoolInv' /\ InPool' = InPool
  BY <1>1, SamePool DEF FlowInv, PoolInv, PoolType, Heights
<1>10. WithConsumer' = WithConsumer \cup {h}
  BY <1>1 DEF WithConsumer, Applying, Done, h
<1>11. ApartInv'
  BY <1>3, <1>5, <1>9, <1>10 DEF FlowInv, ApartInv
<1>12. CoverInv'
  BY <1>1, <1>3, <1>9, <1>10 DEF FlowInv, CoverInv, Heights
<1>13. MainInv'
  BY <1>1, <1>9 DEF FlowInv, MainInv, Returned
<1>14. ChannelInv'
  BY <1>3, <1>4 DEF ChannelInv, Heights
<1> QED BY <1>8, <1>9, <1>11, <1>12, <1>13, <1>14 DEF FlowInv

\* A step of the consumer alone.
LEMMA ConsumerStep ==
  ASSUME FlowInv, ConsumerInv', cpc \notin {"ok", "err"}, ~Returned,
         WithConsumer' \subseteq WithConsumer, WithConsumer' = WithConsumer \/ cpc' = "err",
         UNCHANGED <<workerVars, channel, main, watchdog>>
  PROVE  FlowInv'
<1>1. /\ work' = work /\ deque' = deque /\ fresh' = fresh
      /\ wpc' = wpc /\ pool' = pool /\ channel' = channel
      /\ main' = main /\ watchdog' = watchdog
  BY DEF workerVars
<1>2. PoolInv' /\ InPool' = InPool
  BY <1>1, SamePool DEF FlowInv, PoolInv, PoolType, Heights
<1>3. ChannelInv' /\ InChannel' = InChannel
  BY <1>1 DEF FlowInv, ChannelInv, InChannel, Heights
<1>4. ApartInv'
  BY <1>2, <1>3 DEF FlowInv, ApartInv
<1>5. CoverInv'
  BY <1>1, <1>2, <1>3 DEF FlowInv, CoverInv, Heights
<1>6. MainInv'
  BY <1>1, <1>2 DEF FlowInv, MainInv, Returned
<1> QED BY <1>2, <1>3, <1>4, <1>5, <1>6 DEF FlowInv

\* The height the consumer waits for is behind it now.
LEMMA NextStep ==
  ASSUME FlowInv, ~Returned, next < End,
         \/ cpc = "apply" /\ skipped' = skipped /\ cpc' = IF next + 1 >= End THEN "ok" ELSE "drain"
         \/ cpc = "skip" /\ next \in skipped /\ skipped' = skipped \ {next}
              /\ cpc' = IF next + 1 >= End THEN "ok" ELSE "skip",
         next' = next + 1, nextHeight' = next + 1, buffer' = buffer, depth' = depth,
         UNCHANGED <<scenario, workerVars, channel, main, watchdog>>
  PROVE  FlowInv'
<1>1. next \in Nat /\ next >= Start /\ End \in Nat /\ Start \in Nat
  BY RangeAssumption DEF FlowInv, ConsumerInv
<1>2. scenario' = scenario /\ Orphan' = Orphan
  BY DEF Orphan
<1>3. next \notin buffer
  BY DEF FlowInv, ConsumerInv
<1>4. \A h \in buffer \cup skipped : h \in Nat /\ h >= next
  <2>1. \A h \in Heights : h \in Nat
    BY RangeAssumption DEF Heights
  <2> QED BY <2>1, OrphanFacts DEF FlowInv, ConsumerInv
<1>5. next \notin skipped'
  BY DEF FlowInv, ConsumerInv
<1>6. ConsumerInv'
  <2>1. \A h \in buffer' \cup skipped' : h >= next'
    BY <1>1, <1>3, <1>4, <1>5
  <2>2. /\ scenario' \in Scenarios /\ cpc' \in {"recv", "skip", "drain", "apply", "ok", "err"}
        /\ buffer' \subseteq Heights \ Orphan' /\ skipped' \subseteq Orphan'
    BY <1>2 DEF FlowInv, ConsumerInv
  <2>3. /\ next' \in Start..End /\ nextHeight' = next'
        /\ cpc' \in {"recv", "skip", "drain", "apply"} => next' < End
        /\ cpc' = "ok" => next' = End
    BY <1>1
  <2>4. cpc # "err" /\ cpc' \notin {"apply", "recv", "err"}
    OBVIOUS
  <2>5. /\ depth' \in Nat /\ Cardinality(buffer') <= depth' /\ depth' = Cardinality(buffer')
        /\ depth' <= End - Start
    BY <2>4 DEF FlowInv, ConsumerInv
  <2> QED BY <2>1, <2>2, <2>3, <2>4, <2>5 DEF ConsumerInv, Heights
<1>7. Done' = Done \cup {next}
  BY <1>1 DEF Done
<1>8. WithConsumer' = WithConsumer
  BY <1>7 DEF WithConsumer, Applying
<1> QED BY <1>6, <1>8, ConsumerStep

\* The block the consumer waits for leaves its buffer.
LEMMA TakeStep ==
  ASSUME FlowInv, ~Returned, cpc = "drain", next \in buffer,
         buffer' = buffer \ {next},
         \/ cpc' \in {"apply", "err"} /\ depth' = depth - 1
         \/ cpc' = "err" /\ depth' = depth,
         UNCHANGED <<scenario, workerVars, channel, skipped, next, nextHeight, main, watchdog>>
  PROVE  FlowInv'
<1>1. scenario' = scenario /\ Orphan' = Orphan /\ skipped' = skipped /\ next' = next
      /\ nextHeight' = nextHeight
  BY DEF Orphan
<1>2. buffer \subseteq Heights \ Orphan /\ skipped \subseteq Orphan /\ depth = Cardinality(buffer)
      /\ depth \in Nat /\ depth <= End - Start /\ next < End
  BY DEF FlowInv, ConsumerInv
<1>3. Cardinality(buffer') = depth - 1
  BY <1>2, BufferFinite, FS_RemoveElement
<1>4. Cardinality(buffer') \in Nat
  BY <1>2, BufferFinite
<1>5. ConsumerInv'
  <2>1. /\ scenario' \in Scenarios /\ cpc' \in {"recv", "skip", "drain", "apply", "ok", "err"}
        /\ buffer' \subseteq Heights \ Orphan' /\ skipped' \subseteq Orphan'
        /\ next' \in Start..End /\ nextHeight' = next' /\ next' < End
        /\ \A h \in buffer' \cup skipped' : h >= next'
    BY <1>1, <1>2 DEF FlowInv, ConsumerInv
  <2>2. next' \notin buffer' \cup skipped' \cup Orphan'
    BY <1>1, <1>2
  <2>3. depth' \in Nat /\ Cardinality(buffer') <= depth' /\ depth' <= End - Start
    BY <1>2, <1>3, <1>4, RangeAssumption
  <2>4. cpc' # "err" => depth' = Cardinality(buffer')
    BY <1>3
  <2> QED BY <2>1, <2>2, <2>3, <2>4 DEF ConsumerInv, Heights
<1>6. WithConsumer' \subseteq WithConsumer /\ (WithConsumer' = WithConsumer \/ cpc' = "err")
  BY <1>1 DEF WithConsumer, Applying, Done
<1> QED BY <1>5, <1>6, ConsumerStep

\* The consumer turns to its next loop, or gives up.
LEMMA TurnStep ==
  ASSUME FlowInv, ~Returned, cpc \notin {"ok", "err"},
         \/ cpc = "skip" /\ cpc' = "drain"
         \/ cpc = "drain" /\ cpc' = "recv" /\ next \notin buffer
         \/ cpc' = "err",
         UNCHANGED <<scenario, workerVars, channel, buffer, skipped, next, depth, nextHeight,
                     main, watchdog>>
  PROVE  FlowInv'
<1>1. scenario' = scenario /\ Orphan' = Orphan /\ buffer' = buffer /\ skipped' = skipped
      /\ next' = next /\ depth' = depth /\ nextHeight' = nextHeight
  BY DEF Orphan
<1>2. ConsumerInv'
  BY <1>1 DEF FlowInv, ConsumerInv, Heights
<1>3. WithConsumer' \subseteq WithConsumer /\ (WithConsumer' = WithConsumer \/ cpc' = "err")
  BY <1>1 DEF WithConsumer, Applying, Done
<1> QED BY <1>2, <1>3, ConsumerStep

\* The consumer gives up at a stale height.
LEMMA SkipFailsStep ==
  ASSUME FlowInv, ~Returned, SkipFails, scenario' = scenario
  PROVE  FlowInv'
<1>1. /\ next \in Nat /\ next >= Start /\ End \in Nat /\ Start \in Nat /\ next < End
      /\ cpc = "skip" /\ next \in skipped
  BY RangeAssumption DEF FlowInv, ConsumerInv, SkipFails
<1>2. /\ scenario' = scenario /\ Orphan' = Orphan /\ skipped' = skipped \ {next} /\ cpc' = "err"
      /\ buffer' = buffer /\ depth' = depth
      /\ \/ next' = next /\ nextHeight' = nextHeight
         \/ next' = next + 1 /\ nextHeight' = next + 1
      /\ UNCHANGED <<workerVars, channel, main, watchdog>>
  BY DEF Orphan, SkipFails
<1>3. next \notin buffer
  BY <1>1 DEF FlowInv, ConsumerInv
<1>4. \A h \in buffer \cup skipped : h \in Nat /\ h >= next
  <2>1. \A h \in Heights : h \in Nat
    BY RangeAssumption DEF Heights
  <2> QED BY <2>1, OrphanFacts DEF FlowInv, ConsumerInv
<1>5. ConsumerInv'
  <2>1. \A h \in buffer' \cup skipped' : h >= next'
    BY <1>1, <1>2, <1>3, <1>4
  <2>2. /\ scenario' \in Scenarios /\ cpc' \in {"recv", "skip", "drain", "apply", "ok", "err"}
        /\ buffer' \subseteq Heights \ Orphan' /\ skipped' \subseteq Orphan'
    BY <1>2 DEF FlowInv, ConsumerInv
  <2>3. next' \in Start..End /\ nextHeight' = next'
    BY <1>1, <1>2 DEF FlowInv, ConsumerInv
  <2>4. depth' \in Nat /\ Cardinality(buffer') <= depth' /\ depth' <= End - Start
    BY <1>2 DEF FlowInv, ConsumerInv
  <2> QED BY <1>2, <2>1, <2>2, <2>3, <2>4 DEF ConsumerInv, Heights
<1>6. Done' \subseteq Done \cup {next}
  BY <1>1, <1>2 DEF Done
<1>7. WithConsumer' \subseteq WithConsumer
  BY <1>1, <1>2, <1>6 DEF WithConsumer, Applying
<1> QED BY <1>1, <1>2, <1>5, <1>7, ConsumerStep

LEMMA ConsumerKeepsFlow ==
  ASSUME FlowInv, ~Returned, Consumer, scenario' = scenario
  PROVE  FlowInv'
<1>1. cpc \in {"recv", "skip", "drain", "apply"} => next < End
  BY DEF FlowInv, ConsumerInv
<1>2. CASE Recv \/ (Kind # "parse" /\ BenchRecv)
  <2>1. Kind # "parse" => Orphan = {}
    BY OrphanFacts DEF FlowInv, ConsumerInv
  <2> QED BY <1>2, <2>1, ReceiveStep DEF Recv, BenchRecv
<1>3. CASE SkipOne
  <2>1. CASE next \in skipped
    BY <1>1, <1>3, <2>1, NextStep DEF SkipOne, NextAfter
  <2>2. CASE next \notin skipped
    BY <1>3, <2>2, TurnStep DEF SkipOne
  <2> QED BY <2>1, <2>2
<1>4. CASE Drain \/ BenchDrain
  <2>1. CASE next \in buffer
    BY <1>4, <2>1, TakeStep DEF Drain, BenchDrain
  <2>2. CASE next \notin buffer
    BY <1>4, <2>2, TurnStep DEF Drain, BenchDrain
  <2> QED BY <2>1, <2>2
<1>5. CASE ApplyOne \/ ApplyWithoutSink
  BY <1>1, <1>5, NextStep DEF ApplyOne, ApplyWithoutSink, NextAfter
<1>6. CASE CreateFails \/ ApplyFails \/ ClosedEarly
  BY <1>6, TurnStep DEF CreateFails, ApplyFails, ClosedEarly
<1>7. CASE SkipFails
  BY <1>7, SkipFailsStep
<1> QED BY <1>2, <1>3, <1>4, <1>5, <1>6, <1>7 DEF Consumer, ParseConsumer, BenchConsumer, Apply

LEMMA MainKeepsFlow ==
  ASSUME FlowInv, ~Returned, Main \/ Trip, scenario' = scenario
  PROVE  FlowInv'
<1>1. /\ scenario' = scenario /\ work' = work /\ deque' = deque /\ fresh' = fresh
      /\ wpc' = wpc /\ pool' = pool /\ channel' = channel
      /\ buffer' = buffer /\ skipped' = skipped /\ next' = next /\ depth' = depth
      /\ nextHeight' = nextHeight /\ cpc' = cpc
  BY DEF Main, CloseChannel, Join, Trip, workerVars, consumerVars
<1>2. PoolInv' /\ InPool' = InPool
  BY <1>1, SamePool DEF FlowInv, PoolInv, PoolType, Heights
<1>3. InChannel' = InChannel /\ WithConsumer' = WithConsumer
  BY <1>1 DEF InChannel, WithConsumer, Applying, Done
<1>4. ChannelInv' /\ ConsumerInv' /\ ApartInv' /\ CoverInv'
  BY <1>1, <1>2, <1>3 DEF FlowInv, ChannelInv, ConsumerInv, ApartInv, CoverInv, Orphan, Heights
<1>5. MainInv'
  <2>1. CASE CloseChannel
    <3>1. pool = "running" => InPool = {}
      <4> SUFFICES ASSUME pool = "running", NEW w \in Worker
                   PROVE  Leaf(w) = {} /\ Queued(w) = {}
        BY DEF InPool
      <4>1. work[w] = <<>> /\ deque[w] = <<>>
        BY <2>1 DEF CloseChannel, PoolDone
      <4> QED BY <4>1 DEF Leaf, Queued, Range, Elements
    <3>2. \A w \in Worker : wpc[w] = "seek"
      BY <2>1 DEF CloseChannel, PoolDone
    <3>3. main' = (IF pool = "failed" THEN "err" ELSE "join") /\ watchdog' = watchdog
      BY <2>1 DEF CloseChannel
    <3> QED BY <1>1, <1>2, <3>1, <3>2, <3>3 DEF FlowInv, PoolInv, PoolType, MainInv
  <2>2. CASE Join
    BY <1>1, <1>2, <2>2 DEF Join, FlowInv, MainInv
  <2>3. CASE Trip
    BY <1>1, <1>2, <2>3 DEF Trip, FlowInv, MainInv
  <2> QED BY <2>1, <2>2, <2>3 DEF Main
<1> QED BY <1>2, <1>4, <1>5 DEF FlowInv

-----------------------------------------------------------------------------
(* The pipeline.                                                           *)

LEMMA FlowInit == Init => FlowInv
<1> SUFFICES ASSUME Init PROVE FlowInv
  OBVIOUS
<1> DEFINE all == [i \in 1..(End - Start) |-> Start + i - 1]
<1>1. PICK w \in Worker :
        /\ work = [v \in Worker |-> IF v = w THEN all ELSE <<>>]
        /\ fresh = {w} /\ wpc = [v \in Worker |-> "seek"]
  BY DEF Init
<1>2. /\ all \in Seq(Heights) /\ Range(all) = Heights /\ NoRepeat(all)
  <2>1. End - Start \in Nat /\ Start \in Nat /\ End \in Nat
    BY RangeAssumption
  <2>2. DOMAIN all = 1..(End - Start) /\ \A i \in 1..(End - Start) : all[i] = Start + i - 1
    OBVIOUS
  <2>3. all \in Seq(Heights)
    BY <2>1 DEF Heights
  <2> HIDE DEF all
  <2>4. NoRepeat(all)
    BY <2>1, <2>2 DEF NoRepeat
  <2>5. Range(all) \subseteq Heights
    BY <2>1, <2>2 DEF Range, Heights
  <2>6. Heights \subseteq Range(all)
    <3> SUFFICES ASSUME NEW h \in Heights PROVE h \in Range(all)
      OBVIOUS
    <3>1. h - Start + 1 \in 1..(End - Start) /\ all[h - Start + 1] = h
      BY <2>1, <2>2 DEF Heights
    <3> QED BY <2>2, <3>1 DEF Range
  <2> QED BY <2>3, <2>4, <2>5, <2>6
<1> HIDE DEF all
<1>3. /\ scenario \in Scenarios /\ deque = [v \in Worker |-> <<>>] /\ pool = "running"
      /\ channel = <<>> /\ buffer = {} /\ skipped = {} /\ next = Start /\ nextHeight = Start
      /\ depth = 0 /\ cpc = "recv" /\ main = "parse" /\ watchdog = "watching"
  BY DEF Init
<1>4. NoRepeat(<<>>) /\ Range(<<>>) = {} /\ Elements(<<>>) = {} /\ LeavesApart(<<>>)
  BY DEF NoRepeat, Range, Elements, LeavesApart
<1>5. /\ Leaf(w) = Heights /\ \A v \in Worker : v # w => Leaf(v) = {}
      /\ \A v \in Worker : Queued(v) = {}
  BY <1>1, <1>2, <1>3, <1>4 DEF Leaf, Queued
<1>6. PoolType
  BY <1>1, <1>2, <1>3 DEF PoolType
<1>7. PoolApart
  BY <1>1, <1>2, <1>3, <1>4, <1>5 DEF PoolApart
<1>8. InPool = Heights
  BY <1>5 DEF InPool
<1>9. InChannel = {} /\ WithConsumer = {}
  <2>1. \A n \in Nat : n..(n - 1) = {}
    OBVIOUS
  <2> QED BY <1>3, <1>4, <2>1, RangeAssumption DEF InChannel, WithConsumer, Applying, Done
<1>10. ChannelInv
  BY <1>3, <1>4, DepthAssumption DEF ChannelInv
<1>11. ConsumerInv
  BY <1>3, RangeAssumption, FS_EmptySet DEF ConsumerInv
<1>12. MainInv /\ ApartInv /\ CoverInv
  BY <1>3, <1>8, <1>9 DEF MainInv, ApartInv, CoverInv
<1> QED BY <1>6, <1>7, <1>10, <1>11, <1>12 DEF FlowInv, PoolInv

LEMMA FlowStep == FlowInv /\ [Next]_vars => FlowInv'
<1> SUFFICES ASSUME FlowInv, [Next]_vars PROVE FlowInv'
  OBVIOUS
<1>1. CASE UNCHANGED vars
  BY <1>1 DEF vars, workerVars, consumerVars, FlowInv, PoolInv, PoolType, PoolApart,
     Leaf, Queued, ChannelInv, ConsumerInv, MainInv, ApartInv, CoverInv, InPool, InChannel,
     WithConsumer, Applying, Done, Orphan, Heights
<1>2. CASE /\ ~Returned /\ scenario' = scenario
           /\ (\E w \in Worker : WorkerStep(w)) \/ Consumer \/ Main \/ Trip
  BY <1>2, WorkerKeepsFlow, ConsumerKeepsFlow, MainKeepsFlow
<1> QED BY <1>1, <1>2 DEF Next

LEMMA FlowHolds == Spec => []FlowInv
  BY FlowInit, FlowStep, PTL DEF Spec

\* Until something fails, Rayon's splitting and stealing, the bounded channel
\* and the reorder buffer neither lose a height nor deliver one twice, whatever
\* the range and however many workers there are.
THEOREM EachHeightOnceHolds == Spec => []EachHeightOnce
<1>1. FlowInv => EachHeightOnce
  <2> SUFFICES ASSUME FlowInv, pool = "running", cpc # "err", NEW h \in Heights
               PROVE  Cardinality(Places(h)) = 1
    BY DEF EachHeightOnce
  <2> DEFINE OneOf(p) == Places(h) = {p}
  <2>1. \A p : OneOf(p) => Cardinality(Places(h)) = 1
    BY FS_Singleton
  <2>2. h \in InPool \cup InChannel \cup WithConsumer
    BY DEF FlowInv, CoverInv
  <2>3. h \in Nat /\ next \in Nat /\ Start \in Nat /\ h >= Start /\ (h < next <=> h \in Done)
    BY RangeAssumption DEF Heights, FlowInv, ConsumerInv, Done
  <2>4. CASE h \in InPool
    <3>1. PICK w \in Worker : h \in Leaf(w) \cup Queued(w)
      BY <2>4 DEF InPool
    <3>2. h \notin InChannel /\ h \notin WithConsumer
      BY <2>4 DEF FlowInv, ApartInv
    <3>3. CASE h \in Leaf(w)
      <4>1. \A v \in Worker : (h \in Leaf(v) <=> v = w) /\ h \notin Queued(v)
        BY <3>3 DEF FlowInv, PoolInv, PoolApart
      <4>2. Places(h) = {<<"work", w>>}
        BY <2>3, <3>2, <4>1 DEF Places, Leaf, Queued, InChannel, WithConsumer, Applying
      <4> QED BY <2>1, <4>2
    <3>4. CASE h \in Queued(w)
      <4>1. \A v \in Worker : (h \in Queued(v) <=> v = w) /\ h \notin Leaf(v)
        BY <3>4 DEF FlowInv, PoolInv, PoolApart
      <4>2. Places(h) = {<<"deque", w>>}
        BY <2>3, <3>2, <4>1 DEF Places, Leaf, Queued, InChannel, WithConsumer, Applying
      <4> QED BY <2>1, <4>2
    <3> QED BY <3>1, <3>3, <3>4
  <2>5. CASE h \notin InPool
    <3>1. \A v \in Worker : h \notin Leaf(v) /\ h \notin Queued(v)
      BY <2>5 DEF InPool
    <3>2. CASE h \in InChannel
      <4>1. h \notin WithConsumer
        BY <3>2 DEF FlowInv, ApartInv
      <4>2. Places(h) = {<<"channel">>}
        BY <2>3, <3>1, <3>2, <4>1 DEF Places, Leaf, Queued, InChannel, WithConsumer, Applying
      <4> QED BY <2>1, <4>2
    <3>3. CASE h \notin InChannel
      <4>1. h \in WithConsumer
        BY <2>2, <2>5, <3>3
      <4>2. /\ buffer \cap skipped = {}
            /\ \A k \in buffer \cup skipped : k >= next
            /\ cpc = "apply" => next \notin buffer \cup skipped
        BY DEF FlowInv, ConsumerInv
      <4>3. CASE h \in buffer
        <5>1. h \notin skipped /\ ~(h < next) /\ ~(cpc = "apply" /\ h = next)
          BY <2>3, <4>2, <4>3
        <5>2. Places(h) = {<<"buffer">>}
          BY <3>1, <3>3, <4>3, <5>1 DEF Places, Leaf, Queued, InChannel
        <5> QED BY <2>1, <5>2
      <4>4. CASE h \in skipped
        <5>1. h \notin buffer /\ ~(h < next) /\ ~(cpc = "apply" /\ h = next)
          BY <2>3, <4>2, <4>4
        <5>2. Places(h) = {<<"skipped">>}
          BY <3>1, <3>3, <4>4, <5>1 DEF Places, Leaf, Queued, InChannel
        <5> QED BY <2>1, <5>2
      <4>5. CASE cpc = "apply" /\ h = next
        <5>1. h \notin buffer /\ h \notin skipped /\ ~(h < next)
          BY <2>3, <4>2, <4>5
        <5>2. Places(h) = {<<"apply">>}
          BY <3>1, <3>3, <4>5, <5>1 DEF Places, Leaf, Queued, InChannel
        <5> QED BY <2>1, <5>2
      <4>6. CASE h < next
        <5>1. h \notin buffer /\ h \notin skipped /\ ~(cpc = "apply" /\ h = next)
          BY <2>3, <4>2, <4>6
        <5>2. Places(h) = {<<"done">>}
          BY <3>1, <3>3, <4>6, <5>1 DEF Places, Leaf, Queued, InChannel
        <5> QED BY <2>1, <5>2
      <4>7. h \in buffer \/ h \in skipped \/ (cpc = "apply" /\ h = next) \/ h < next
        BY <2>3, <4>1 DEF WithConsumer, Applying
      <4> QED BY <4>3, <4>4, <4>5, <4>6, <4>7
    <3> QED BY <3>2, <3>3
  <2> QED BY <2>4, <2>5
<1> QED BY <1>1, FlowHolds, PTL

-----------------------------------------------------------------------------
(* Failing.                                                                *)

\* Without a stale block or a fault, only the watchdog stops a worker or the
\* consumer.
PlainInv == Plain => /\ pool = "failed" => watchdog = "tripped"
                     /\ cpc = "err" => watchdog = "tripped"
                     /\ main = "err" => watchdog = "tripped"

LEMMA PlainWorker ==
  ASSUME FlowInv, PlainInv, ~Returned, NEW w \in Worker, WorkerStep(w), scenario' = scenario
  PROVE  PlainInv'
<1>1. cpc' = cpc /\ watchdog' = watchdog /\ main' = main /\ Plain' = Plain
  BY DEF WorkerStep, Rayon, Split, Pop, Steal, Begin, Gate, Spin, GateAborts, ParseFails, Send,
         SendFails, WorkerFails, consumerVars, vars, Plain, Orphan, Faults
<1>2. CASE pool' = pool
  BY <1>1, <1>2 DEF PlainInv
<1>3. CASE GateAborts(w)
  BY <1>1, <1>3 DEF GateAborts, PlainInv
<1>4. CASE ParseFails(w) /\ Plain
  BY <1>4 DEF ParseFails, Plain
<1>5. CASE SendFails(w) /\ Plain
  <2>1. Head(work[w]) \in InPool /\ Head(work[w]) \in Heights
    BY <1>5, InHand DEF SendFails
  <2>2. cpc # "ok"
    <3> SUFFICES ASSUME cpc = "ok" PROVE FALSE
      OBVIOUS
    <3>1. Done = Heights
      BY DEF FlowInv, ConsumerInv, Done, Heights
    <3> QED BY <2>1, <3>1 DEF FlowInv, ApartInv, WithConsumer
  <2>3. watchdog = "tripped"
    BY <1>5, <2>2 DEF SendFails, ReceiverGone, PlainInv
  <2> QED BY <1>1, <2>3 DEF PlainInv
<1>6. pool' = pool \/ GateAborts(w) \/ ParseFails(w) \/ SendFails(w)
  BY DEF WorkerStep, Rayon, Split, Pop, Steal, Begin, Gate, Spin, Send, vars, workerVars
<1> QED BY <1>1, <1>2, <1>3, <1>4, <1>5, <1>6 DEF PlainInv

LEMMA PlainConsumer ==
  ASSUME FlowInv, PlainInv, ~Returned, Consumer, scenario' = scenario
  PROVE  PlainInv'
<1>1. /\ watchdog' = watchdog /\ main' = main /\ pool' = pool /\ Plain' = Plain
  BY DEF Consumer, ParseConsumer, BenchConsumer, Apply, Recv, BenchRecv, SkipOne, Drain,
         BenchDrain, ApplyOne, ApplyWithoutSink, CreateFails, SkipFails, ApplyFails, ClosedEarly,
         workerVars,
         Plain, Orphan, Faults
<1>2. SUFFICES ASSUME Plain, cpc' = "err", cpc # "err" PROVE watchdog = "tripped"
  BY <1>1 DEF PlainInv
<1>3. CASE Drain \/ BenchDrain
  BY <1>2, <1>3 DEF Drain, BenchDrain
<1>4. CASE CreateFails \/ SkipFails \/ ApplyFails
  BY <1>2, <1>4 DEF CreateFails, SkipFails, ApplyFails, Plain
<1>5. CASE ClosedEarly
  <2>1. main = "join" /\ channel = <<>> /\ cpc = "recv"
    BY <1>5 DEF ClosedEarly
  <2>2. InPool = {} /\ pool = "running"
    BY <2>1 DEF FlowInv, MainInv
  <2>3. InChannel = {}
    BY <2>1 DEF InChannel, Range
  <2>4. next \in Heights /\ next \notin buffer /\ skipped = {} /\ next \notin Done
    BY <1>2, <2>1, RangeAssumption DEF FlowInv, ConsumerInv, Heights, Plain, Done
  <2>5. next \in WithConsumer
    BY <1>2, <2>2, <2>3, <2>4 DEF FlowInv, CoverInv
  <2> QED BY <2>1, <2>4, <2>5 DEF WithConsumer, Applying
<1>6. CASE Recv \/ BenchRecv \/ SkipOne \/ ApplyOne \/ ApplyWithoutSink
  BY <1>2, <1>6 DEF Recv, BenchRecv, SkipOne, ApplyOne, ApplyWithoutSink, NextAfter
<1> QED BY <1>3, <1>4, <1>5, <1>6 DEF Consumer, ParseConsumer, BenchConsumer, Apply

LEMMA PlainStep == FlowInv /\ PlainInv /\ [Next]_vars => PlainInv'
<1> SUFFICES ASSUME FlowInv, PlainInv, [Next]_vars PROVE PlainInv'
  OBVIOUS
<1>1. CASE UNCHANGED vars
  BY <1>1 DEF vars, workerVars, consumerVars, PlainInv, Plain, Orphan, Faults
<1>2. CASE ~Returned /\ scenario' = scenario /\ (Main \/ Trip)
  BY <1>2 DEF Main, CloseChannel, Join, Trip, workerVars, consumerVars, PlainInv, Plain,
     Orphan, Faults
<1>3. CASE /\ ~Returned /\ scenario' = scenario
           /\ (\E w \in Worker : WorkerStep(w)) \/ Consumer
  BY <1>3, PlainWorker, PlainConsumer
<1> QED BY <1>1, <1>2, <1>3 DEF Next

\* Without a stale block or a fault, parse and bench fail only because the
\* watchdog aborted them: the consumer neither finds the channel closed before
\* the range is complete, nor is gone while a worker still has a block to send.
THEOREM FailsOnlyIfTrippedHolds == Spec => []FailsOnlyIfTripped
<1>1. Init => PlainInv
  BY DEF Init, PlainInv
<1>2. PlainInv => FailsOnlyIfTripped
  BY DEF PlainInv, FailsOnlyIfTripped
<1> QED BY <1>1, <1>2, PlainStep, FlowHolds, PTL DEF Spec

-----------------------------------------------------------------------------
(* Part files.                                                             *)

\* The heights of part p the consumer has applied.
Applied(p) == {h \in Done \ Orphan : PartOf(h) = p}

\* The open sink and the finished files together have the applied heights, each
\* in its part; the parts behind the open one are finished.
RowsInv ==
  /\ part \in Nat /\ part <= PartOf(next)
  /\ rows \subseteq Heights
  /\ files \in [DOMAIN files -> SUBSET Heights] /\ DOMAIN files \subseteq Nat
  /\ ~NeedsSink => rows = {} /\ DOMAIN files = {}
  /\ NeedsSink => rows = Applied(part)
  /\ \A p \in DOMAIN files : files[p] = Applied(p)
  /\ NeedsSink => \A h \in Done \ Orphan :
                    PartOf(h) <= part /\ (PartOf(h) # part => PartOf(h) \in DOMAIN files)
  /\ cpc \notin {"ok", "err"} => \A p \in DOMAIN files : p < part
  /\ cpc = "ok" /\ NeedsSink => part \in DOMAIN files

LEMMA PartOfFacts ==
  /\ \A h \in Nat : PartOf(h) \in Nat
  /\ \A g, h \in Nat : g <= h => PartOf(g) <= PartOf(h)
<1>1. \A h \in Nat : PartOf(h) \in Nat
  BY DepthAssumption DEF PartOf
<1>2. ASSUME NEW g \in Nat, NEW h \in Nat, g <= h PROVE PartOf(g) <= PartOf(h)
  BY <1>2, DepthAssumption DEF PartOf
<1> QED BY <1>1, <1>2

\* What the consumer has behind it, and the sink, stay as they are.
LEMMA RowsSame ==
  ASSUME RowsInv, UNCHANGED <<scenario, next, sinkVars>>,
         cpc' = cpc \/ (cpc \notin {"ok", "err"} /\ cpc' # "ok")
  PROVE  RowsInv'
<1>1. /\ scenario' = scenario /\ next' = next /\ part' = part /\ rows' = rows /\ files' = files
  BY DEF sinkVars
<1>2. /\ Done' = Done /\ Orphan' = Orphan /\ NeedsSink' = NeedsSink
      /\ \A p : Applied(p)' = Applied(p)
  BY <1>1 DEF Done, Orphan, NeedsSink, Kind, Applied, PartOf
<1> QED BY <1>1, <1>2 DEF RowsInv, PartOf, Heights

LEMMA RowsInit == Init => RowsInv
<1> SUFFICES ASSUME Init PROVE RowsInv
  OBVIOUS
<1>1. /\ next = Start /\ part = PartOf(Start) /\ rows = {} /\ cpc = "recv"
      /\ DOMAIN files = {} /\ files \in [DOMAIN files -> SUBSET Heights]
  BY DEF Init
<1>2. Done = {}
  <2>1. \A n \in Nat : n..(n - 1) = {}
    OBVIOUS
  <2> QED BY <1>1, <2>1, RangeAssumption DEF Done
<1>3. part \in Nat /\ part <= PartOf(next)
  BY <1>1, PartOfFacts, RangeAssumption
<1> QED BY <1>1, <1>2, <1>3 DEF RowsInv, Applied

\* Facts about the height the consumer waits for.
LEMMA NextFacts ==
  ASSUME FlowInv, RowsInv
  PROVE  /\ next \in Nat /\ part \in Nat /\ PartOf(next) \in Nat /\ PartOf(next + 1) \in Nat
         /\ PartOf(next) <= PartOf(next + 1) /\ part <= PartOf(next)
         /\ \A h \in Done : h \in Nat /\ PartOf(h) \in Nat
<1>1. next \in Nat /\ next + 1 \in Nat /\ next <= next + 1
  BY RangeAssumption DEF FlowInv, ConsumerInv
<1>2. \A h \in Done : h \in Nat
  BY RangeAssumption DEF Done
<1> QED BY <1>1, <1>2, PartOfFacts DEF RowsInv

\* A stale height is passed over: the applied heights stay the same.
LEMMA RowsSkip ==
  ASSUME FlowInv, RowsInv, SkipOne, next \in skipped, scenario' = scenario, Kind = "parse"
  PROVE  RowsInv'
<1>1. /\ next' = next + 1 /\ part' = part /\ rows' = rows /\ cpc = "skip"
      /\ cpc' = IF next + 1 >= End THEN "ok" ELSE "skip"
      /\ files' = IF next + 1 >= End THEN Finished(files, part, rows) ELSE files
  BY DEF SkipOne, NextAfter, FinishSink, NeedsSink
<1>2. NeedsSink /\ NeedsSink' /\ Orphan' = Orphan /\ next \in Orphan /\ next >= Start
      /\ next \in Nat /\ Start \in Nat
  BY RangeAssumption DEF NeedsSink, Kind, Orphan, FlowInv, ConsumerInv
<1>3. Done' = Done \cup {next}
  BY <1>1, <1>2 DEF Done
<1>4. Done' \ Orphan' = Done \ Orphan
  BY <1>2, <1>3
<1>5. \A p : Applied(p)' = Applied(p)
  BY <1>4 DEF Applied, PartOf
<1>6. part' \in Nat /\ part' <= PartOf(next)'
  BY <1>1, NextFacts DEF PartOf
<1>7. rows' \subseteq Heights /\ rows' = Applied(part)'
  BY <1>1, <1>2, <1>5 DEF RowsInv
<1>8. /\ files \in [DOMAIN files -> SUBSET Heights] /\ rows \in SUBSET Heights
      /\ \A p \in DOMAIN files : p < part
  BY <1>1 DEF RowsInv
<1>9. CASE next + 1 >= End
  <2>1. /\ files' = Finished(files, part, rows) /\ cpc' = "ok"
    BY <1>1, <1>9
  <2>2. /\ DOMAIN files' = DOMAIN files \cup {part}
        /\ files' \in [DOMAIN files' -> SUBSET Heights]
        /\ files'[part] = rows /\ \A q \in DOMAIN files : q # part => files'[q] = files[q]
    BY <1>8, <2>1 DEF Finished
  <2>3. \A p \in DOMAIN files' : files'[p] = Applied(p)'
    BY <1>2, <1>5, <2>2 DEF RowsInv
  <2>4. \A h \in Done' \ Orphan' :
           PartOf(h)' <= part' /\ (PartOf(h)' # part' => PartOf(h)' \in DOMAIN files')
    BY <1>1, <1>2, <1>4, <2>2 DEF RowsInv, PartOf
  <2> QED BY <1>1, <1>2, <1>6, <1>7, <2>1, <2>2, <2>3, <2>4 DEF RowsInv, PartOf, Heights
<1>10. CASE ~(next + 1 >= End)
  BY <1>1, <1>2, <1>4, <1>5, <1>6, <1>7, <1>8, <1>10 DEF RowsInv, PartOf, Heights
<1> QED BY <1>9, <1>10

LEMMA RowsApply ==
  ASSUME FlowInv, RowsInv, ApplyOne, scenario' = scenario
  PROVE  RowsInv'
<1>1. PICK P : P = PartOf(next)
  OBVIOUS
<1>2. PICK rotated : rotated = IF P = part THEN files ELSE Finished(files, part, rows)
  OBVIOUS
<1>3. PICK rs : rs = (IF P = part THEN rows ELSE {}) \cup {next}
  OBVIOUS
<1>4. /\ next' = next + 1 /\ part' = P /\ cpc = "apply" /\ NeedsSink /\ rows' = rs
      /\ cpc' = IF next + 1 >= End THEN "ok" ELSE "drain"
      /\ files' = IF next + 1 >= End THEN Finished(rotated, P, rs) ELSE rotated
  BY <1>1, <1>2, <1>3 DEF ApplyOne, NextAfter
<1>5. NeedsSink' /\ Orphan' = Orphan /\ next \notin Orphan /\ next >= Start
      /\ next \in Nat /\ Start \in Nat /\ next \in Heights
  BY <1>4, RangeAssumption DEF NeedsSink, Kind, Orphan, FlowInv, ConsumerInv, Heights
<1>6. Done' = Done \cup {next}
  BY <1>4, <1>5 DEF Done
<1>7. Done' \ Orphan' = (Done \ Orphan) \cup {next}
  BY <1>5, <1>6
<1>8. /\ P \in Nat /\ part \in Nat /\ part <= P
      /\ part' \in Nat /\ part' <= PartOf(next)'
      /\ \A h \in Done : PartOf(h) \in Nat
  BY <1>1, <1>4, NextFacts DEF PartOf
<1>9. \A h \in Done \ Orphan : PartOf(h) <= part /\ (PartOf(h) # part => PartOf(h) \in DOMAIN files)
  BY <1>4 DEF RowsInv
<1>10. /\ files \in [DOMAIN files -> SUBSET Heights] /\ rows \in SUBSET Heights
       /\ rows = Applied(part) /\ DOMAIN files \subseteq Nat
       /\ \A p \in DOMAIN files : p < part /\ files[p] = Applied(p)
  BY <1>4 DEF RowsInv
<1>11. \A p : Applied(p)' = IF p = P THEN Applied(p) \cup {next} ELSE Applied(p)
  BY <1>1, <1>7 DEF Applied, PartOf
<1>12. P # part => Applied(P) = {}
  BY <1>8, <1>9 DEF Applied
<1>13. rs = Applied(P)' /\ rs \in SUBSET Heights
  BY <1>3, <1>5, <1>10, <1>11, <1>12
<1>14. /\ rotated \in [DOMAIN rotated -> SUBSET Heights]
       /\ DOMAIN rotated = IF P = part THEN DOMAIN files ELSE DOMAIN files \cup {part}
       /\ \A p \in DOMAIN rotated : rotated[p] = Applied(p)
  BY <1>2, <1>10 DEF Finished
<1>15. DOMAIN rotated \subseteq Nat /\ \A p \in DOMAIN rotated : p < P
  BY <1>8, <1>10, <1>14
<1>16. \A h \in Done' \ Orphan' : PartOf(h) <= P /\ (PartOf(h) # P => PartOf(h) \in DOMAIN rotated)
  <2> SUFFICES ASSUME NEW h \in Done \ Orphan
               PROVE  PartOf(h) <= P /\ (PartOf(h) # P => PartOf(h) \in DOMAIN rotated)
    BY <1>1, <1>7, <1>8
  <2>1. PartOf(h) \in Nat /\ PartOf(h) <= part /\ (PartOf(h) # part => PartOf(h) \in DOMAIN files)
    BY <1>8, <1>9
  <2> QED BY <1>8, <1>14, <2>1
<1>17. \A p \in DOMAIN rotated : rotated[p] = Applied(p)'
  BY <1>8, <1>11, <1>14, <1>15
<1>18. CASE next + 1 >= End
  <2>1. /\ files' = Finished(rotated, P, rs) /\ cpc' = "ok"
    BY <1>4, <1>18
  <2>2. /\ DOMAIN files' = DOMAIN rotated \cup {P}
        /\ files' \in [DOMAIN files' -> SUBSET Heights]
        /\ files'[P] = rs /\ \A q \in DOMAIN rotated : q # P => files'[q] = rotated[q]
    BY <1>13, <1>14, <2>1 DEF Finished
  <2>3. \A p \in DOMAIN files' : files'[p] = Applied(p)'
    BY <1>13, <1>17, <2>2
  <2>4. \A h \in Done' \ Orphan' : PartOf(h)' <= part' /\ (PartOf(h)' # part' => PartOf(h)' \in DOMAIN files')
    BY <1>4, <1>16, <2>2 DEF PartOf
  <2>5. DOMAIN files' \subseteq Nat /\ part' \in DOMAIN files'
    BY <1>4, <1>8, <1>15, <2>2
  <2>6. rows' = Applied(part)' /\ rows' \subseteq Heights
    BY <1>4, <1>13 DEF Applied, PartOf
  <2> QED BY <1>5, <1>8, <2>1, <2>2, <2>3, <2>4, <2>5, <2>6 DEF RowsInv, Heights
<1>19. CASE ~(next + 1 >= End)
  <2>1. files' = rotated /\ cpc' = "drain"
    BY <1>4, <1>19
  <2>2. \A h \in Done' \ Orphan' : PartOf(h)' <= part' /\ (PartOf(h)' # part' => PartOf(h)' \in DOMAIN files')
    BY <1>4, <1>16, <2>1 DEF PartOf
  <2>3. rows' = Applied(part)' /\ rows' \subseteq Heights
    BY <1>4, <1>13 DEF Applied, PartOf
  <2>4. \A p \in DOMAIN files' : p < part' /\ files'[p] = Applied(p)'
    BY <1>4, <1>15, <1>17, <2>1
  <2> QED BY <1>5, <1>8, <1>14, <1>15, <2>1, <2>2, <2>3, <2>4 DEF RowsInv, Heights
<1> QED BY <1>18, <1>19

LEMMA RowsBare ==
  ASSUME FlowInv, RowsInv, ApplyWithoutSink, scenario' = scenario
  PROVE  RowsInv'
<1>1. /\ next' = next + 1 /\ part' = part /\ rows' = rows /\ files' = files
      /\ cpc = "apply" /\ ~NeedsSink /\ ~NeedsSink' /\ cpc' \in {"ok", "drain"}
  BY DEF ApplyWithoutSink, NextAfter, sinkVars, NeedsSink, Kind
<1>2. part' \in Nat /\ part' <= PartOf(next)'
  BY <1>1, NextFacts DEF PartOf
<1> QED BY <1>1, <1>2 DEF RowsInv, Heights

\* The consumer gives up on a closed channel, and finishes its sink.
LEMMA RowsSkipFails ==
  ASSUME FlowInv, RowsInv, SkipFails, scenario' = scenario, Kind = "parse"
  PROVE  RowsInv'
<1>1. /\ cpc = "skip" /\ cpc' = "err" /\ next \in skipped /\ sinkVars' = sinkVars
      /\ part' = part /\ rows' = rows /\ files' = files /\ (next' = next \/ next' = next + 1)
  BY DEF SkipFails, sinkVars
<1>2. CASE next' = next
  BY <1>1, <1>2, RowsSame
<1>3. CASE next' = next + 1
  <2>1. NeedsSink /\ NeedsSink' /\ Orphan' = Orphan /\ next \in Orphan /\ next >= Start
        /\ next \in Nat /\ Start \in Nat
    BY <1>1, RangeAssumption DEF NeedsSink, Kind, Orphan, FlowInv, ConsumerInv
  <2>2. Done' = Done \cup {next}
    BY <1>3, <2>1 DEF Done
  <2>3. Done' \ Orphan' = Done \ Orphan
    BY <2>1, <2>2
  <2>4. \A p : Applied(p)' = Applied(p)
    BY <2>3 DEF Applied, PartOf
  <2>5. part' \in Nat /\ part' <= PartOf(next)'
    BY <1>1, <1>3, NextFacts DEF PartOf
  <2> QED BY <1>1, <2>1, <2>3, <2>4, <2>5 DEF RowsInv, PartOf, Heights
<1> QED BY <1>1, <1>2, <1>3

LEMMA RowsClosed ==
  ASSUME RowsInv, ClosedEarly, scenario' = scenario
  PROVE  RowsInv'
<1>1. /\ next' = next /\ part' = part /\ rows' = rows /\ cpc = "recv" /\ cpc' = "err"
      /\ files' = IF NeedsSink THEN Finished(files, part, rows) ELSE files
  BY DEF ClosedEarly, FinishSink
<1>2. /\ Done' = Done /\ Orphan' = Orphan /\ NeedsSink' = NeedsSink
      /\ \A p : Applied(p)' = Applied(p)
  BY <1>1 DEF Done, Orphan, NeedsSink, Kind, Applied, PartOf
<1>3. CASE NeedsSink
  <2>1. /\ DOMAIN files' = DOMAIN files \cup {part}
        /\ files' \in [DOMAIN files' -> SUBSET Heights]
        /\ files'[part] = rows /\ \A q \in DOMAIN files : q # part => files'[q] = files[q]
    BY <1>1, <1>3 DEF Finished, RowsInv
  <2>2. \A p \in DOMAIN files' : files'[p] = Applied(p)'
    BY <1>2, <1>3, <2>1 DEF RowsInv
  <2> QED BY <1>1, <1>2, <1>3, <2>1, <2>2 DEF RowsInv, PartOf, Heights
<1>4. CASE ~NeedsSink
  BY <1>1, <1>2, <1>4 DEF RowsInv, PartOf, Heights
<1> QED BY <1>3, <1>4

LEMMA RowsStep == FlowInv /\ RowsInv /\ [Next]_vars => RowsInv'
<1> SUFFICES ASSUME FlowInv, RowsInv, [Next]_vars PROVE RowsInv'
  OBVIOUS
<1>1. CASE UNCHANGED vars
  BY <1>1, RowsSame DEF vars, consumerVars
<1>2. ASSUME scenario' = scenario, NEW w \in Worker, WorkerStep(w)
      PROVE  RowsInv'
  <2>1. UNCHANGED <<scenario, next, sinkVars>> /\ cpc' = cpc
    BY <1>2 DEF WorkerStep, Rayon, Split, Pop, Steal, Begin, Gate, Spin, GateAborts, ParseFails,
                Send, SendFails, WorkerFails, consumerVars, vars
  <2> QED BY <2>1, RowsSame
<1>3. CASE scenario' = scenario /\ (Main \/ Trip)
  <2>1. UNCHANGED <<scenario, next, sinkVars>> /\ cpc' = cpc
    BY <1>3 DEF Main, CloseChannel, Join, Trip, consumerVars
  <2> QED BY <2>1, RowsSame
<1>4. CASE scenario' = scenario /\ Consumer
  <2>1. CASE Recv \/ BenchRecv \/ Drain \/ BenchDrain \/ CreateFails \/ ApplyFails
             \/ (SkipOne /\ next \notin skipped)
    <3>1. UNCHANGED <<scenario, next, sinkVars>> /\ cpc \notin {"ok", "err"} /\ cpc' # "ok"
      BY <1>4, <2>1 DEF Recv, BenchRecv, Drain, BenchDrain, CreateFails, ApplyFails, SkipOne
    <3> QED BY <3>1, RowsSame
  <2>2. CASE Kind = "parse" /\ SkipOne /\ next \in skipped
    BY <1>4, <2>2, RowsSkip
  <2>3. CASE ApplyOne \/ ApplyWithoutSink \/ ClosedEarly
    BY <1>4, <2>3, RowsApply, RowsBare, RowsClosed
  <2>4. CASE Kind = "parse" /\ SkipFails
    BY <1>4, <2>4, RowsSkipFails
  <2> QED BY <1>4, <2>1, <2>2, <2>3, <2>4 DEF Consumer, ParseConsumer, BenchConsumer, Apply
<1> QED BY <1>1, <1>2, <1>3, <1>4 DEF Next

LEMMA RowsHold == Spec => [](FlowInv /\ RowsInv)
  BY FlowHolds, RowsInit, RowsStep, PTL DEF Spec

\* The values of the variables are as declared; that the shared counter stays
\* in its range rests on no height being buffered twice.
THEOREM PipelineTypes == Spec => []TypeOK
<1>1. FlowInv /\ RowsInv => TypeOK
  <2> SUFFICES ASSUME FlowInv, RowsInv PROVE TypeOK
    OBVIOUS
  <2>1. depth \in 0..(End - Start)
    BY RangeAssumption DEF FlowInv, ConsumerInv
  <2>2. channel \in Seq(Heights) /\ Len(channel) <= ChannelDepth
    BY DEF FlowInv, ChannelInv
  <2>3. next \in Start..End /\ nextHeight \in Start..End
    BY DEF FlowInv, ConsumerInv
  <2>4. /\ scenario \in Scenarios /\ buffer \subseteq Heights \ Orphan /\ skipped \subseteq Orphan
        /\ cpc \in {"recv", "skip", "drain", "apply", "ok", "err"}
        /\ main \in {"parse", "join", "ok", "err"} /\ watchdog \in {"watching", "tripped"}
    BY DEF FlowInv, ConsumerInv, MainInv
  <2>5. /\ part \in Nat /\ rows \subseteq Heights /\ files \in [DOMAIN files -> SUBSET Heights]
    BY DEF RowsInv
  <2> QED BY <2>1, <2>2, <2>3, <2>4, <2>5 DEF TypeOK, FlowInv, PoolInv, PoolType
<1> QED BY <1>1, RowsHold, PTL

\* A run that returns Ok has the rows of every block that is not stale in the
\* part file of its height, and nowhere else: neither the order in which the
\* workers deliver nor stale blocks at a part boundary disturb the rotation.
THEOREM PartFilesCompleteHolds == Spec => []PartFilesComplete
<1>1. FlowInv /\ RowsInv => PartFilesComplete
  <2> SUFFICES ASSUME FlowInv, RowsInv, main = "ok", NEW h \in Heights
               PROVE  {p \in DOMAIN files : h \in files[p]} =
                        IF NeedsSink /\ h \notin Orphan THEN {PartOf(h)} ELSE {}
    BY DEF PartFilesComplete
  <2>1. cpc = "ok" /\ next = End
    BY DEF FlowInv, MainInv, ConsumerInv
  <2>2. Done = Heights
    BY <2>1 DEF Done, Heights
  <2>3. \A p \in DOMAIN files : h \in files[p] <=> h \notin Orphan /\ PartOf(h) = p
    BY <2>2 DEF RowsInv, Applied
  <2>4. NeedsSink /\ h \notin Orphan => PartOf(h) \in DOMAIN files
    BY <2>1, <2>2 DEF RowsInv
  <2>5. ~NeedsSink => DOMAIN files = {}
    BY DEF RowsInv
  <2> QED BY <2>3, <2>4, <2>5
<1> QED BY <1>1, RowsHold, PTL

-----------------------------------------------------------------------------
(* The bound on the reorder buffer.                                        *)

\* The heights workers have past the gate and not sent.
Senders == {w \in Worker : wpc[w] = "send"}
InHands == {Head(work[w]) : w \in Senders}

\* The gate holds heights back by the size of the buffer, so what has passed it
\* is bounded as a whole, beside the height the consumer waits for.
Passed == buffer \cup InChannel \cup InHands
PassedInv == Cardinality(Passed \ {next}) <= ReorderHigh + ChannelDepth + Cardinality(Worker)

\* One height in each worker's hands.
LEMMA HandsBound ==
  ASSUME NEW S, S \subseteq Worker, NEW f
  PROVE  Cardinality({Head(f[w]) : w \in S}) <= Cardinality(Worker)
<1> DEFINE H == {Head(f[w]) : w \in S}
           g == [w \in S |-> Head(f[w])]
<1>1. g \in Surjection(S, H)
  BY DEF Surjection
<1>2. S \in SUBSET Worker
  OBVIOUS
<1>3. IsFiniteSet(S) /\ Cardinality(S) <= Cardinality(Worker)
  BY <1>2, WorkerAssumption, FS_Subset
<1>4. IsFiniteSet(H) /\ Cardinality(H) <= Cardinality(S)
  BY <1>1, <1>3, FS_Surjection
<1>5. Cardinality(H) \in Nat /\ Cardinality(S) \in Nat /\ Cardinality(Worker) \in Nat
  BY <1>3, <1>4, WorkerAssumption, FS_CardinalityType
<1> QED BY <1>3, <1>4, <1>5

LEMMA PassedFacts ==
  ASSUME FlowInv
  PROVE  /\ buffer \subseteq Heights /\ InChannel \subseteq Heights /\ InHands \subseteq InPool
         /\ Passed \subseteq Heights
         /\ Cardinality(InChannel) <= ChannelDepth
         /\ Cardinality(InHands) <= Cardinality(Worker)
<1>1. buffer \subseteq Heights
  BY DEF FlowInv, ConsumerInv
<1>2. channel \in Seq(Heights) /\ Len(channel) <= ChannelDepth /\ Len(channel) \in Nat
  BY DEF FlowInv, ChannelInv
<1>3. InChannel \subseteq Heights
  BY <1>2 DEF InChannel, Range
<1>4. \A w \in Senders : Head(work[w]) \in Heights /\ Head(work[w]) \in Leaf(w)
  <2> SUFFICES ASSUME NEW w \in Worker, wpc[w] = "send"
               PROVE  Head(work[w]) \in Heights /\ Head(work[w]) \in Leaf(w)
    BY DEF Senders
  <2>1. work[w] \in Seq(Heights) /\ work[w] # <<>> /\ NoRepeat(work[w])
    BY DEF FlowInv, PoolInv, PoolType, PoolApart
  <2> QED BY <2>1, TailFacts DEF Leaf
<1>5. InHands \subseteq InPool
  BY <1>4 DEF InHands, InPool, Senders
<1>6. Cardinality(InChannel) <= ChannelDepth
  <2>1. channel \in [1..Len(channel) -> InChannel]
    BY <1>2 DEF InChannel, Range
  <2>2. channel \in Surjection(1..Len(channel), InChannel)
    BY <1>2, <2>1 DEF Surjection, InChannel, Range
  <2>3. Cardinality(InChannel) <= Len(channel)
    BY <1>2, <2>2, FS_SurjCardinalityBound DEF ExistsSurjection
  <2>4. Cardinality(InChannel) \in Nat
    BY <1>3, BufferFinite
  <2> QED BY <1>2, <2>3, <2>4, DepthAssumption
<1>7. Cardinality(InHands) <= Cardinality(Worker)
  BY HandsBound DEF InHands, Senders
<1>8. Passed \subseteq Heights
  BY <1>1, <1>3, <1>5 DEF Passed, InPool
<1> QED BY <1>1, <1>3, <1>5, <1>6, <1>7, <1>8

\* Nothing new passes the gate.
LEMMA PassedShrinks ==
  ASSUME FlowInv, PassedInv, Passed' \subseteq Passed, next' = next \/ next \notin Passed
  PROVE  PassedInv'
<1>1. (Passed \ {next})' \subseteq Passed \ {next}
  OBVIOUS
<1>2. Passed \ {next} \subseteq Heights /\ (Passed \ {next})' \subseteq Heights
  BY <1>1, PassedFacts
<1>3. IsFiniteSet(Passed \ {next})
  BY <1>2, BufferFinite
<1>4. Cardinality((Passed \ {next})') <= Cardinality(Passed \ {next})
  BY <1>1, <1>3, FS_Subset
<1>5. Cardinality((Passed \ {next})') \in Nat /\ Cardinality(Passed \ {next}) \in Nat
  BY <1>2, BufferFinite
<1>6. ReorderHigh + ChannelDepth + Cardinality(Worker) \in Nat
  BY DepthAssumption, WorkerAssumption, FS_CardinalityType
<1> QED BY <1>4, <1>5, <1>6 DEF PassedInv

\* A height passes while the buffer is at or below the watermark, or because it
\* is the one the consumer waits for.
LEMMA PassedGate ==
  ASSUME FlowInv, PassedInv, NEW w \in Worker, Gate(w)
  PROVE  PassedInv'
<1>1. /\ wpc[w] = "gate" /\ ~HeldBack(Head(work[w])) /\ wpc' = [wpc EXCEPT ![w] = "send"]
      /\ work' = work /\ channel' = channel /\ buffer' = buffer /\ next' = next /\ depth' = depth
  BY DEF Gate, consumerVars
<1>2. next = nextHeight /\ depth \in Nat /\ Cardinality(buffer) <= depth
  BY DEF FlowInv, ConsumerInv
<1>3. wpc \in [Worker -> {"seek", "gate", "send"}]
  BY DEF FlowInv, PoolInv, PoolType
<1>4. CASE nextHeight = Head(work[w])
  <2>1. InHands' \subseteq InHands \cup {next}
    BY <1>1, <1>2, <1>3, <1>4 DEF InHands, Senders
  <2>2. InHands \subseteq InHands'
    BY <1>1, <1>3 DEF InHands, Senders
  <2>3. (Passed \ {next})' = Passed \ {next}
    BY <1>1, <2>1, <2>2 DEF Passed, InChannel
  <2> QED BY <2>3 DEF PassedInv
<1>5. CASE depth <= ReorderHigh
  <2>1. /\ buffer' \subseteq Heights /\ InChannel' \subseteq Heights /\ InHands' \subseteq Heights
        /\ Cardinality(InChannel') <= ChannelDepth
        /\ Cardinality(InHands') <= Cardinality(Worker)
    <3>1. /\ buffer \subseteq Heights /\ InChannel \subseteq Heights /\ InHands \subseteq Heights
          /\ Cardinality(InChannel) <= ChannelDepth
      BY PassedFacts DEF InPool
    <3>2. InChannel' = InChannel
      BY <1>1 DEF InChannel
    <3>3. PICK S : S = Senders'
      OBVIOUS
    <3>4. S \subseteq Worker /\ InHands' = {Head(work[v]) : v \in S}
      BY <1>1, <3>3 DEF InHands, Senders
    <3>5. Cardinality(InHands') <= Cardinality(Worker)
      BY <3>4, HandsBound
    <3>6. InHands' \subseteq InHands \cup {Head(work[w])}
      BY <1>1, <1>3 DEF InHands, Senders
    <3>7. Head(work[w]) \in Heights
      <4>1. work[w] \in Seq(Heights) /\ work[w] # <<>>
        BY <1>1 DEF FlowInv, PoolInv, PoolType
      <4> QED BY <4>1
    <3> QED BY <1>1, <3>1, <3>2, <3>5, <3>6, <3>7
  <2>2. Cardinality(buffer') <= ReorderHigh
    BY <1>1, <1>2, <1>5, <2>1, BufferFinite, DepthAssumption
  <2>3. /\ IsFiniteSet(buffer') /\ Cardinality(buffer') \in Nat
        /\ IsFiniteSet(InChannel') /\ Cardinality(InChannel') \in Nat
        /\ IsFiniteSet(InHands') /\ Cardinality(InHands') \in Nat
    BY <2>1, BufferFinite
  <2>4. /\ IsFiniteSet(buffer' \cup InChannel')
        /\ Cardinality(buffer' \cup InChannel') =
             Cardinality(buffer') + Cardinality(InChannel') - Cardinality(buffer' \cap InChannel')
    BY <2>3, FS_Union
  <2>5. Cardinality(buffer' \cap InChannel') \in Nat
    BY <2>1, BufferFinite
  <2>6. /\ IsFiniteSet((buffer' \cup InChannel') \cup InHands')
        /\ Cardinality((buffer' \cup InChannel') \cup InHands') =
             Cardinality(buffer' \cup InChannel') + Cardinality(InHands')
               - Cardinality((buffer' \cup InChannel') \cap InHands')
    BY <2>3, <2>4, FS_Union
  <2>7. Cardinality((buffer' \cup InChannel') \cap InHands') \in Nat
    BY <2>1, BufferFinite
  <2>8. Passed' \subseteq Heights /\ Passed' = (buffer' \cup InChannel') \cup InHands'
    BY <2>1 DEF Passed
  <2>9. Cardinality(Passed' \ {next'}) <= Cardinality(Passed')
    BY <2>6, <2>8, FS_Subset
  <2>10. Cardinality(Passed' \ {next'}) \in Nat /\ Cardinality(Passed') \in Nat
    BY <2>8, BufferFinite
  <2>11. Cardinality(Passed') <= ReorderHigh + ChannelDepth + Cardinality(Worker)
    <3>1. Cardinality(buffer' \cup InChannel') \in Nat
      BY <2>1, BufferFinite
    <3>2. Cardinality(Worker) \in Nat
      BY WorkerAssumption, FS_CardinalityType
    <3> QED BY <2>1, <2>2, <2>3, <2>4, <2>5, <2>6, <2>7, <2>8, <3>1, <3>2, DepthAssumption
  <2>12. ReorderHigh + ChannelDepth + Cardinality(Worker) \in Nat
    BY DepthAssumption, WorkerAssumption, FS_CardinalityType
  <2> QED BY <2>9, <2>10, <2>11, <2>12 DEF PassedInv
<1> QED BY <1>1, <1>2, <1>4, <1>5, DepthAssumption DEF HeldBack

\* A worker's other steps take nothing past the gate.
LEMMA PassedWorker ==
  ASSUME FlowInv, PassedInv, ~Returned, NEW w \in Worker, WorkerStep(w)
  PROVE  PassedInv'
<1> USE DEF PoolType
<1>1. wpc \in [Worker -> {"seek", "gate", "send"}] /\ work \in [Worker -> Seq(Heights)]
  BY DEF FlowInv, PoolInv
<1>2. CASE Rayon(w)
  <2>1. /\ wpc[w] = "seek" /\ UNCHANGED <<channel, consumerVars>>
        /\ \A v \in Worker : v # w => work'[v] = work[v] /\ wpc'[v] = wpc[v]
        /\ wpc'[w] # "send"
    BY <1>1, <1>2 DEF Rayon, Split, Pop, Steal, Begin
  <2>2. InHands' \subseteq InHands
    BY <2>1 DEF InHands, Senders
  <2>3. Passed' \subseteq Passed /\ next' = next
    BY <2>1, <2>2 DEF Passed, InChannel, consumerVars
  <2> QED BY <2>3, PassedShrinks
<1>3. CASE GateAborts(w) \/ ParseFails(w) \/ SendFails(w)
  <2>1. /\ UNCHANGED <<channel, consumerVars>>
        /\ work' = [work EXCEPT ![w] = <<>>] /\ wpc' = [wpc EXCEPT ![w] = "seek"]
    BY <1>3 DEF GateAborts, ParseFails, SendFails, WorkerFails
  <2>2. InHands' \subseteq InHands
    BY <1>1, <2>1 DEF InHands, Senders
  <2>3. Passed' \subseteq Passed /\ next' = next
    BY <2>1, <2>2 DEF Passed, InChannel, consumerVars
  <2> QED BY <2>3, PassedShrinks
<1>4. CASE Send(w)
  <2>1. /\ wpc[w] = "send" /\ channel' = Append(channel, Head(work[w])) /\ UNCHANGED consumerVars
        /\ work' = [work EXCEPT ![w] = Tail(work[w])] /\ wpc' = [wpc EXCEPT ![w] = "seek"]
    BY <1>4 DEF Send
  <2>2. Head(work[w]) \in Heights /\ Head(work[w]) \in InPool
    BY <2>1, InHand
  <2>3. InChannel' \subseteq InChannel \cup {Head(work[w])}
    <3>1. channel \in Seq(Heights)
      BY DEF FlowInv, ChannelInv
    <3> QED BY <2>1, <2>2, <3>1 DEF InChannel, Range
  <2>4. InHands' \subseteq InHands
    BY <1>1, <2>1 DEF InHands, Senders
  <2>5. Head(work[w]) \in InHands
    BY <2>1 DEF InHands, Senders
  <2>6. Passed' \subseteq Passed /\ next' = next
    BY <2>1, <2>3, <2>4, <2>5 DEF Passed, consumerVars
  <2> QED BY <2>6, PassedShrinks
<1>5. CASE Spin(w)
  BY <1>5 DEF Spin, vars, workerVars, consumerVars, PassedInv, Passed, InChannel, InHands, Senders
<1> QED BY <1>2, <1>3, <1>4, <1>5, PassedGate DEF WorkerStep

\* The consumer takes blocks over, and drops the one it waits for.
LEMMA PassedConsumer ==
  ASSUME FlowInv, PassedInv, Consumer
  PROVE  PassedInv'
<1>1. work' = work /\ wpc' = wpc
  BY DEF Consumer, ParseConsumer, BenchConsumer, Apply, Recv, BenchRecv, SkipOne, Drain, BenchDrain,
         ApplyOne, ApplyWithoutSink, CreateFails, SkipFails, ApplyFails, ClosedEarly, workerVars
<1>2. InHands' = InHands
  BY <1>1 DEF InHands, Senders
<1>3. CASE Recv \/ BenchRecv
  <2>1. /\ channel # <<>> /\ channel' = Tail(channel) /\ next' = next
        /\ buffer' \subseteq buffer \cup {Head(channel)}
    BY <1>3 DEF Recv, BenchRecv
  <2>2. channel \in Seq(Heights) /\ NoRepeat(channel)
    BY DEF FlowInv, ChannelInv
  <2>3. Head(channel) \in InChannel /\ InChannel' \subseteq InChannel
    BY <2>1, <2>2, TailFacts DEF InChannel
  <2>4. Passed' \subseteq Passed
    BY <1>2, <2>1, <2>3 DEF Passed
  <2> QED BY <2>1, <2>4, PassedShrinks
<1>4. CASE Drain \/ BenchDrain \/ CreateFails \/ ApplyFails \/ ClosedEarly \/ (SkipOne /\ next \notin skipped)
  <2>1. channel' = channel /\ next' = next /\ buffer' \subseteq buffer
    BY <1>4 DEF Drain, BenchDrain, CreateFails, ApplyFails, ClosedEarly, SkipOne
  <2>2. Passed' \subseteq Passed
    BY <1>2, <2>1 DEF Passed, InChannel
  <2> QED BY <2>1, <2>2, PassedShrinks
<1>5. CASE ApplyOne \/ ApplyWithoutSink \/ SkipFails \/ (SkipOne /\ next \in skipped)
  <2>1. /\ channel' = channel /\ buffer' = buffer
        /\ cpc = "apply" \/ next \in skipped
    BY <1>5 DEF ApplyOne, ApplyWithoutSink, SkipFails, SkipOne
  <2>2. next \in WithConsumer
    BY <2>1 DEF WithConsumer, Applying
  <2>3. next \notin buffer
    BY <2>1 DEF FlowInv, ConsumerInv
  <2>4. next \notin Passed
    BY <2>2, <2>3, PassedFacts DEF Passed, FlowInv, ApartInv
  <2>5. Passed' \subseteq Passed
    BY <1>2, <2>1 DEF Passed, InChannel
  <2> QED BY <2>4, <2>5, PassedShrinks
<1> QED BY <1>3, <1>4, <1>5 DEF Consumer, ParseConsumer, BenchConsumer, Apply

LEMMA PassedStep == FlowInv /\ PassedInv /\ [Next]_vars => PassedInv'
<1> SUFFICES ASSUME FlowInv, PassedInv, [Next]_vars PROVE PassedInv'
  OBVIOUS
<1>1. CASE UNCHANGED vars
  BY <1>1 DEF vars, workerVars, consumerVars, PassedInv, Passed, InChannel, InHands, Senders
<1>2. CASE Main \/ Trip
  BY <1>2 DEF Main, CloseChannel, Join, Trip, workerVars, consumerVars, PassedInv, Passed,
              InChannel, InHands, Senders
<1> QED BY <1>1, <1>2, PassedWorker, PassedConsumer DEF Next

LEMMA PassedInit == Init => PassedInv
<1> SUFFICES ASSUME Init PROVE PassedInv
  OBVIOUS
<1>1. buffer = {} /\ channel = <<>> /\ \A w \in Worker : wpc[w] = "seek"
  BY DEF Init
<1>2. Passed \ {next} = {}
  BY <1>1 DEF Passed, InChannel, InHands, Senders, Range
<1>3. ReorderHigh + ChannelDepth + Cardinality(Worker) \in Nat
  BY DepthAssumption, WorkerAssumption, FS_CardinalityType
<1> QED BY <1>2, <1>3, FS_EmptySet DEF PassedInv

\* The consumer's memory is bounded although the workers read its counter and
\* its height late and without a lock: beside the block it waits for it never
\* holds more than the watermark, a full channel and one block per worker.
THEOREM BufferBoundHolds == Spec => []BufferBound
<1>1. FlowInv /\ PassedInv => BufferBound
  <2> SUFFICES ASSUME FlowInv, PassedInv PROVE BufferBound
    OBVIOUS
  <2>1. buffer \ {next} \subseteq Passed \ {next} /\ Passed \ {next} \subseteq Heights
    BY PassedFacts DEF Passed
  <2>2. /\ IsFiniteSet(Passed \ {next}) /\ Cardinality(Passed \ {next}) \in Nat
        /\ Cardinality(buffer \ {next}) \in Nat
    BY <2>1, BufferFinite
  <2>3. Cardinality(buffer \ {next}) <= Cardinality(Passed \ {next})
    BY <2>1, <2>2, FS_Subset
  <2>4. ReorderHigh + ChannelDepth + Cardinality(Worker) \in Nat
    BY DepthAssumption, WorkerAssumption, FS_CardinalityType
  <2> QED BY <2>2, <2>3, <2>4 DEF BufferBound, PassedInv
<1> QED BY <1>1, FlowHolds, PassedInit, PassedStep, PTL DEF Spec

=============================================================================
