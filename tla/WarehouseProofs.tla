-------------------------- MODULE WarehouseProofs ---------------------------
(***************************************************************************)
(* What the part files hold and what the loads make of them, for all       *)
(* entities, block and part sizes, and numbers of passes and loads.        *)
(***************************************************************************)
EXTENDS Warehouse, SequenceTheorems, FiniteSetTheorems, TLAPS

Idx == 1..Len(Entities)
AnyRow == Nat \X Nat

\* What the sink has of an entity's open part.
Content(e) == written[e] \o buffered[e]

\* The rows of the block at hand that the a-th entity has.
Pushed(a) == IF ppc # "push" \/ a > k THEN 0
             ELSE IF a = k THEN i - 1 ELSE RowsPer[Entities[a]][height]

SinkType ==
  /\ ppc \in {"down", "open", "recv", "push", "flush", "close", "create"}
  /\ part \in Nat /\ height \in Nat /\ end \in Nat /\ end <= Tip + 1
  /\ ppc \in {"open", "recv", "push", "create"} => height < end
  /\ k \in Idx /\ i \in Nat /\ i >= 1
  /\ ppc = "push" => i <= RowsPer[Entities[k]][height] + 1
  /\ ppc # "push" => i = 1
  /\ ppc \in {"down", "recv"} => k = 1
  /\ buffered \in [Entity -> Seq(AnyRow)] /\ written \in [Entity -> Seq(AnyRow)]
  /\ DOMAIN files \subseteq Entity \X Nat

\* The open part has the blocks hs and what there is of the block at hand; its
\* files have no footer, but for those closed already.
PartHas(hs) ==
  /\ hs \subseteq 0..(height - 1)
  /\ hs \subseteq HeightsOf(part)
  /\ \A a \in Idx :
       /\ IsInjective(Content(Entities[a]))
       /\ Range(Content(Entities[a])) =
            RowsOf(Entities[a], hs) \cup ({height} \X (1..Pushed(a)))
       /\ <<Entities[a], part>> \in opened \cup DOMAIN files
       /\ <<Entities[a], part>> \in DOMAIN files =>
            /\ ppc = "close" /\ a < k
            /\ IsInjective(files[<<Entities[a], part>>])
            /\ Range(files[<<Entities[a], part>>]) = RowsOf(Entities[a], hs)

SinkInv ==
  /\ SinkType
  /\ ppc \in {"recv", "push", "flush", "close"} => \E hs : PartHas(hs)
  /\ ppc \in {"open", "create"} =>
       /\ buffered = NoRows /\ written = NoRows
       /\ \A a \in Idx : a < k => <<Entities[a], part>> \in opened \ DOMAIN files
  /\ ppc = "flush" => \A a \in Idx : a < k => buffered[Entities[a]] = <<>>
  /\ ppc = "close" => buffered = NoRows
  /\ ppc \in {"push", "create"} => PartOf(height) = part

\* Where an entity has a file, each has one, with or without a footer.
FilesInv ==
  /\ PartsAgree
  /\ \A x \in DOMAIN files, e \in Entity : <<e, x[2]>> \in opened \cup DOMAIN files

-----------------------------------------------------------------------------
(* Sequences and products.                                                 *)

LEMMA EntityFacts ==
  /\ Len(Entities) \in Nat /\ Len(Entities) >= 1 /\ DOMAIN Entities = Idx
  /\ \A a \in Idx : /\ Entities[a] \in Entity
                    /\ \A h \in 0..Tip : RowsPer[Entities[a]][h] \in Nat
  /\ \A a, b \in Idx : Entities[a] = Entities[b] => a = b
  /\ \A e \in Entity : \E a \in Idx : e = Entities[a]
<1>1. Entities \in Seq(Range(Entities)) /\ Len(Entities) > 0 /\ IsInjective(Entities)
  BY EntityAssumption
<1>2. DOMAIN Entities = Idx /\ Len(Entities) \in Nat /\ Len(Entities) >= 1
  BY <1>1 DEF Idx
<1>3. \A a \in Idx : Entities[a] \in Entity
  BY <1>2 DEF Entity, Range
<1>4. \A a \in Idx : \A h \in 0..Tip : RowsPer[Entities[a]][h] \in Nat
  BY <1>3, RowAssumption DEF Entity
<1> QED BY <1>1, <1>2, <1>3, <1>4 DEF IsInjective, Entity, Range

LEMMA EmptyFacts ==
  /\ <<>> \in Seq(AnyRow) /\ IsInjective(<<>>) /\ Range(<<>>) = {}
  /\ NoRows \in [Entity -> Seq(AnyRow)] /\ <<>> \o <<>> = <<>>
<1>1. <<>> \in Seq(AnyRow) /\ IsInjective(<<>>) /\ Range(<<>>) = {}
  BY DEF IsInjective, Range
<1>2. <<>> \o <<>> = <<>>
  BY <1>1, ConcatEmptySeq
<1> QED BY <1>1, <1>2 DEF NoRows

LEMMA AppendContent ==
  ASSUME NEW s \in Seq(AnyRow), NEW t \in Seq(AnyRow), NEW r \in AnyRow
  PROVE  /\ s \o Append(t, r) = Append(s \o t, r)
         /\ (s \o Append(t, r)) \o <<>> = Append(s \o t, r)
<1>1. Append(t, r) = t \o <<r>> /\ Append(t, r) \in Seq(AnyRow) /\ <<r>> \in Seq(AnyRow)
  BY AppendIsConcat, AppendProperties
<1>2. s \o t \in Seq(AnyRow) /\ s \o Append(t, r) \in Seq(AnyRow)
  BY <1>1, ConcatProperties
<1>3. Append(s \o t, r) = (s \o t) \o <<r>>
  BY <1>2, AppendIsConcat
<1>4. (s \o t) \o <<r>> = s \o (t \o <<r>>)
  BY <1>1, ConcatAssociative
<1> QED BY <1>1, <1>2, <1>3, <1>4, ConcatEmptySeq

LEMMA AppendRange ==
  ASSUME NEW s \in Seq(AnyRow), NEW r \in AnyRow, IsInjective(s), r \notin Range(s)
  PROVE  IsInjective(Append(s, r)) /\ Range(Append(s, r)) = Range(s) \cup {r}
<1>1. /\ DOMAIN Append(s, r) = DOMAIN s \cup {Len(s) + 1} /\ Append(s, r)[Len(s) + 1] = r
      /\ \A n \in DOMAIN s : Append(s, r)[n] = s[n]
      /\ Len(s) + 1 \notin DOMAIN s
  OBVIOUS
<1>2. PICK t : t = Append(s, r)
  OBVIOUS
<1>3. IsInjective(t)
  BY <1>1, <1>2 DEF IsInjective, Range
<1>4. Range(t) = Range(s) \cup {r}
  BY <1>1, <1>2 DEF Range
<1> QED BY <1>2, <1>3, <1>4

LEMMA RowsOfFacts ==
  ASSUME NEW e, NEW hs
  PROVE  /\ \A r \in RowsOf(e, hs) : r = <<r[1], r[2]>> /\ r[1] \in hs /\ r[2] \in 1..RowsPer[e][r[1]]
         /\ \A h \in hs : \A j \in 1..RowsPer[e][h] : <<h, j>> \in RowsOf(e, hs)
         /\ \A h, j : <<h, j>> \in RowsOf(e, hs) => h \in hs /\ j \in 1..RowsPer[e][h]
         /\ \A h : RowsOf(e, hs \cup {h}) = RowsOf(e, hs) \cup ({h} \X (1..RowsPer[e][h]))
<1>1. \A r \in RowsOf(e, hs) : r = <<r[1], r[2]>> /\ r[1] \in hs /\ r[2] \in 1..RowsPer[e][r[1]]
  BY DEF RowsOf
<1>2. \A h \in hs : \A j \in 1..RowsPer[e][h] : <<h, j>> \in RowsOf(e, hs)
  BY DEF RowsOf
<1>3. \A h, j : <<h, j>> \in RowsOf(e, hs) => h \in hs /\ j \in 1..RowsPer[e][h]
  BY DEF RowsOf
<1>4. \A h : RowsOf(e, hs \cup {h}) = RowsOf(e, hs) \cup ({h} \X (1..RowsPer[e][h]))
  BY DEF RowsOf
<1> QED BY <1>1, <1>2, <1>3, <1>4

LEMMA PartOfFacts == \A h \in Nat : PartOf(h) \in Nat
  BY SizeAssumption DEF PartOf

-----------------------------------------------------------------------------
(* The sink.                                                               *)

\* A pass begins, or is dropped.
LEMMA BeginStep ==
  ASSUME SinkInv, NEW from \in 0..Tip, NEW to \in (from + 1)..(Tip + 1), BeginPass(from, to)
  PROVE  SinkInv'
<1>1. /\ ppc' = "open" /\ part' = PartOf(from) /\ height' = from /\ end' = to /\ k' = 1 /\ i' = 1
      /\ buffered' = NoRows /\ written' = NoRows /\ files' = files
  BY DEF BeginPass, fileVars
<1>2. from \in Nat /\ part' \in Nat /\ to \in Nat /\ from < to /\ to <= Tip + 1
  BY <1>1, SizeAssumption, PartOfFacts
<1>3. k' \in Idx /\ \A a \in Idx : ~(a < 1)
  BY <1>1, EntityFacts DEF Idx
<1>4. SinkType'
  BY <1>1, <1>2, <1>3, EmptyFacts DEF SinkInv, SinkType
<1> QED BY <1>1, <1>3, <1>4 DEF SinkInv, NoRows

LEMMA FailsStep ==
  ASSUME SinkInv, PassFails
  PROVE  SinkInv'
<1>1. /\ ppc' = "down" /\ part' = 0 /\ height' = 0 /\ end' = 0 /\ k' = 1 /\ i' = 1
      /\ buffered' = NoRows /\ written' = NoRows /\ files' = files
  BY DEF PassFails, fileVars
<1>2. k' \in Idx /\ 0 <= Tip + 1
  BY <1>1, EntityFacts, SizeAssumption DEF Idx
<1>3. SinkType'
  BY <1>1, <1>2, EmptyFacts DEF SinkInv, SinkType
<1> QED BY <1>1, <1>3 DEF SinkInv

\* The next entity, or the first again after the last.
LEMMA NextEntity ==
  ASSUME SinkInv
  PROVE  /\ k \in Idx /\ E = Entities[k] /\ E \in Entity
         /\ ~LastEntity => k + 1 \in Idx
         /\ LastEntity => \A a \in Idx : a <= k
         /\ 1 \in Idx
         /\ \A a \in Idx : ~(a < 1) /\ (a < k + 1 => a < k \/ a = k)
<1>1. k \in Idx
  BY DEF SinkInv, SinkType
<1>2. k \in 1..Len(Entities) /\ Len(Entities) \in Nat /\ Len(Entities) >= 1
  BY <1>1, EntityFacts DEF Idx
<1>3. ~LastEntity => k + 1 \in Idx
  BY <1>2 DEF LastEntity, Idx
<1>4. (LastEntity => \A a \in Idx : a <= k) /\ 1 \in Idx
  BY <1>2 DEF LastEntity, Idx
<1>5. \A a \in Idx : ~(a < 1) /\ (a < k + 1 => a < k \/ a = k)
  BY <1>2 DEF Idx
<1> QED BY <1>1, <1>3, <1>4, <1>5, EntityFacts DEF E

LEMMA CreateStep ==
  ASSUME SinkInv, FilesInv, CreateWriter
  PROVE  SinkInv' /\ FilesInv'
<1> DEFINE x0 == <<E, part>>
<1>1. /\ ppc \in {"open", "create"}
      /\ opened' = opened \cup {x0}
      /\ files' = [x \in DOMAIN files \ {x0} |-> files[x]]
      /\ part' = part /\ height' = height /\ end' = end /\ i' = i
      /\ buffered' = buffered /\ written' = written
      /\ LastEntity => ppc' = (IF ppc = "open" THEN "recv" ELSE "push") /\ k' = 1
      /\ ~LastEntity => ppc' = ppc /\ k' = k + 1
  BY DEF CreateWriter
<1>2. DOMAIN files' = DOMAIN files \ {x0} /\ \A x \in DOMAIN files' : files'[x] = files[x]
  BY <1>1
<1>3. i = 1 /\ buffered = NoRows /\ written = NoRows
  BY <1>1 DEF SinkInv, SinkType
<1>4. \A a \in Idx : a < k \/ a = k => <<Entities[a], part>> \in opened' \ DOMAIN files'
  BY <1>1, <1>2, NextEntity DEF SinkInv
<1>5. SinkType'
  <2>1. 1 <= RowsPer[Entities[1]][height] + 1
    <3>1. height \in 0..Tip /\ 1 \in Idx
      BY <1>1, SizeAssumption, NextEntity DEF SinkInv, SinkType
    <3> QED BY <3>1, EntityFacts
  <2> QED BY <1>1, <1>2, <1>3, <2>1, NextEntity DEF SinkInv, SinkType
<1>6. SinkInv'
  <2>1. CASE ~LastEntity
    <3>1. \A a \in Idx : a < k' => <<Entities[a], part'>> \in opened' \ DOMAIN files'
      BY <1>1, <1>4, <2>1, NextEntity
    <3> QED BY <1>1, <1>3, <1>5, <2>1, <3>1 DEF SinkInv, NoRows, PartOf
  <2>2. CASE LastEntity
    <3>1. \A a \in Idx : <<Entities[a], part'>> \in opened' \ DOMAIN files'
      <4>1. \A a \in Idx : a < k \/ a = k
        BY <2>2, NextEntity DEF Idx
      <4> QED BY <1>1, <1>4, <4>1
    <3>2. \A a \in Idx : Content(Entities[a])' = <<>>
      BY <1>1, <1>3, EntityFacts, EmptyFacts DEF Content, NoRows
    <3>3. \A a \in Idx : Pushed(a)' = 0
      BY <1>1, <1>3, <2>2 DEF Pushed, Idx
    <3>4. \A a \in Idx : {} = RowsOf(Entities[a], {}) \cup ({height'} \X (1..0))
      BY DEF RowsOf
    <3>5. PartHas({})'
      BY <3>1, <3>2, <3>3, <3>4, EmptyFacts DEF PartHas
    <3>6. ppc' = "push" => PartOf(height)' = part'
      BY <1>1, <2>2 DEF SinkInv, PartOf
    <3> QED BY <1>1, <1>5, <2>2, <3>5, <3>6 DEF SinkInv
  <2> QED BY <2>1, <2>2
<1>7. FilesInv'
  <2>1. \A x \in DOMAIN files' : x \in DOMAIN files
    BY <1>2
  <2>2. PartsAgree'
    <3> SUFFICES ASSUME NEW x \in DOMAIN files'
                 PROVE  \E hs \in SUBSET HeightsOf(x[2]) : \A e \in Entity :
                          <<e, x[2]>> \in DOMAIN files' =>
                            /\ IsInjective(files'[<<e, x[2]>>])
                            /\ Range(files'[<<e, x[2]>>]) = RowsOf(e, hs)
      BY DEF PartsAgree, HeightsOf, PartOf
    <3>1. PICK hs \in SUBSET HeightsOf(x[2]) : \A e \in Entity :
            <<e, x[2]>> \in DOMAIN files =>
              /\ IsInjective(files[<<e, x[2]>>])
              /\ Range(files[<<e, x[2]>>]) = RowsOf(e, hs)
      BY <2>1 DEF FilesInv, PartsAgree
    <3> QED BY <1>2, <3>1
  <2>3. \A x \in DOMAIN files', e \in Entity : <<e, x[2]>> \in opened' \cup DOMAIN files'
    BY <1>1, <1>2, <2>1 DEF FilesInv
  <2> QED BY <2>2, <2>3 DEF FilesInv
<1> QED BY <1>6, <1>7

\* The sink turns to the next block, or to closing the part.
LEMMA ReceiveStep ==
  ASSUME SinkInv, Receive
  PROVE  SinkInv'
<1>1. /\ ppc = "recv" /\ ppc' \in {"push", "flush"} /\ (ppc' = "push" => PartOf(height) = part)
      /\ part' = part /\ height' = height /\ k' = k /\ i' = i /\ end' \in {end, height}
      /\ ppc' = "push" => end' = end
      /\ buffered' = buffered /\ written' = written /\ files' = files /\ opened' = opened
  BY DEF Receive, fileVars
<1>2. k = 1 /\ i = 1
  BY <1>1 DEF SinkInv, SinkType
<1>3. PICK hs : PartHas(hs)
  BY <1>1 DEF SinkInv
<1>4. \A a \in Idx : Pushed(a)' = Pushed(a) /\ Content(Entities[a])' = Content(Entities[a])
  BY <1>1, <1>2 DEF Pushed, Content, Idx
<1>5. PartHas(hs)'
  BY <1>1, <1>3, <1>4 DEF PartHas, HeightsOf, PartOf
<1>6. SinkType'
  <2>1. height \in 0..Tip /\ 1 \in Idx
    BY <1>1, SizeAssumption, NextEntity DEF SinkInv, SinkType
  <2>2. 1 <= RowsPer[Entities[1]][height] + 1
    BY <2>1, EntityFacts
  <2>3. height \in Nat /\ height <= Tip + 1
    BY <2>1, SizeAssumption
  <2> QED BY <1>1, <1>2, <2>2, <2>3 DEF SinkInv, SinkType
<1> QED BY <1>1, <1>2, <1>5, <1>6, NextEntity DEF SinkInv, PartOf

\* Nothing of a stale block comes to the part.
LEMMA SkipStep ==
  ASSUME SinkInv, Skip
  PROVE  SinkInv'
<1>1. /\ ppc = "recv" /\ ppc' = (IF height + 1 >= end THEN "flush" ELSE "recv")
      /\ part' = part /\ height' = height + 1 /\ end' = end /\ k' = k /\ i' = i
      /\ buffered' = buffered /\ written' = written /\ files' = files /\ opened' = opened
  BY DEF Skip, fileVars
<1>2. k = 1 /\ i = 1 /\ height \in Nat /\ end \in Nat
  BY <1>1 DEF SinkInv, SinkType
<1>3. PICK hs : PartHas(hs)
  BY <1>1 DEF SinkInv
<1>4. \A a \in Idx : /\ Pushed(a)' = 0 /\ Pushed(a) = 0
                     /\ Content(Entities[a])' = Content(Entities[a])
  BY <1>1 DEF Pushed, Content
<1>5. {height} \X (1..0) = {} /\ {height'} \X (1..0) = {} /\ hs \subseteq 0..(height' - 1)
  BY <1>1, <1>2, <1>3 DEF PartHas
<1>6. PartHas(hs)'
  BY <1>1, <1>3, <1>4, <1>5 DEF PartHas, HeightsOf, PartOf
<1>7. SinkType'
  BY <1>1, <1>2 DEF SinkInv, SinkType
<1> QED BY <1>1, <1>2, <1>6, <1>7, NextEntity DEF SinkInv

\* A row comes to the entity at hand, in its builders or in a new row group.
LEMMA PushContent ==
  ASSUME SinkInv, Push
  PROVE  /\ buffered' \in [Entity -> Seq(AnyRow)] /\ written' \in [Entity -> Seq(AnyRow)]
         /\ Content(E) \in Seq(AnyRow) /\ <<height, i>> \in AnyRow
         /\ \A a \in Idx : LET e == Entities[a]
                           IN  written'[e] \o buffered'[e] =
                                 IF a = k THEN Append(Content(E), <<height, i>>) ELSE Content(e)
<1>1. PICK r : r = <<height, i>>
  OBVIOUS
<1>2. /\ E \in Entity /\ k \in Idx /\ E = Entities[k]
      /\ buffered \in [Entity -> Seq(AnyRow)] /\ written \in [Entity -> Seq(AnyRow)]
  BY NextEntity DEF SinkInv, SinkType
<1>3. r \in AnyRow
  <2>1. i \in Nat /\ height \in Nat
    BY DEF SinkInv, SinkType
  <2> QED BY <1>1, <2>1 DEF AnyRow
<1>4. buffered[E] \in Seq(AnyRow) /\ written[E] \in Seq(AnyRow)
  BY <1>2
<1>5. /\ Append(buffered[E], r) \in Seq(AnyRow) /\ written[E] \o Append(buffered[E], r) \in Seq(AnyRow)
      /\ Content(E) \in Seq(AnyRow)
  BY <1>3, <1>4, AppendProperties, ConcatProperties DEF Content
<1>6. /\ written[E] \o Append(buffered[E], r) = Append(Content(E), r)
      /\ (written[E] \o Append(buffered[E], r)) \o <<>> = Append(Content(E), r)
  BY <1>3, <1>4, AppendContent DEF Content
<1>7. \A a \in Idx : Entities[a] \in Entity /\ (Entities[a] = E => a = k)
  BY <1>2, EntityFacts
<1>8. CASE Len(Append(buffered[E], r)) >= BatchSize
  <2>1. /\ written' = [written EXCEPT ![E] = written[E] \o Append(buffered[E], r)]
        /\ buffered' = [buffered EXCEPT ![E] = <<>>]
    BY <1>1, <1>8 DEF Push, take_batch
  <2>2. written' \in [Entity -> Seq(AnyRow)] /\ buffered' \in [Entity -> Seq(AnyRow)]
    BY <1>2, <1>5, <2>1, EmptyFacts
  <2>3. /\ written'[E] = written[E] \o Append(buffered[E], r) /\ buffered'[E] = <<>>
        /\ \A e \in Entity : e # E => written'[e] = written[e] /\ buffered'[e] = buffered[e]
    BY <1>2, <2>1
  <2> QED BY <1>1, <1>2, <1>3, <1>5, <1>6, <1>7, <2>2, <2>3 DEF Content
<1>9. CASE ~(Len(Append(buffered[E], r)) >= BatchSize)
  <2>1. written' = written /\ buffered' = [buffered EXCEPT ![E] = Append(buffered[E], r)]
    BY <1>1, <1>9 DEF Push
  <2>2. written' \in [Entity -> Seq(AnyRow)] /\ buffered' \in [Entity -> Seq(AnyRow)]
    BY <1>2, <1>5, <2>1
  <2>3. /\ buffered'[E] = Append(buffered[E], r)
        /\ \A e \in Entity : written'[e] = written[e] /\ (e # E => buffered'[e] = buffered[e])
    BY <1>2, <2>1
  <2> QED BY <1>1, <1>2, <1>3, <1>5, <1>6, <1>7, <2>2, <2>3 DEF Content
<1> QED BY <1>8, <1>9

LEMMA PushStep ==
  ASSUME SinkInv, Push
  PROVE  SinkInv'
<1>1. /\ ppc = "push" /\ i <= RowsPer[E][height] /\ i' = i + 1
      /\ ppc' = ppc /\ part' = part /\ height' = height /\ end' = end /\ k' = k
      /\ files' = files /\ opened' = opened
  BY DEF Push, fileVars
<1>2. PICK hs : PartHas(hs)
  BY <1>1 DEF SinkInv
<1>3. /\ height \in Nat /\ height \in 0..Tip /\ k \in Idx /\ k \in Nat /\ E = Entities[k]
      /\ i \in Nat /\ i >= 1 /\ RowsPer[E][height] \in Nat
  <2>1. /\ height \in Nat /\ height \in 0..Tip /\ k \in Idx /\ E = Entities[k] /\ i \in Nat /\ i >= 1
    BY <1>1, SizeAssumption, NextEntity DEF SinkInv, SinkType
  <2> QED BY <2>1, EntityFacts DEF Idx
<1>4. height \notin hs /\ Pushed(k) = i - 1
  BY <1>1, <1>2, <1>3 DEF PartHas, Pushed
<1>5. <<height, i>> \notin Range(Content(E)) /\ IsInjective(Content(E))
  <2>1. Range(Content(E)) = RowsOf(E, hs) \cup ({height} \X (1..(i - 1)))
    BY <1>2, <1>3, <1>4 DEF PartHas
  <2>2. i \notin 1..(i - 1)
    BY <1>3
  <2>3. <<height, i>> \notin RowsOf(E, hs)
    BY <1>4, RowsOfFacts
  <2> QED BY <1>2, <1>3, <2>1, <2>2, <2>3 DEF PartHas
<1>6. ASSUME NEW a \in Idx
      PROVE  /\ IsInjective(Content(Entities[a])')
             /\ Range(Content(Entities[a])') = RowsOf(Entities[a], hs) \cup ({height} \X (1..Pushed(a)'))
  <2>1. Content(Entities[a])' = IF a = k THEN Append(Content(E), <<height, i>>) ELSE Content(Entities[a])
    BY PushContent DEF Content
  <2>2. /\ IsInjective(Content(Entities[a]))
        /\ Range(Content(Entities[a])) = RowsOf(Entities[a], hs) \cup ({height} \X (1..Pushed(a)))
    BY <1>2 DEF PartHas
  <2>3. CASE a = k
    <3>1. /\ IsInjective(Append(Content(E), <<height, i>>))
          /\ Range(Append(Content(E), <<height, i>>)) = Range(Content(E)) \cup {<<height, i>>}
      BY <1>5, PushContent, AppendRange
    <3>2. Pushed(a) = i - 1 /\ Pushed(a)' = i
      BY <1>1, <1>3, <2>3 DEF Pushed
    <3>3. 1..i = (1..(i - 1)) \cup {i}
      BY <1>3
    <3>4. {height} \X (1..i) = ({height} \X (1..(i - 1))) \cup {<<height, i>>}
      BY <3>3
    <3> QED BY <1>3, <2>1, <2>2, <2>3, <3>1, <3>2, <3>4
  <2>4. CASE a # k
    <3>1. Pushed(a)' = Pushed(a)
      BY <1>1, <2>4 DEF Pushed
    <3> QED BY <2>1, <2>2, <2>4, <3>1
  <2> QED BY <2>3, <2>4
<1>7. PartHas(hs)'
  BY <1>1, <1>2, <1>6 DEF PartHas, HeightsOf, PartOf
<1>8. SinkType'
  <2>1. i' \in Nat /\ i' >= 1 /\ i' <= RowsPer[Entities[k]][height] + 1
    BY <1>1, <1>3
  <2> QED BY <1>1, <1>3, <2>1, PushContent DEF SinkInv, SinkType
<1> QED BY <1>1, <1>7, <1>8 DEF SinkInv, PartOf

\* The entity at hand has all its rows of the block; after the last entity the
\* block is one of the part's.
LEMMA RowsDoneStep ==
  ASSUME SinkInv, RowsDone
  PROVE  SinkInv'
<1>1. /\ ppc = "push" /\ i > RowsPer[E][height] /\ i' = 1
      /\ part' = part /\ end' = end /\ files' = files /\ opened' = opened
      /\ buffered' = buffered /\ written' = written
      /\ LastEntity => /\ k' = 1 /\ height' = height + 1
                       /\ ppc' = IF height + 1 >= end THEN "flush" ELSE "recv"
      /\ ~LastEntity => k' = k + 1 /\ ppc' = ppc /\ height' = height
  BY DEF RowsDone, fileVars
<1>2. PICK hs : PartHas(hs)
  BY <1>1 DEF SinkInv
<1>3. /\ height \in Nat /\ height \in 0..Tip /\ k \in Idx /\ k \in Nat /\ E = Entities[k]
      /\ end \in Nat /\ RowsPer[E][height] \in Nat /\ i = RowsPer[E][height] + 1
      /\ PartOf(height) = part
  <2>1. /\ height \in Nat /\ height \in 0..Tip /\ k \in Idx /\ E = Entities[k] /\ i \in Nat
        /\ end \in Nat /\ i <= RowsPer[Entities[k]][height] + 1 /\ PartOf(height) = part
    BY <1>1, SizeAssumption, NextEntity DEF SinkInv, SinkType
  <2>2. RowsPer[E][height] \in Nat
    BY <2>1, EntityFacts
  <2> QED BY <1>1, <2>1, <2>2 DEF Idx
<1>4. \A a \in Idx : Content(Entities[a])' = Content(Entities[a])
  BY <1>1 DEF Content
<1>5. \A a \in Idx : a \in Nat /\ (a > k + 1 \/ a = k + 1 \/ a < k + 1)
  BY <1>3 DEF Idx
<1>6. CASE ~LastEntity
  <2>1. \A a \in Idx : {height} \X (1..Pushed(a)') = {height} \X (1..Pushed(a))
    <3> SUFFICES ASSUME NEW a \in Idx PROVE Pushed(a)' = Pushed(a)
      OBVIOUS
    <3>1. CASE a < k
      BY <1>1, <1>3, <1>5, <1>6, <3>1 DEF Pushed
    <3>2. CASE a = k
      BY <1>1, <1>3, <1>5, <1>6, <3>2 DEF Pushed
    <3>3. CASE a > k
      BY <1>1, <1>3, <1>5, <1>6, <3>3 DEF Pushed
    <3>4. a < k \/ a = k \/ a > k
      BY <1>3, <1>5
    <3> QED BY <3>1, <3>2, <3>3, <3>4
  <2>2. PartHas(hs)'
    BY <1>1, <1>2, <1>4, <1>6, <2>1 DEF PartHas, HeightsOf, PartOf
  <2>3. SinkType'
    <3>1. 1 <= RowsPer[Entities[k + 1]][height] + 1
      BY <1>3, <1>6, NextEntity, EntityFacts
    <3> QED BY <1>1, <1>3, <1>6, <3>1, NextEntity DEF SinkInv, SinkType
  <2> QED BY <1>1, <1>3, <1>6, <2>2, <2>3 DEF SinkInv, PartOf
<1>7. CASE LastEntity
  <2>1. PICK hh : hh = hs \cup {height}
    OBVIOUS
  <2>2. \A a \in Idx : Pushed(a) = RowsPer[Entities[a]][height]
    <3>1. \A a \in Idx : a <= k
      BY <1>7, NextEntity
    <3> QED BY <1>1, <1>3, <1>5, <3>1 DEF Pushed
  <2>3. \A a \in Idx : Pushed(a)' = 0
    BY <1>1, <1>7 DEF Pushed
  <2>4. \A a \in Idx : RowsOf(Entities[a], hh) =
                        RowsOf(Entities[a], hs) \cup ({height} \X (1..RowsPer[Entities[a]][height]))
    BY <2>1, RowsOfFacts
  <2>5. \A a \in Idx : Range(Content(Entities[a])') =
                        RowsOf(Entities[a], hh) \cup ({height'} \X (1..Pushed(a)'))
    <3> SUFFICES ASSUME NEW a \in Idx
                 PROVE  Range(Content(Entities[a])) = RowsOf(Entities[a], hh) \cup ({height'} \X (1..0))
      BY <1>4, <2>3
    <3>1. {height'} \X (1..0) = {}
      OBVIOUS
    <3>2. Range(Content(Entities[a])) = RowsOf(Entities[a], hs) \cup ({height} \X (1..Pushed(a)))
      BY <1>2 DEF PartHas
    <3> QED BY <2>2, <2>4, <3>1, <3>2
  <2>6. hh \subseteq 0..(height' - 1)
    BY <1>1, <1>2, <1>3, <1>7, <2>1 DEF PartHas
  <2>7. hh \subseteq HeightsOf(part)'
    BY <1>1, <1>2, <1>3, <2>1 DEF PartHas, HeightsOf, PartOf
  <2>8. \A a \in Idx : <<Entities[a], part>> \in opened /\ <<Entities[a], part>> \notin DOMAIN files
    BY <1>1, <1>2 DEF PartHas
  <2>9. \A a \in Idx : IsInjective(Content(Entities[a])')
    BY <1>2, <1>4 DEF PartHas
  <2>10. PartHas(hh)'
    BY <1>1, <2>5, <2>6, <2>7, <2>8, <2>9 DEF PartHas
  <2>11. SinkType'
    BY <1>1, <1>3, <1>7, NextEntity DEF SinkInv, SinkType
  <2> QED BY <1>1, <1>7, <2>10, <2>11, NextEntity DEF SinkInv
<1> QED BY <1>6, <1>7

\* finish writes what is left in the builders; the content stays the same.
LEMMA FlushStep ==
  ASSUME SinkInv, Flush
  PROVE  SinkInv'
<1>1. /\ ppc = "flush" /\ part' = part /\ height' = height /\ end' = end /\ i' = i
      /\ files' = files /\ opened' = opened
      /\ written' = [written EXCEPT ![E] = written[E] \o buffered[E]]
      /\ buffered' = [buffered EXCEPT ![E] = <<>>]
      /\ LastEntity => ppc' = "close" /\ k' = 1
      /\ ~LastEntity => ppc' = "flush" /\ k' = k + 1
  BY DEF Flush, PartialBatch, fileVars
<1>2. PICK hs : PartHas(hs)
  BY <1>1 DEF SinkInv
<1>3. /\ E \in Entity /\ k \in Idx /\ E = Entities[k] /\ i = 1
      /\ buffered \in [Entity -> Seq(AnyRow)] /\ written \in [Entity -> Seq(AnyRow)]
  BY <1>1, NextEntity DEF SinkInv, SinkType
<1>4. /\ written[E] \o buffered[E] \in Seq(AnyRow)
      /\ (written[E] \o buffered[E]) \o <<>> = written[E] \o buffered[E]
  BY <1>3, ConcatProperties, ConcatEmptySeq
<1>5. written' \in [Entity -> Seq(AnyRow)] /\ buffered' \in [Entity -> Seq(AnyRow)]
  BY <1>1, <1>3, <1>4, EmptyFacts
<1>6. \A e \in Entity : written'[e] \o buffered'[e] = Content(e)
  BY <1>1, <1>3, <1>4 DEF Content
<1>7. \A a \in Idx : Content(Entities[a])' = Content(Entities[a]) /\ Pushed(a)' = Pushed(a)
  BY <1>1, <1>6, EntityFacts DEF Content, Pushed
<1>8. \A a \in Idx : <<Entities[a], part>> \in opened /\ <<Entities[a], part>> \notin DOMAIN files
  BY <1>1, <1>2 DEF PartHas
<1>9. PartHas(hs)'
  BY <1>1, <1>2, <1>7, <1>8 DEF PartHas, HeightsOf, PartOf
<1>10. \A a \in Idx : a < k \/ a = k => buffered'[Entities[a]] = <<>>
  BY <1>1, <1>3, EntityFacts DEF SinkInv
<1>11. SinkType'
  BY <1>1, <1>3, <1>5, NextEntity DEF SinkInv, SinkType
<1>12. CASE ~LastEntity
  <2>1. \A a \in Idx : a < k' => buffered'[Entities[a]] = <<>>
    BY <1>1, <1>10, <1>12, NextEntity
  <2> QED BY <1>1, <1>9, <1>11, <1>12, <2>1 DEF SinkInv
<1>13. CASE LastEntity
  <2>1. \A a \in Idx : a < k \/ a = k
    BY <1>13, NextEntity DEF Idx
  <2>2. \A e \in Entity : buffered'[e] = <<>>
    BY <1>10, <2>1, EntityFacts
  <2>3. buffered' = NoRows
    BY <1>5, <2>2 DEF NoRows
  <2> QED BY <1>1, <1>9, <1>11, <1>13, <2>3 DEF SinkInv, NoRows
<1> QED BY <1>12, <1>13

\* A file gets its footer: it has what the files closed before it have.
LEMMA CloseStep ==
  ASSUME SinkInv, FilesInv, CloseWriter
  PROVE  SinkInv' /\ FilesInv'
<1>0. PICK x0, rows : x0 = <<E, part>> /\ rows = written[E]
  OBVIOUS
<1>1. /\ ppc = "close" /\ opened' = opened \ {x0}
      /\ files' = [x \in DOMAIN files \cup {x0} |-> IF x = x0 THEN rows ELSE files[x]]
      /\ i' = i /\ buffered' = buffered
      /\ LastEntity => /\ k' = 1 /\ written' = NoRows
                       /\ \/ ppc' = "down" /\ part' = 0 /\ height' = 0 /\ end' = 0
                          \/ /\ ppc' = "create" /\ part' = PartOf(height) /\ ~(height >= end)
                             /\ height' = height /\ end' = end
      /\ ~LastEntity => /\ k' = k + 1 /\ ppc' = ppc /\ part' = part /\ written' = written
                        /\ height' = height /\ end' = end
  BY <1>0 DEF CloseWriter
<1>2. PICK hs : PartHas(hs)
  BY <1>1 DEF SinkInv
<1>3. /\ E \in Entity /\ k \in Idx /\ E = Entities[k] /\ i = 1 /\ part \in Nat
      /\ height \in Nat /\ end \in Nat
      /\ k \in Nat
      /\ buffered = NoRows /\ written \in [Entity -> Seq(AnyRow)]
      /\ DOMAIN files \subseteq Entity \X Nat
  BY <1>1, NextEntity DEF SinkInv, SinkType, Idx
<1>4. \A a \in Idx : /\ Content(Entities[a]) = written[Entities[a]]
                     /\ IsInjective(written[Entities[a]])
                     /\ Range(written[Entities[a]]) = RowsOf(Entities[a], hs)
  <2> SUFFICES ASSUME NEW a \in Idx
               PROVE  /\ Content(Entities[a]) = written[Entities[a]]
                      /\ IsInjective(written[Entities[a]])
                      /\ Range(written[Entities[a]]) = RowsOf(Entities[a], hs)
    OBVIOUS
  <2>1. Entities[a] \in Entity
    BY EntityFacts
  <2>2. buffered[Entities[a]] = <<>> /\ written[Entities[a]] \in Seq(AnyRow)
    BY <1>3, <2>1 DEF NoRows
  <2>3. Content(Entities[a]) = written[Entities[a]]
    BY <2>2, ConcatEmptySeq DEF Content
  <2>4. Pushed(a) = 0 /\ {height} \X (1..0) = {}
    BY <1>1 DEF Pushed
  <2> QED BY <1>2, <2>3, <2>4 DEF PartHas
<1>5. IsInjective(rows) /\ Range(rows) = RowsOf(E, hs)
  BY <1>0, <1>3, <1>4
<1>6. /\ \A a \in Idx : /\ <<Entities[a], part>> \in opened \cup DOMAIN files
                        /\ <<Entities[a], part>> \in DOMAIN files =>
                             /\ a < k /\ IsInjective(files[<<Entities[a], part>>])
                             /\ Range(files[<<Entities[a], part>>]) = RowsOf(Entities[a], hs)
                        /\ <<Entities[a], part>> = x0 => a = k
      /\ x0 \notin DOMAIN files
  <2>1. \A a \in Idx : /\ <<Entities[a], part>> \in opened \cup DOMAIN files
                       /\ <<Entities[a], part>> \in DOMAIN files =>
                            /\ a < k /\ IsInjective(files[<<Entities[a], part>>])
                            /\ Range(files[<<Entities[a], part>>]) = RowsOf(Entities[a], hs)
    BY <1>2 DEF PartHas
  <2>2. \A a \in Idx : <<Entities[a], part>> = x0 => a = k
    BY <1>0, <1>3, EntityFacts
  <2>3. x0 \notin DOMAIN files
    BY <1>0, <1>3, <2>1
  <2> QED BY <2>1, <2>2, <2>3
<1>7. /\ DOMAIN files' = DOMAIN files \cup {x0} /\ files'[x0] = rows
      /\ \A x \in DOMAIN files : files'[x] = files[x]
      /\ x0 \in Entity \X Nat /\ DOMAIN files' \subseteq Entity \X Nat
  BY <1>0, <1>1, <1>3, <1>6
<1>8. SinkInv'
  <2>1. CASE ~LastEntity
    <3>1. \A a \in Idx : /\ Content(Entities[a])' = Content(Entities[a])
                         /\ Pushed(a)' = Pushed(a)
      BY <1>1, <2>1 DEF Content, Pushed
    <3>2. \A a \in Idx : a < k \/ a = k => a < k + 1
      BY <1>3 DEF Idx
    <3>3. \A a \in Idx : /\ <<Entities[a], part>> \in opened' \cup DOMAIN files'
                         /\ <<Entities[a], part>> \in DOMAIN files' =>
                              /\ a < k + 1 /\ IsInjective(files'[<<Entities[a], part>>])
                              /\ Range(files'[<<Entities[a], part>>]) = RowsOf(Entities[a], hs)
      BY <1>1, <1>3, <1>5, <1>6, <1>7, <3>2
    <3>4. PartHas(hs)'
      BY <1>1, <1>2, <2>1, <3>1, <3>3 DEF PartHas, HeightsOf, PartOf
    <3>5. SinkType'
      BY <1>1, <1>3, <1>7, <2>1, NextEntity DEF SinkInv, SinkType
    <3> QED BY <1>1, <1>3, <2>1, <3>4, <3>5 DEF SinkInv, NoRows
  <2>2. CASE LastEntity
    <3>1. part' \in Nat
      BY <1>1, <1>3, <2>2, PartOfFacts
    <3>2. SinkType'
      <4>1. 0 <= Tip + 1
        BY SizeAssumption
      <4>2. height' \in Nat /\ end' \in Nat /\ end' <= Tip + 1 /\ (ppc' = "create" => height' < end')
        BY <1>1, <1>3, <2>2, <4>1 DEF SinkInv, SinkType
      <4>3. k' \in Idx /\ k' = 1 /\ i' = 1 /\ ppc' \in {"down", "create"}
        BY <1>1, <1>3, <2>2, NextEntity
      <4>4. /\ buffered' \in [Entity -> Seq(AnyRow)] /\ written' \in [Entity -> Seq(AnyRow)]
            /\ DOMAIN files' \subseteq Entity \X Nat
        BY <1>1, <1>3, <1>7, <2>2, EmptyFacts
      <4> QED BY <3>1, <4>2, <4>3, <4>4 DEF SinkType
    <3>3. ppc' = "create" => PartOf(height)' = part'
      BY <1>1, <2>2 DEF PartOf
    <3> QED BY <1>1, <1>3, <2>2, <3>2, <3>3, NextEntity DEF SinkInv, NoRows
  <2> QED BY <2>1, <2>2
<1>9. FilesInv'
  <2>1. PICK e0, p0 : e0 = E /\ p0 = part
    OBVIOUS
  <2>2. x0 = <<e0, p0>> /\ x0[1] = e0 /\ x0[2] = p0 /\ e0 = Entities[k] /\ e0 \in Entity
    BY <1>0, <1>3, <2>1
  <2>3. \A e \in Entity : <<e, p0>> \in DOMAIN files' =>
          IsInjective(files'[<<e, p0>>]) /\ Range(files'[<<e, p0>>]) = RowsOf(e, hs)
    <3> SUFFICES ASSUME NEW e \in Entity, <<e, p0>> \in DOMAIN files'
                 PROVE  IsInjective(files'[<<e, p0>>]) /\ Range(files'[<<e, p0>>]) = RowsOf(e, hs)
      OBVIOUS
    <3>1. PICK a \in Idx : e = Entities[a]
      BY EntityFacts
    <3>2. CASE e = e0
      BY <1>5, <1>7, <2>1, <2>2, <3>2
    <3>3. CASE e # e0
      <4>1. <<e, p0>> # x0
        BY <2>2, <3>3
      <4>2. <<e, p0>> \in DOMAIN files /\ files'[<<e, p0>>] = files[<<e, p0>>]
        BY <1>7, <4>1
      <4> QED BY <1>6, <2>1, <3>1, <4>2
    <3> QED BY <3>2, <3>3
  <2>4. hs \in SUBSET HeightsOf(p0)
    BY <1>2, <2>1 DEF PartHas
  <2>5. PartsAgree'
    <3> SUFFICES ASSUME NEW x \in DOMAIN files'
                 PROVE  \E hh \in SUBSET HeightsOf(x[2]) : \A e \in Entity :
                          <<e, x[2]>> \in DOMAIN files' =>
                            /\ IsInjective(files'[<<e, x[2]>>])
                            /\ Range(files'[<<e, x[2]>>]) = RowsOf(e, hh)
      BY DEF PartsAgree, HeightsOf, PartOf
    <3>1. CASE x[2] = p0
      BY <2>3, <2>4, <3>1
    <3>2. CASE x[2] # p0
      <4>1. x # x0 /\ \A e : <<e, x[2]>> # x0
        BY <2>2, <3>2
      <4>2. x \in DOMAIN files
        BY <1>7, <4>1
      <4>3. PICK hh \in SUBSET HeightsOf(x[2]) : \A e \in Entity :
              <<e, x[2]>> \in DOMAIN files =>
                /\ IsInjective(files[<<e, x[2]>>])
                /\ Range(files[<<e, x[2]>>]) = RowsOf(e, hh)
        BY <4>2 DEF FilesInv, PartsAgree
      <4>4. \A e : <<e, x[2]>> \in DOMAIN files' =>
              <<e, x[2]>> \in DOMAIN files /\ files'[<<e, x[2]>>] = files[<<e, x[2]>>]
        BY <1>7, <4>1
      <4> QED BY <4>3, <4>4
    <3> QED BY <3>1, <3>2
  <2>6. \A x \in DOMAIN files', e \in Entity : <<e, x[2]>> \in opened' \cup DOMAIN files'
    <3> SUFFICES ASSUME NEW x \in DOMAIN files', NEW e \in Entity
                 PROVE  <<e, x[2]>> \in opened \cup DOMAIN files
      BY <1>1, <1>7
    <3>1. CASE x = x0
      <4>1. PICK a \in Idx : e = Entities[a]
        BY EntityFacts
      <4> QED BY <1>6, <2>1, <2>2, <3>1, <4>1
    <3>2. CASE x # x0
      BY <1>7, <3>2 DEF FilesInv
    <3> QED BY <3>1, <3>2
  <2> QED BY <2>5, <2>6 DEF FilesInv
<1> QED BY <1>8, <1>9

\* A step that leaves sink and directory alone.
LEMMA SinkSame ==
  ASSUME SinkInv, FilesInv, UNCHANGED <<sinkVars, fileVars>>
  PROVE  SinkInv' /\ FilesInv'
<1>1. /\ ppc' = ppc /\ part' = part /\ height' = height /\ end' = end /\ k' = k /\ i' = i
      /\ buffered' = buffered /\ written' = written /\ files' = files /\ opened' = opened
  BY DEF sinkVars, fileVars
<1>2. SinkType'
  BY <1>1 DEF SinkInv, SinkType
<1>3. ppc \in {"recv", "push", "flush", "close"} => \E hs : PartHas(hs)'
  <2> SUFFICES ASSUME NEW hs, PartHas(hs) PROVE PartHas(hs)'
    BY DEF SinkInv
  <2>1. \A a \in Idx : Content(Entities[a])' = Content(Entities[a]) /\ Pushed(a)' = Pushed(a)
    BY <1>1 DEF Content, Pushed
  <2> QED BY <1>1, <2>1 DEF PartHas, HeightsOf, PartOf
<1>4. SinkInv'
  BY <1>1, <1>2, <1>3 DEF SinkInv, NoRows, PartOf
<1>5. FilesInv'
  BY <1>1 DEF FilesInv, PartsAgree, HeightsOf, PartOf
<1> QED BY <1>4, <1>5

\* A step that leaves the directory alone.
LEMMA FilesSame ==
  ASSUME FilesInv, UNCHANGED fileVars
  PROVE  FilesInv'
  BY DEF fileVars, FilesInv, PartsAgree, HeightsOf, PartOf

LEMMA SinkInit == Init => SinkInv /\ FilesInv
<1> SUFFICES ASSUME Init PROVE SinkInv /\ FilesInv
  OBVIOUS
<1>1. /\ ppc = "down" /\ part = 0 /\ height = 0 /\ end = 0 /\ k = 1 /\ i = 1
      /\ buffered = NoRows /\ written = NoRows /\ DOMAIN files = {}
  BY DEF Init
<1>2. 1 \in Idx /\ 0 <= Tip + 1
  BY EntityFacts, SizeAssumption DEF Idx
<1>3. SinkType
  BY <1>1, <1>2, EmptyFacts DEF SinkType
<1> QED BY <1>1, <1>3 DEF SinkInv, FilesInv, PartsAgree

LEMMA SinkStep == SinkInv /\ FilesInv /\ [Next]_vars => SinkInv' /\ FilesInv'
<1> SUFFICES ASSUME SinkInv, FilesInv, [Next]_vars PROVE SinkInv' /\ FilesInv'
  OBVIOUS
<1>1. CASE InitSchema \/ BeginLoad \/ LoadEntity \/ LoadFails \/ UNCHANGED vars
  <2>1. UNCHANGED <<sinkVars, fileVars>>
    BY <1>1 DEF InitSchema, BeginLoad, LoadEntity, LoadFails, vars
  <2> QED BY <2>1, SinkSame
<1>2. CASE \/ \E from \in 0..Tip : \E to \in (from + 1)..(Tip + 1) : BeginPass(from, to)
           \/ Receive \/ Skip \/ Push \/ RowsDone \/ Flush \/ PassFails
  <2>1. UNCHANGED fileVars
    BY <1>2 DEF BeginPass, Receive, Skip, Push, RowsDone, Flush, PassFails
  <2>2. SinkInv'
    BY <1>2, BeginStep, ReceiveStep, SkipStep, PushStep, RowsDoneStep, FlushStep, FailsStep
  <2> QED BY <2>1, <2>2, FilesSame
<1> QED BY <1>1, <1>2, CreateStep, CloseStep DEF Next

LEMMA SinkHolds == Spec => [](SinkInv /\ FilesInv)
  BY SinkInit, SinkStep, PTL DEF Spec

\* The readable files of a part agree: each has every row of its blocks once,
\* and they are about the same blocks, although the batches of the entities
\* fill at different times and a pass may die between any two closes.
THEOREM PartsAgreeHolds == Spec => []PartsAgree
<1>1. FilesInv => PartsAgree
  BY DEF FilesInv
<1> QED BY <1>1, SinkHolds, PTL

-----------------------------------------------------------------------------
(* Rows and tables.                                                        *)

LEMMA RowFacts ==
  ASSUME NEW a \in Idx, NEW h \in 0..Tip, NEW j \in 1..RowsPer[Entities[a]][h]
  PROVE  <<h, j>> \in Row
<1>1. Entities[a] \in Entity
  BY EntityFacts
<1>2. <<h, j>> \in RowsOf(Entities[a], 0..Tip)
  BY RowsOfFacts
<1> QED BY <1>1, <1>2 DEF Row

\* The block of height h has rows in a file of the entity that can be read.
Present(e, h) == /\ <<e, PartOf(h)>> \in DOMAIN files
                 /\ <<h, 1>> \in Range(files[<<e, PartOf(h)>>])
Hit(e, h) == IF Present(e, h) THEN 1 ELSE 0

LEMMA HitType == \A e, h : Hit(e, h) \in {0, 1}
  BY DEF Hit

\* A row is once in the files that have its block, and in no other: a block is
\* in the file of its part only.
LEMMA CountFacts ==
  ASSUME SinkInv, FilesInv, NEW e \in Entity, NEW fs \in SUBSET Glob(e), NEW h \in 0..Tip, NEW j
  PROVE  /\ Cardinality(Occurrences(fs, <<h, j>>)) \in {0, Hit(e, h)}
         /\ fs = Glob(e) /\ j \in 1..RowsPer[e][h] => Cardinality(Occurrences(fs, <<h, j>>)) = Hit(e, h)
<1> DEFINE x0 == <<e, PartOf(h)>>
           O == Occurrences(fs, <<h, j>>)
<1>1. \A x \in Glob(e) : x \in DOMAIN files /\ x = <<e, x[2]>> /\ x[1] = e
  BY DEF Glob, SinkInv, SinkType
<1>2. \A x \in Glob(e) : \E hs \in SUBSET HeightsOf(x[2]) :
        IsInjective(files[x]) /\ Range(files[x]) = RowsOf(e, hs)
  BY <1>1 DEF FilesInv, PartsAgree
<1>3. ASSUME NEW y \in O
      PROVE  /\ Present(e, h) /\ y[1] = x0 /\ y[2] \in DOMAIN files[x0]
             /\ files[x0][y[2]] = <<h, j>> /\ y = <<x0, y[2]>>
  <2>1. PICK x \in fs : \E n \in DOMAIN files[x] : y = <<x, n>> /\ files[x][n] = <<h, j>>
    BY <1>3 DEF Occurrences
  <2>2. /\ <<h, j>> \in Range(files[x]) /\ y = <<x, y[2]>> /\ y[1] = x /\ y[2] \in DOMAIN files[x]
        /\ files[x][y[2]] = <<h, j>>
    BY <2>1 DEF Range
  <2>3. PICK hs \in SUBSET HeightsOf(x[2]) : Range(files[x]) = RowsOf(e, hs)
    BY <1>2
  <2>4. h \in hs /\ j \in 1..RowsPer[e][h]
    BY <2>2, <2>3, RowsOfFacts
  <2>5. 1 \in 1..RowsPer[e][h]
    <3>1. RowsPer[e][h] \in Nat
      BY RowAssumption DEF Entity
    <3> QED BY <2>4, <3>1
  <2>6. <<h, 1>> \in Range(files[x])
    BY <2>3, <2>4, <2>5, RowsOfFacts
  <2>7. x = x0
    BY <1>1, <2>3, <2>4 DEF HeightsOf
  <2> QED BY <1>1, <2>1, <2>2, <2>6, <2>7 DEF Present
<1>4. \A y, z \in O : y = z
  <2> SUFFICES ASSUME NEW y \in O, NEW z \in O PROVE y = z
    OBVIOUS
  <2>1. x0 \in Glob(e)
    <3>1. x0[1] = e
      OBVIOUS
    <3> QED BY <1>3, <3>1 DEF Present, Glob
  <2>2. y[2] = z[2]
    BY <1>2, <1>3, <2>1 DEF IsInjective
  <2> QED BY <1>3, <2>2
<1>5. Present(e, h) /\ fs = Glob(e) /\ j \in 1..RowsPer[e][h] => O # {}
  <2> SUFFICES ASSUME Present(e, h), fs = Glob(e), j \in 1..RowsPer[e][h] PROVE O # {}
    OBVIOUS
  <2>1. x0 \in fs /\ x0[2] = PartOf(h)
    <3>1. x0[1] = e /\ x0[2] = PartOf(h)
      OBVIOUS
    <3> QED BY <3>1 DEF Present, Glob
  <2>2. <<h, j>> \in Range(files[x0])
    <3>1. PICK hs \in SUBSET HeightsOf(x0[2]) : Range(files[x0]) = RowsOf(e, hs)
      BY <1>2, <2>1
    <3>2. h \in hs
      BY <3>1, RowsOfFacts DEF Present
    <3> QED BY <3>1, <3>2, RowsOfFacts
  <2>3. PICK n \in DOMAIN files[x0] : files[x0][n] = <<h, j>>
    BY <2>2 DEF Range
  <2>4. <<x0, n>> \in O
    BY <2>1, <2>3 DEF Occurrences
  <2> QED BY <2>4
<1>6. O = {} \/ \E y : O = {y}
  BY <1>4
<1> HIDE DEF O
<1>7. Cardinality(O) = IF O = {} THEN 0 ELSE 1
  BY <1>6, FS_EmptySet, FS_Singleton
<1>8. O # {} => Present(e, h)
  BY <1>3
<1>9. /\ Cardinality(O) \in {0, Hit(e, h)}
      /\ fs = Glob(e) /\ j \in 1..RowsPer[e][h] => Cardinality(O) = Hit(e, h)
  BY <1>5, <1>7, <1>8 DEF Hit
<1> QED BY <1>9 DEF O

-----------------------------------------------------------------------------
(* The loads.                                                              *)

Count(a, h, j) == table[Entities[a]][<<h, j>>]

\* During a load no file of an entity that is done lacks its footer.
Closed == \A a \in Idx : a < lk => \A x \in opened : x[1] # Entities[a]

LoadInv ==
  /\ table \in [Entity -> [Row -> Nat]]
  /\ lk \in Idx
  /\ ~raced /\ lpc = "load" => Closed

\* The first load.
FirstInv ==
  /\ lpc \in {"idle", "load", "ok", "err"} /\ loads \in Nat
  /\ loads = 0 => /\ lpc = "idle"
                  /\ \A a \in Idx : \A h \in 0..Tip : \A j \in 1..RowsPer[Entities[a]][h] : Count(a, h, j) = 0
  /\ loads = 1 /\ ~raced /\ lpc = "load" =>
       \A a \in Idx : \A h \in 0..Tip : \A j \in 1..RowsPer[Entities[a]][h] :
         Count(a, h, j) = IF a < lk THEN Hit(Entities[a], h) ELSE 0
  /\ loads = 1 /\ ~raced /\ lpc = "ok" =>
       \A h \in 0..Tip : \E v \in {0, 1} :
         \A a \in Idx : \A j \in 1..RowsPer[Entities[a]][h] : Count(a, h, j) = v

LEMMA CountType ==
  ASSUME LoadInv, NEW a \in Idx, NEW h \in 0..Tip, NEW j \in 1..RowsPer[Entities[a]][h]
  PROVE  Count(a, h, j) \in Nat
<1>1. <<h, j>> \in Row /\ Entities[a] \in Entity
  BY RowFacts, EntityFacts
<1> QED BY <1>1 DEF LoadInv, Count

\* Whoever has all its files has each block another has.
LEMMA HitsAgree ==
  ASSUME SinkInv, FilesInv, NEW d \in Entity, NEW e \in Entity, NEW h \in 0..Tip,
         NEW j \in 1..RowsPer[d][h], \A x \in opened : x[1] # d
  PROVE  Hit(e, h) <= Hit(d, h)
<1> SUFFICES ASSUME Present(e, h) PROVE Present(d, h)
  BY DEF Hit
<1>1. PICK x : x = <<e, PartOf(h)>>
  OBVIOUS
<1>2. x \in DOMAIN files /\ x[1] = e /\ x[2] = PartOf(h)
  BY <1>1 DEF Present
<1>3. <<d, PartOf(h)>> \in opened \cup DOMAIN files
  BY <1>2 DEF FilesInv
<1>4. <<d, PartOf(h)>>[1] = d
  OBVIOUS
<1>5. <<d, PartOf(h)>> \in DOMAIN files
  BY <1>3, <1>4
<1>6. PICK hs : \A c \in Entity : <<c, PartOf(h)>> \in DOMAIN files =>
                  Range(files[<<c, PartOf(h)>>]) = RowsOf(c, hs)
  BY <1>2 DEF FilesInv, PartsAgree
<1>7. h \in hs
  BY <1>6, RowsOfFacts DEF Present
<1>8. 1 \in 1..RowsPer[d][h]
  <2>1. RowsPer[d][h] \in Nat
    BY RowAssumption DEF Entity
  <2> QED BY <2>1
<1>9. <<h, 1>> \in RowsOf(d, hs)
  BY <1>7, <1>8, RowsOfFacts
<1> QED BY <1>5, <1>6, <1>9 DEF Present

\* An insert: one table grows, by what of its files was read.
LEMMA InsertStep ==
  ASSUME SinkInv, FilesInv, LoadInv, NEW fs \in SUBSET Glob(L),
         table' = [table EXCEPT ![L] = Inserted(L, fs)]
  PROVE  /\ table' \in [Entity -> [Row -> Nat]]
         /\ \A a \in Idx : \A h \in 0..Tip : \A j \in 1..RowsPer[Entities[a]][h] :
              /\ a # lk => Count(a, h, j)' = Count(a, h, j)
              /\ a = lk => /\ Count(a, h, j)' \in {Count(a, h, j), Count(a, h, j) + Hit(L, h)}
                           /\ fs = Glob(L) => Count(a, h, j)' = Count(a, h, j) + Hit(L, h)
<1>1. /\ L = Entities[lk] /\ lk \in Idx /\ L \in Entity /\ table \in [Entity -> [Row -> Nat]]
  BY EntityFacts DEF L, LoadInv
<1>2. PICK t : t = Inserted(L, fs)
  OBVIOUS
<1>3. DOMAIN t = Row /\ \A r \in Row : t[r] = table[L][r] + Cardinality(Occurrences(fs, r))
  BY <1>2 DEF Inserted
<1>4. t \in [Row -> Nat]
  <2> SUFFICES ASSUME NEW r \in Row PROVE Cardinality(Occurrences(fs, r)) \in Nat
    <3>1. \A r \in Row : table[L][r] \in Nat
      BY <1>1
    <3>2. \A r \in Row : t[r] \in Nat
      BY <1>3, <3>1
    <3> QED BY <1>2, <1>3, <3>2 DEF Inserted
  <2>1. PICK e \in Entity : r \in RowsOf(e, 0..Tip)
    BY DEF Row
  <2>2. r = <<r[1], r[2]>> /\ r[1] \in 0..Tip
    BY <2>1, RowsOfFacts
  <2>3. Cardinality(Occurrences(fs, <<r[1], r[2]>>)) \in {0, Hit(L, r[1])}
    BY <1>1, <2>2, CountFacts
  <2>4. Hit(L, r[1]) \in {0, 1}
    BY HitType
  <2>5. Cardinality(Occurrences(fs, <<r[1], r[2]>>)) \in Nat
    BY <2>3, <2>4
  <2> QED BY <2>2, <2>5
<1>5. table' = [table EXCEPT ![L] = t]
  BY <1>2
<1>6. table' \in [Entity -> [Row -> Nat]]
  BY <1>1, <1>4, <1>5
<1>7. ASSUME NEW a \in Idx, NEW h \in 0..Tip, NEW j \in 1..RowsPer[Entities[a]][h]
      PROVE  /\ a # lk => Count(a, h, j)' = Count(a, h, j)
             /\ a = lk => /\ Count(a, h, j)' \in {Count(a, h, j), Count(a, h, j) + Hit(L, h)}
                          /\ fs = Glob(L) => Count(a, h, j)' = Count(a, h, j) + Hit(L, h)
  <2>1. <<h, j>> \in Row /\ Entities[a] \in Entity
    BY RowFacts, EntityFacts
  <2>2. a # lk => Entities[a] # L
    BY <1>1, EntityFacts
  <2>3. CASE a # lk
    BY <1>1, <1>5, <2>1, <2>2, <2>3 DEF Count
  <2>4. CASE a = lk
    <3>1. Count(a, h, j)' = Count(a, h, j) + Cardinality(Occurrences(fs, <<h, j>>))
      BY <1>1, <1>3, <1>5, <2>1, <2>4 DEF Count
    <3>2. /\ Cardinality(Occurrences(fs, <<h, j>>)) \in {0, Hit(L, h)}
          /\ fs = Glob(L) => Cardinality(Occurrences(fs, <<h, j>>)) = Hit(L, h)
      BY <1>1, <2>4, CountFacts
    <3>3. Count(a, h, j) \in Nat
      BY CountType
    <3> QED BY <2>4, <3>1, <3>2, <3>3
  <2> QED BY <2>3, <2>4
<1> QED BY <1>6, <1>7

\* The table at hand has what its files have, and the next one is at hand.
LEMMA LoadEntityStep ==
  ASSUME SinkInv, FilesInv, LoadInv, FirstInv, LoadEntity
  PROVE  LoadInv' /\ FirstInv'
<1>1. /\ lpc = "load" /\ \A x \in opened : x[1] # L
      /\ table' = [table EXCEPT ![L] = Inserted(L, Glob(L))]
      /\ lk = Len(Entities) => lpc' = "ok" /\ lk' = lk
      /\ lk # Len(Entities) => lk' = lk + 1 /\ lpc' = "load"
      /\ files' = files /\ opened' = opened /\ loads' = loads /\ raced' = raced
  BY DEF LoadEntity, Readable, fileVars
<1>2. /\ table' \in [Entity -> [Row -> Nat]]
      /\ \A a \in Idx : \A h \in 0..Tip : \A j \in 1..RowsPer[Entities[a]][h] :
              Count(a, h, j)' = IF a = lk THEN Count(a, h, j) + Hit(L, h) ELSE Count(a, h, j)
  <2>1. Glob(L) \in SUBSET Glob(L)
    OBVIOUS
  <2>2. /\ table' \in [Entity -> [Row -> Nat]]
        /\ \A a \in Idx : \A h \in 0..Tip : \A j \in 1..RowsPer[Entities[a]][h] :
              /\ a # lk => Count(a, h, j)' = Count(a, h, j)
              /\ a = lk => Count(a, h, j)' = Count(a, h, j) + Hit(L, h)
    BY <1>1, <2>1, InsertStep, Zenon
  <2> QED BY <2>2
<1>3. /\ lk \in Idx /\ lk \in Nat /\ L = Entities[lk] /\ \A a \in Idx : a \in Nat /\ a <= Len(Entities)
      /\ Len(Entities) \in Nat /\ L \in Entity
  BY EntityFacts DEF LoadInv, L, Idx
<1>4. lk' \in Idx
  BY <1>1, <1>3 DEF Idx
<1>6. \A e, h : Hit(e, h)' = Hit(e, h)
  BY <1>1 DEF Hit, Present, PartOf
<1>7. ~raced => \A a \in Idx : a <= lk => \A x \in opened : x[1] # Entities[a]
  BY <1>1, <1>3 DEF LoadInv, Closed
<1>8. ~raced /\ lpc' = "load" => Closed'
  BY <1>1, <1>3, <1>7 DEF Closed
<1>9. LoadInv'
  BY <1>1, <1>2, <1>4, <1>8 DEF LoadInv, Row
<1>10. loads = 1 /\ ~raced =>
         \A a \in Idx : \A h \in 0..Tip : \A j \in 1..RowsPer[Entities[a]][h] :
           Count(a, h, j)' = IF a < lk + 1 THEN Hit(Entities[a], h) ELSE 0
  <2> SUFFICES ASSUME loads = 1, ~raced, NEW a \in Idx, NEW h \in 0..Tip, NEW j \in 1..RowsPer[Entities[a]][h]
               PROVE  Count(a, h, j)' = IF a < lk + 1 THEN Hit(Entities[a], h) ELSE 0
    OBVIOUS
  <2>1. Count(a, h, j) = IF a < lk THEN Hit(Entities[a], h) ELSE 0
    BY <1>1 DEF FirstInv
  <2>2. Count(a, h, j)' = IF a = lk THEN Count(a, h, j) + Hit(L, h) ELSE Count(a, h, j)
    BY <1>2
  <2>3. Hit(Entities[a], h) \in {0, 1} /\ Hit(L, h) \in {0, 1}
    BY HitType
  <2>4. a \in Nat
    BY <1>3
  <2>5. CASE a < lk
    BY <1>3, <2>1, <2>2, <2>4, <2>5
  <2>6. CASE a = lk
    BY <1>3, <2>1, <2>2, <2>3, <2>4, <2>6
  <2>7. CASE a > lk
    BY <1>3, <2>1, <2>2, <2>4, <2>7
  <2> QED BY <1>3, <2>4, <2>5, <2>6, <2>7
<1>11. loads = 1 /\ ~raced /\ lpc' = "ok" =>
         \A h \in 0..Tip : \E v \in {0, 1} :
           \A a \in Idx : \A j \in 1..RowsPer[Entities[a]][h] : Count(a, h, j)' = v
  <2> SUFFICES ASSUME loads = 1, ~raced, lpc' = "ok", NEW h \in 0..Tip
               PROVE  \E v \in {0, 1} :
                        \A a \in Idx : \A j \in 1..RowsPer[Entities[a]][h] : Count(a, h, j)' = v
    OBVIOUS
  <2>1. \A a \in Idx : a <= lk /\ a < lk + 1
    BY <1>1, <1>3
  <2>2. \A a \in Idx : \A x \in opened : x[1] # Entities[a]
    BY <1>7, <2>1
  <2>3. \A a \in Idx : \A j \in 1..RowsPer[Entities[a]][h] : Count(a, h, j)' = Hit(Entities[a], h)
    BY <1>10, <2>1
  <2>4. \A a, b \in Idx : \A j \in 1..RowsPer[Entities[a]][h] : Hit(Entities[b], h) <= Hit(Entities[a], h)
    <3> SUFFICES ASSUME NEW a \in Idx, NEW b \in Idx, NEW j \in 1..RowsPer[Entities[a]][h]
                 PROVE  Hit(Entities[b], h) <= Hit(Entities[a], h)
      OBVIOUS
    <3>1. Entities[a] \in Entity /\ Entities[b] \in Entity
      BY EntityFacts
    <3> QED BY <2>2, <3>1, HitsAgree
  <2>5. CASE \E b \in Idx : \E m \in 1..RowsPer[Entities[b]][h] : TRUE
    <3>1. PICK b \in Idx : \E m \in 1..RowsPer[Entities[b]][h] : TRUE
      BY <2>5
    <3>2. \A a \in Idx : \A j \in 1..RowsPer[Entities[a]][h] : Hit(Entities[a], h) = Hit(Entities[b], h)
      <4> SUFFICES ASSUME NEW a \in Idx, NEW j \in 1..RowsPer[Entities[a]][h]
                   PROVE  Hit(Entities[a], h) = Hit(Entities[b], h)
        OBVIOUS
      <4>1. Hit(Entities[b], h) <= Hit(Entities[a], h) /\ Hit(Entities[a], h) <= Hit(Entities[b], h)
        BY <2>4, <3>1
      <4>2. Hit(Entities[a], h) \in {0, 1} /\ Hit(Entities[b], h) \in {0, 1}
        BY HitType
      <4> QED BY <4>1, <4>2
    <3>3. Hit(Entities[b], h) \in {0, 1}
      BY HitType
    <3> QED BY <2>3, <3>2, <3>3
  <2>6. CASE ~\E b \in Idx : \E m \in 1..RowsPer[Entities[b]][h] : TRUE
    BY <2>6
  <2> QED BY <2>5, <2>6
<1>12. FirstInv'
  <2>1. loads \in Nat /\ loads # 0 /\ lpc' \in {"ok", "load"}
    BY <1>1 DEF FirstInv
  <2>2. lpc' = "load" => lk' = lk + 1
    BY <1>1
  <2> QED BY <1>1, <1>6, <1>10, <1>11, <2>1, <2>2 DEF FirstInv
<1> QED BY <1>9, <1>12

LEMMA LoadFailsStep ==
  ASSUME SinkInv, FilesInv, LoadInv, FirstInv, LoadFails
  PROVE  LoadInv' /\ FirstInv'
<1>1. /\ lpc = "load" /\ lpc' = "err" /\ lk' = lk /\ loads' = loads /\ raced' = raced
      /\ table' = table \/ \E fs \in SUBSET Glob(L) : table' = [table EXCEPT ![L] = Inserted(L, fs)]
  BY DEF LoadFails
<1>2. table' \in [Entity -> [Row -> Nat]]
  BY <1>1, InsertStep DEF LoadInv
<1>3. loads # 0
  BY <1>1 DEF FirstInv
<1> QED BY <1>1, <1>2, <1>3 DEF LoadInv, FirstInv, Row

LEMMA BeginLoadStep ==
  ASSUME LoadInv, FirstInv, BeginLoad
  PROVE  LoadInv' /\ FirstInv'
<1>1. /\ lpc' = "load" /\ lk' = 1 /\ loads' = loads + 1 /\ table' = table /\ raced' = raced
  BY DEF BeginLoad
<1>2. 1 \in Idx /\ \A a \in Idx : ~(a < 1)
  BY EntityFacts DEF Idx
<1>3. LoadInv'
  BY <1>1, <1>2 DEF LoadInv, Closed, Row
<1>4. loads \in Nat /\ loads' \in Nat /\ loads' # 0 /\ (loads' = 1 => loads = 0)
  BY <1>1 DEF FirstInv
<1>5. loads' = 1 => \A a \in Idx : \A h \in 0..Tip : \A j \in 1..RowsPer[Entities[a]][h] : Count(a, h, j)' = 0
  BY <1>1, <1>4 DEF FirstInv, Count
<1> QED BY <1>1, <1>2, <1>3, <1>4, <1>5 DEF FirstInv

\* Without a step of the loader the tables stay; a file that changes during a
\* load is a race.
LEMMA LoadSame ==
  ASSUME LoadInv, FirstInv, UNCHANGED <<table, lpc, lk, loads>>,
         (UNCHANGED <<fileVars, raced>>) \/ Touches
  PROVE  LoadInv' /\ FirstInv'
<1>1. table' = table /\ lpc' = lpc /\ lk' = lk /\ loads' = loads
  OBVIOUS
<1>2. \A a, h, j : Count(a, h, j)' = Count(a, h, j)
  BY <1>1 DEF Count
<1>3. ~raced' => ~raced /\ (lpc = "load" => files' = files /\ opened' = opened)
  BY DEF Touches, fileVars
<1>4. files' = files => \A e, h : Hit(e, h)' = Hit(e, h)
  BY DEF Hit, Present, PartOf
<1>5. LoadInv'
  BY <1>1, <1>2, <1>3, <1>4 DEF LoadInv, Closed, Row
<1>6. FirstInv'
  BY <1>1, <1>2, <1>3, <1>4 DEF FirstInv
<1> QED BY <1>5, <1>6

LEMMA LoadInit == Init => LoadInv /\ FirstInv
<1> SUFFICES ASSUME Init PROVE LoadInv /\ FirstInv
  OBVIOUS
<1>1. table = [e \in Entity |-> [r \in Row |-> 0]] /\ lpc = "idle" /\ lk = 1 /\ loads = 0
  BY DEF Init
<1>2. \A a \in Idx : \A h \in 0..Tip : \A j \in 1..RowsPer[Entities[a]][h] : Count(a, h, j) = 0
  BY <1>1, RowFacts, EntityFacts DEF Count
<1>3. lk \in Idx
  BY <1>1, EntityFacts DEF Idx
<1>4. LoadInv
  BY <1>1, <1>3 DEF LoadInv
<1> QED BY <1>1, <1>2, <1>4 DEF FirstInv

LEMMA LoadStep ==
  SinkInv /\ FilesInv /\ LoadInv /\ FirstInv /\ [Next]_vars => LoadInv' /\ FirstInv'
<1> SUFFICES ASSUME SinkInv, FilesInv, LoadInv, FirstInv, [Next]_vars PROVE LoadInv' /\ FirstInv'
  OBVIOUS
<1>1. CASE \/ \E from \in 0..Tip : \E to \in (from + 1)..(Tip + 1) : BeginPass(from, to)
           \/ CreateWriter \/ Receive \/ Skip \/ Push \/ RowsDone \/ Flush \/ CloseWriter \/ PassFails
           \/ InitSchema \/ UNCHANGED vars
  <2>1. /\ UNCHANGED <<table, lpc, lk, loads>>
        /\ (UNCHANGED <<fileVars, raced>>) \/ Touches
    BY <1>1 DEF BeginPass, CreateWriter, Receive, Skip, Push, RowsDone, Flush, CloseWriter, PassFails, InitSchema,
                vars, loadVars
  <2> QED BY <2>1, LoadSame
<1> QED BY <1>1, LoadEntityStep, LoadFailsStep, BeginLoadStep DEF Next

LEMMA LoadHolds == Spec => [](LoadInv /\ FirstInv)
  BY SinkHolds, LoadInit, LoadStep, PTL DEF Spec

-----------------------------------------------------------------------------
(* Repeated loads.                                                         *)

Bounds(a, h, j) ==
  Cardinality(Past(a, <<h, j>>))..(Cardinality(Past(a, <<h, j>>)) + Cardinality(FailedIn(a, <<h, j>>)))

\* A sequence of n elements, of whatever kind.
IsLog(s, n) == s = [l \in 1..n |-> s[l]]

\* What is known of each load; of one under way, that it has not failed yet.
LogInv ==
  /\ loads \in Nat
  /\ IsLog(held, loads) /\ IsLog(upto, loads)
  /\ \A l \in 1..loads : upto[l] \in Nat
  /\ lpc = "load" => loads >= 1 /\ upto[loads] = lk
  /\ ~raced /\ lpc = "load" => held[loads] = files
  /\ ~raced => \A a \in Idx : \A h \in 0..Tip : \A j \in 1..RowsPer[Entities[a]][h] :
                 Count(a, h, j) \in Bounds(a, h, j)

\* Its domain, and what a change of one element leaves.
LEMMA LogFacts ==
  ASSUME NEW n \in Nat, NEW s, IsLog(s, n), NEW m \in 1..n, NEW x
  PROVE  /\ DOMAIN s = 1..n
         /\ IsLog([s EXCEPT ![m] = x], n) /\ [s EXCEPT ![m] = x][m] = x
         /\ \A l \in 1..n : l # m => [s EXCEPT ![m] = x][l] = s[l]
<1>1. DOMAIN [l \in 1..n |-> s[l]] = 1..n
  OBVIOUS
<1>2. DOMAIN s = 1..n
  BY <1>1, Zenon DEF IsLog
<1>3. PICK t : t = [s EXCEPT ![m] = x]
  OBVIOUS
<1>4. DOMAIN t = 1..n /\ t = [l \in 1..n |-> IF l = m THEN x ELSE s[l]]
  BY <1>2, <1>3
<1>5. t = [l \in 1..n |-> t[l]] /\ t[m] = x /\ \A l \in 1..n : l # m => t[l] = s[l]
  BY <1>4
<1> QED BY <1>2, <1>3, <1>5 DEF IsLog

LEMMA LogDomain ==
  ASSUME NEW n, NEW s, IsLog(s, n)
  PROVE  DOMAIN s = 1..n
<1>1. DOMAIN [l \in 1..n |-> s[l]] = 1..n
  OBVIOUS
<1> QED BY <1>1, Zenon DEF IsLog

Grown(s, x, t) == t = Append(s, x)

\* It grows by one.
LEMMA LogGrows ==
  ASSUME NEW n \in Nat, NEW s, IsLog(s, n), NEW x, NEW t, Grown(s, x, t)
  PROVE  IsLog(t, n + 1) /\ (\A l \in 1..n : t[l] = s[l]) /\ t[n + 1] = x
<1>1. PICK S : S = {s[l] : l \in 1..n} \cup {x}
  OBVIOUS
<1>2. s \in Seq(S) /\ x \in S
  BY <1>1 DEF IsLog
<1>3. Len(s) = n
  BY <1>2, LogDomain
<1>4. t \in Seq(S) /\ Len(t) = n + 1 /\ (\A l \in 1..n : t[l] = s[l]) /\ t[n + 1] = x
  BY <1>2, <1>3, AppendProperties DEF Grown
<1> QED BY <1>4 DEF IsLog

\* The sets of loads are finite.
LEMMA LogSets ==
  ASSUME LogInv, NEW a, NEW r
  PROVE  /\ IsFiniteSet(Past(a, r)) /\ Cardinality(Past(a, r)) \in Nat
         /\ IsFiniteSet(FailedIn(a, r)) /\ Cardinality(FailedIn(a, r)) \in Nat
<1>1. IsFiniteSet(1..loads) /\ DOMAIN held = 1..loads
  BY FS_Interval, LogDomain DEF LogInv
<1>2. Past(a, r) \in SUBSET (1..loads) /\ FailedIn(a, r) \in SUBSET (1..loads)
  BY <1>1 DEF Past, FailedIn, Found
<1>3. IsFiniteSet(Past(a, r)) /\ IsFiniteSet(FailedIn(a, r))
  BY <1>1, <1>2, FS_Subset
<1> QED BY <1>3, FS_CardinalityType

\* A load under way, with no file changed, finds the rows of the blocks there are.
LEMMA FoundFacts ==
  ASSUME SinkInv, FilesInv, LogInv, lpc = "load", ~raced, NEW a \in Idx, NEW h \in 0..Tip,
         NEW j \in 1..RowsPer[Entities[a]][h]
  PROVE  loads \in Found(Entities[a], <<h, j>>) <=> Present(Entities[a], h)
<1>1. PICK e : e = Entities[a]
  OBVIOUS
<1>2. e \in Entity /\ j \in 1..RowsPer[e][h] /\ 1 \in 1..RowsPer[e][h]
  <2>1. e \in Entity /\ j \in 1..RowsPer[e][h]
    BY <1>1, EntityFacts
  <2>2. RowsPer[e][h] \in Nat
    BY <2>1, RowAssumption DEF Entity
  <2> QED BY <2>1, <2>2
<1>3. loads \in DOMAIN held /\ held[loads] = files
  BY LogDomain DEF LogInv
<1>4. \A x \in DOMAIN files : x[1] = e =>
        /\ x = <<e, x[2]>>
        /\ \E hs \in SUBSET HeightsOf(x[2]) : Range(files[x]) = RowsOf(e, hs)
  <2>1. \A x \in DOMAIN files : x[1] = e => x = <<e, x[2]>>
    BY DEF SinkInv, SinkType
  <2> QED BY <1>2, <2>1 DEF FilesInv, PartsAgree
<1>5. ASSUME loads \in Found(e, <<h, j>>) PROVE Present(e, h)
  <2>1. PICK x \in DOMAIN files : x[1] = e /\ <<h, j>> \in Range(files[x])
    BY <1>3, <1>5 DEF Found
  <2>2. PICK hs \in SUBSET HeightsOf(x[2]) : Range(files[x]) = RowsOf(e, hs)
    BY <1>4, <2>1
  <2>3. h \in hs
    BY <2>1, <2>2, RowsOfFacts
  <2>4. x = <<e, PartOf(h)>>
    BY <1>4, <2>1, <2>2, <2>3 DEF HeightsOf
  <2>5. <<h, 1>> \in Range(files[x])
    BY <1>2, <2>2, <2>3, RowsOfFacts
  <2> QED BY <2>1, <2>4, <2>5 DEF Present
<1>6. ASSUME Present(e, h) PROVE loads \in Found(e, <<h, j>>)
  <2>1. PICK x : x = <<e, PartOf(h)>>
    OBVIOUS
  <2>2. x \in DOMAIN files /\ x[1] = e /\ <<h, 1>> \in Range(files[x])
    BY <1>6, <2>1 DEF Present
  <2>3. PICK hs \in SUBSET HeightsOf(x[2]) : Range(files[x]) = RowsOf(e, hs)
    BY <1>4, <2>2
  <2>4. h \in hs
    BY <2>2, <2>3, RowsOfFacts
  <2>5. <<h, j>> \in Range(files[x])
    BY <1>2, <2>3, <2>4, RowsOfFacts
  <2> QED BY <1>3, <2>2, <2>5 DEF Found
<1> QED BY <1>1, <1>5, <1>6

\* A load that got past the entity at hand has inserted each of its rows.
LEMMA LogLoadEntity ==
  ASSUME SinkInv, FilesInv, LoadInv, LogInv, LoadEntity
  PROVE  LogInv'
<1>1. /\ lpc = "load" /\ table' = [table EXCEPT ![L] = Inserted(L, Glob(L))]
      /\ lk = Len(Entities) => lpc' = "ok"
      /\ lk # Len(Entities) => lk' = lk + 1 /\ lpc' = "load"
      /\ upto' = [upto EXCEPT ![loads] = lk + 1]
      /\ files' = files /\ loads' = loads /\ held' = held /\ raced' = raced
  BY DEF LoadEntity, fileVars
<1>2. /\ loads \in Nat /\ loads \in 1..loads /\ lk \in Nat /\ Len(Entities) \in Nat /\ L = Entities[lk]
      /\ DOMAIN held = 1..loads /\ upto[loads] = lk
      /\ \A a \in Idx : a \in Nat /\ a <= Len(Entities)
  BY <1>1, EntityFacts, LogDomain DEF LogInv, LoadInv, L, Idx
<1>3. /\ IsLog(upto, loads)' /\ upto'[loads] = lk + 1
      /\ \A l \in 1..loads : l # loads => upto'[l] = upto[l]
      /\ \A l \in 1..loads' : upto'[l] \in Nat
  <2>1. /\ IsLog(upto', loads) /\ upto'[loads] = lk + 1
        /\ \A l \in 1..loads : l # loads => upto'[l] = upto[l]
    BY <1>1, <1>2, LogFacts DEF LogInv
  <2>2. \A l \in 1..loads : upto[l] \in Nat
    BY DEF LogInv
  <2> QED BY <1>1, <1>2, <2>1, <2>2
<1>4. ASSUME ~raced, NEW a \in Idx, NEW h \in 0..Tip, NEW j \in 1..RowsPer[Entities[a]][h]
      PROVE  Count(a, h, j)' \in Bounds(a, h, j)'
  <2>1. Count(a, h, j)' = IF a = lk THEN Count(a, h, j) + Hit(L, h) ELSE Count(a, h, j)
    <3>1. Glob(L) \in SUBSET Glob(L)
      OBVIOUS
    <3>2. /\ a # lk => Count(a, h, j)' = Count(a, h, j)
          /\ a = lk => Count(a, h, j)' = Count(a, h, j) + Hit(L, h)
      BY <1>1, <3>1, InsertStep, Zenon
    <3> QED BY <3>2
  <2>2. PICK r : r = <<h, j>>
    OBVIOUS
  <2>3. PICK F : F = Found(Entities[a], r)
    OBVIOUS
  <2>4. F \subseteq 1..loads /\ F = Found(Entities[a], r)'
    BY <1>1, <1>2, <2>3 DEF Found
  <2>5. FailedIn(a, r)' = FailedIn(a, r)
    <3>1. FailedIn(a, r) = {l \in F : upto[l] = a /\ l # loads}
      BY <1>1, <2>3 DEF FailedIn
    <3>2. FailedIn(a, r)' = {l \in F : upto'[l] = a /\ ~(l = loads /\ lpc' = "load")}
      BY <1>1, <2>4 DEF FailedIn
    <3>3. lpc' # "load" => upto'[loads] # a
      BY <1>1, <1>2, <1>3
    <3> QED BY <1>3, <2>4, <3>1, <3>2, <3>3
  <2>6. Past(a, r) = {l \in F : upto[l] > a} /\ Past(a, r)' = {l \in F : upto'[l] > a}
    BY <2>3, <2>4 DEF Past
  <2>7. Count(a, h, j) \in Bounds(a, h, j)
    BY <1>4 DEF LogInv
  <2>8. Cardinality(Past(a, r)) \in Nat /\ IsFiniteSet(Past(a, r)) /\ Cardinality(FailedIn(a, r)) \in Nat
    BY LogSets
  <2>9. loads \in F <=> Present(Entities[a], h)
    BY <1>1, <1>4, <2>2, <2>3, FoundFacts
  <2>10. CASE a = lk /\ loads \in F
    <3>1. Hit(L, h) = 1
      BY <1>2, <2>9, <2>10 DEF Hit
    <3>2. Past(a, r)' = Past(a, r) \cup {loads} /\ loads \notin Past(a, r)
      BY <1>2, <1>3, <2>4, <2>6, <2>10
    <3>3. Cardinality(Past(a, r)') = Cardinality(Past(a, r)) + 1
      BY <2>8, <3>2, FS_AddElement
    <3>4. Count(a, h, j)' = Count(a, h, j) + 1
      BY <2>1, <2>10, <3>1
    <3> QED BY <2>2, <2>5, <2>7, <2>8, <3>3, <3>4 DEF Bounds
  <2>11. CASE ~(a = lk /\ loads \in F)
    <3>1. Past(a, r)' = Past(a, r)
      <4>1. \A l \in F : upto'[l] > a <=> upto[l] > a
        <5> SUFFICES ASSUME loads \in F PROVE lk + 1 > a <=> lk > a
          BY <1>2, <1>3, <2>4
        <5>1. a # lk /\ a \in Nat
          BY <1>2, <2>11
        <5> QED BY <1>2, <5>1
      <4> QED BY <2>6, <4>1
    <3>2. Count(a, h, j)' = Count(a, h, j)
      <4>1. a = lk => Hit(L, h) = 0
        BY <1>2, <2>9, <2>11 DEF Hit
      <4>2. Count(a, h, j) \in Nat
        BY CountType
      <4> QED BY <2>1, <4>1, <4>2
    <3> QED BY <2>2, <2>5, <2>7, <3>1, <3>2 DEF Bounds
  <2> QED BY <2>10, <2>11
<1> QED BY <1>1, <1>2, <1>3, <1>4 DEF LogInv, Idx

\* A load that failed has inserted a row of the entity at hand once or not.
LEMMA LogLoadFails ==
  ASSUME SinkInv, FilesInv, LoadInv, LogInv, LoadFails
  PROVE  LogInv'
<1>1. /\ lpc = "load" /\ lpc' = "err" /\ lk' = lk /\ loads' = loads /\ raced' = raced
      /\ held' = held /\ upto' = upto
      /\ table' = table \/ \E fs \in SUBSET Glob(L) : table' = [table EXCEPT ![L] = Inserted(L, fs)]
  BY DEF LoadFails
<1>2. /\ loads \in Nat /\ loads \in 1..loads /\ lk \in Nat /\ L = Entities[lk]
      /\ DOMAIN held = 1..loads /\ upto[loads] = lk
  BY <1>1, EntityFacts, LogDomain DEF LogInv, LoadInv, L, Idx
<1>3. ASSUME ~raced, NEW a \in Idx, NEW h \in 0..Tip, NEW j \in 1..RowsPer[Entities[a]][h]
      PROVE  Count(a, h, j)' \in Bounds(a, h, j)'
  <2>1. Count(a, h, j) \in Nat
    BY CountType
  <2>2. /\ a # lk => Count(a, h, j)' = Count(a, h, j)
        /\ a = lk => Count(a, h, j)' \in {Count(a, h, j), Count(a, h, j) + Hit(L, h)}
    <3>1. CASE table' = table
      BY <3>1 DEF Count
    <3>2. ASSUME NEW fs \in SUBSET Glob(L), table' = [table EXCEPT ![L] = Inserted(L, fs)]
          PROVE  /\ a # lk => Count(a, h, j)' = Count(a, h, j)
                 /\ a = lk => Count(a, h, j)' \in {Count(a, h, j), Count(a, h, j) + Hit(L, h)}
      BY <3>2, InsertStep, Zenon
    <3> QED BY <1>1, <3>1, <3>2
  <2>3. PICK r : r = <<h, j>>
    OBVIOUS
  <2>4. PICK F : F = Found(Entities[a], r)
    OBVIOUS
  <2>5. F \subseteq 1..loads /\ F = Found(Entities[a], r)'
    BY <1>1, <1>2, <2>4 DEF Found
  <2>6. Past(a, r)' = Past(a, r)
    BY <1>1, <2>4, <2>5 DEF Past
  <2>7. FailedIn(a, r) = {l \in F : upto[l] = a /\ l # loads} /\ FailedIn(a, r)' = {l \in F : upto[l] = a}
    <3>1. FailedIn(a, r) = {l \in F : upto[l] = a /\ l # loads}
      BY <1>1, <2>4 DEF FailedIn
    <3>2. FailedIn(a, r)' = {l \in F : upto[l] = a}
      BY <1>1, <2>5 DEF FailedIn
    <3> QED BY <3>1, <3>2
  <2>8. Count(a, h, j) \in Bounds(a, h, j)
    BY <1>3 DEF LogInv
  <2>9. /\ Cardinality(Past(a, r)) \in Nat /\ IsFiniteSet(FailedIn(a, r))
        /\ Cardinality(FailedIn(a, r)) \in Nat
    BY LogSets
  <2>10. loads \in F <=> Present(Entities[a], h)
    BY <1>1, <1>3, <2>3, <2>4, FoundFacts
  <2>11. CASE a = lk /\ loads \in F
    <3>1. Hit(L, h) = 1
      BY <1>2, <2>10, <2>11 DEF Hit
    <3>2. FailedIn(a, r)' = FailedIn(a, r) \cup {loads} /\ loads \notin FailedIn(a, r)
      BY <1>2, <2>7, <2>11
    <3>3. Cardinality(FailedIn(a, r)') = Cardinality(FailedIn(a, r)) + 1
      BY <2>9, <3>2, FS_AddElement
    <3>4. Count(a, h, j)' \in {Count(a, h, j), Count(a, h, j) + 1}
      BY <2>2, <2>11, <3>1
    <3> QED BY <2>1, <2>3, <2>6, <2>8, <2>9, <3>3, <3>4 DEF Bounds
  <2>12. CASE ~(a = lk /\ loads \in F)
    <3>1. FailedIn(a, r)' = FailedIn(a, r)
      BY <1>2, <2>5, <2>7, <2>12
    <3>2. Count(a, h, j)' = Count(a, h, j)
      <4>1. a = lk => Hit(L, h) = 0
        BY <1>2, <2>10, <2>12 DEF Hit
      <4> QED BY <2>1, <2>2, <4>1
    <3> QED BY <2>3, <2>6, <2>8, <3>1, <3>2 DEF Bounds
  <2> QED BY <2>11, <2>12
<1> QED BY <1>1, <1>2, <1>3 DEF LogInv, Idx

\* A load that begins has inserted nothing.
LEMMA LogBeginLoad ==
  ASSUME LogInv, BeginLoad
  PROVE  LogInv'
<1>1. /\ lpc # "load" /\ lpc' = "load" /\ lk' = 1 /\ loads' = loads + 1 /\ table' = table
      /\ files' = files /\ raced' = raced
  BY DEF BeginLoad, fileVars
<1>2. loads \in Nat /\ DOMAIN held = 1..loads /\ \A l \in 1..loads : upto[l] \in Nat
  BY LogDomain DEF LogInv
<1>3. /\ IsLog(held', loads + 1) /\ held'[loads + 1] = files
      /\ \A l \in 1..loads : held'[l] = held[l]
  <2>1. loads \in Nat /\ IsLog(held, loads)
    BY DEF LogInv
  <2>2. Grown(held, files, held')
    BY Zenon DEF BeginLoad, Grown
  <2> QED BY ONLY <2>1, <2>2, LogGrows
<1>4. /\ IsLog(upto', loads + 1) /\ upto'[loads + 1] = 1
      /\ \A l \in 1..loads : upto'[l] = upto[l]
  <2>1. loads \in Nat /\ IsLog(upto, loads)
    BY DEF LogInv
  <2>2. Grown(upto, 1, upto')
    BY Zenon DEF BeginLoad, Grown
  <2> QED BY ONLY <2>1, <2>2, LogGrows
<1>5. \A l \in 1..(loads + 1) : upto'[l] \in Nat /\ (l \in 1..loads \/ l = loads + 1)
  BY <1>2, <1>4
<1>6. ASSUME NEW a \in Idx, NEW r PROVE Past(a, r)' = Past(a, r) /\ FailedIn(a, r)' = FailedIn(a, r)
  <2>1. PICK F, G : F = Found(Entities[a], r) /\ G = Found(Entities[a], r)'
    OBVIOUS
  <2>2. DOMAIN held' = 1..(loads + 1)
    BY <1>3, LogDomain
  <2>3. /\ F \subseteq 1..loads /\ G \subseteq 1..(loads + 1)
        /\ \A l \in 1..loads : l \in G <=> l \in F
    BY <1>2, <1>3, <2>1, <2>2 DEF Found
  <2>4. a \in Nat /\ ~(1 > a)
    BY DEF Idx
  <2>5. Past(a, r) = {l \in F : upto[l] > a} /\ Past(a, r)' = {l \in G : upto'[l] > a}
    BY <2>1 DEF Past
  <2>6. /\ FailedIn(a, r) = {l \in F : upto[l] = a}
        /\ FailedIn(a, r)' = {l \in G : upto'[l] = a /\ l # loads + 1}
    BY <1>1, <2>1 DEF FailedIn
  <2>7. \A l \in 1..loads : l \in 1..(loads + 1) /\ l # loads + 1
    BY <1>2
  <2> QED BY <1>4, <1>5, <2>3, <2>4, <2>5, <2>6, <2>7
<1>7. \A a \in Idx : \A h, j : Bounds(a, h, j)' = Bounds(a, h, j) /\ Count(a, h, j)' = Count(a, h, j)
  <2> SUFFICES ASSUME NEW a \in Idx, NEW h, NEW j
               PROVE  Bounds(a, h, j)' = Bounds(a, h, j) /\ Count(a, h, j)' = Count(a, h, j)
    OBVIOUS
  <2>1. /\ Past(a, <<h, j>>)' = Past(a, <<h, j>>)
        /\ FailedIn(a, <<h, j>>)' = FailedIn(a, <<h, j>>)
    BY <1>6
  <2>2. Bounds(a, h, j)' = Bounds(a, h, j)
    BY <2>1 DEF Bounds
  <2> QED BY <1>1, <2>2 DEF Count
<1>8. loads' \in Nat /\ loads' >= 1 /\ upto'[loads'] = lk' /\ held'[loads'] = files'
  BY <1>1, <1>2, <1>3, <1>4
<1>9. IsLog(held, loads)' /\ IsLog(upto, loads)'
  BY <1>1, <1>3, <1>4
<1>10. \A l \in 1..loads' : upto'[l] \in Nat
  BY <1>1, <1>5
<1>11. ~raced' => \A a \in Idx : \A h \in 0..Tip : \A j \in 1..RowsPer[Entities[a]][h] :
                    Count(a, h, j)' \in Bounds(a, h, j)'
  BY <1>1, <1>7 DEF LogInv
<1> QED BY <1>8, <1>9, <1>10, <1>11 DEF LogInv, Idx

\* The other steps leave the loads alone; a file that changes during one is a race.
LEMMA LogSame ==
  ASSUME LogInv, UNCHANGED <<table, lpc, lk, loads, held, upto>>,
         (UNCHANGED <<fileVars, raced>>) \/ Touches
  PROVE  LogInv'
<1>1. /\ table' = table /\ lpc' = lpc /\ lk' = lk /\ loads' = loads /\ held' = held /\ upto' = upto
  OBVIOUS
<1>2. ~raced' => ~raced /\ (lpc = "load" => files' = files)
  BY DEF Touches, fileVars
<1>3. \A a, h, j : Bounds(a, h, j)' = Bounds(a, h, j) /\ Count(a, h, j)' = Count(a, h, j)
  BY <1>1 DEF Bounds, Count, Past, FailedIn, Found
<1> QED BY <1>1, <1>2, <1>3 DEF LogInv, Idx

LEMMA LogInit == Init => LogInv
<1> SUFFICES ASSUME Init PROVE LogInv
  OBVIOUS
<1>1. /\ table = [e \in Entity |-> [r \in Row |-> 0]] /\ lpc = "idle" /\ loads = 0
      /\ held = <<>> /\ upto = <<>>
  BY DEF Init
<1>2. \A a \in Idx : \A h \in 0..Tip : \A j \in 1..RowsPer[Entities[a]][h] : Count(a, h, j) = 0
  BY <1>1, RowFacts, EntityFacts DEF Count
<1>3. \A a, r : Past(a, r) = {} /\ FailedIn(a, r) = {}
  BY <1>1 DEF Past, FailedIn, Found
<1>4. \A a, h, j : 0 \in Bounds(a, h, j)
  BY <1>3, FS_EmptySet DEF Bounds
<1>5. IsLog(<<>>, 0)
  BY DEF IsLog
<1> QED BY <1>1, <1>2, <1>4, <1>5 DEF LogInv

LEMMA LogStep ==
  SinkInv /\ FilesInv /\ LoadInv /\ LogInv /\ [Next]_vars => LogInv'
<1> SUFFICES ASSUME SinkInv, FilesInv, LoadInv, LogInv, [Next]_vars PROVE LogInv'
  OBVIOUS
<1>1. CASE \/ \E from \in 0..Tip : \E to \in (from + 1)..(Tip + 1) : BeginPass(from, to)
           \/ CreateWriter \/ Receive \/ Skip \/ Push \/ RowsDone \/ Flush \/ CloseWriter \/ PassFails
           \/ InitSchema \/ UNCHANGED vars
  <2>1. /\ UNCHANGED <<table, lpc, lk, loads, held, upto>>
        /\ (UNCHANGED <<fileVars, raced>>) \/ Touches
    BY <1>1 DEF BeginPass, CreateWriter, Receive, Skip, Push, RowsDone, Flush, CloseWriter, PassFails,
                InitSchema, vars, loadVars
  <2> QED BY <2>1, LogSame
<1> QED BY <1>1, LogLoadEntity, LogLoadFails, LogBeginLoad DEF Next

\* Whatever loads failed, were cut off or repeated, and whatever was parsed in
\* between, a row is in its table once for each load that got past its entity, and
\* at most once more for each load_entity of it that failed.
THEOREM LoadsAddUpHolds == Spec => []LoadsAddUp
<1>1. LogInv => LoadsAddUp
  BY DEF LogInv, Bounds, Count, LoadsAddUp, Idx
<1> QED BY <1>1, SinkHolds, LoadHolds, LogInit, LogStep, PTL DEF Spec

\* Every file of Parquet has the columns of its table, in the table's order.
LEMMA ColumnsFacts == \A e \in Range(ENTITIES) : ColumnsAlign(e)
<1>1. Range(ENTITIES) = {"blocks", "transactions", "inputs", "outputs", "spends"}
  BY DEF ENTITIES, Range
<1>2. ColumnsAlign("blocks")
  BY DEF ColumnsAlign, Accepts, TableColumns, ParquetColumns, u8, u32, i32, u64, b32, bool
<1>3. ColumnsAlign("transactions")
  BY DEF ColumnsAlign, Accepts, TableColumns, ParquetColumns, u8, u32, i32, u64, b32, bool
<1>4. ColumnsAlign("inputs")
  BY DEF ColumnsAlign, Accepts, TableColumns, ParquetColumns, u8, u32, i32, u64, b32, bool
<1>5. ColumnsAlign("outputs")
  BY DEF ColumnsAlign, Accepts, TableColumns, ParquetColumns, u8, u32, i32, u64, b32, bool
<1>6. ColumnsAlign("spends")
  BY DEF ColumnsAlign, Accepts, TableColumns, ParquetColumns, u8, u32, i32, u64, b32, bool
<1> QED BY <1>1, <1>2, <1>3, <1>4, <1>5, <1>6

\* A first load that succeeds beside no writer leaves each row of each block
\* that any table has once in its table, under the names of its columns.
THEOREM FirstLoadExactHolds == Spec => []FirstLoadExact
<1>1. LoadInv /\ FirstInv => FirstLoadExact
  <2> SUFFICES ASSUME LoadInv, FirstInv, lpc = "ok", loads = 1, ~raced, NEW h \in 0..Tip
               PROVE  \E n \in {0, 1} :
                        \A e \in Entity : \A j \in 1..RowsPer[e][h] : table[e][<<h, j>>] = n
    BY ColumnsFacts DEF FirstLoadExact
  <2>1. PICK v \in {0, 1} : \A a \in Idx : \A j \in 1..RowsPer[Entities[a]][h] : Count(a, h, j) = v
    BY DEF FirstInv
  <2>2. \A e \in Entity : \E a \in Idx : e = Entities[a]
    BY EntityFacts
  <2> QED BY <2>1, <2>2 DEF Count
<1> QED BY <1>1, LoadHolds, PTL

=============================================================================
