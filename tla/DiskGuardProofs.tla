-------------------------- MODULE DiskGuardProofs ---------------------------
(***************************************************************************)
(* What becomes of recorded checkpoints, for all networks, heights and     *)
(* numbers of starts and of writes cut off.                                *)
(***************************************************************************)
EXTENDS DiskGuard, FiniteSetTheorems, WellFoundedInduction, TLAPS

Lines == {Section({}), Other} \cup {Section({n}) : n \in Net}
           \cup {Point(h, b) : h \in 0..HeightMax, b \in 0..BytesMax}

Texts == {Key, Comment, Torn} \cup {Name(n) : n \in Net} \cup {Num(v) : v \in Nat}

\* The types; the line without end is the last; who writes is a user of the file,
\* and so is whoever's name is in it.
FileInv ==
  /\ file \in Seq(Lines)
  /\ open \in Seq(Seq(Texts))
  /\ open # <<>> => file # <<>> /\ file[Len(file)] = Line(open)
  /\ \A m \in Net : Len(open) >= 2 /\ open[2] = <<Name(m)>> => m \in users
  /\ pc \in [Net -> {"down", "up"} \cup Writing]
  /\ DOMAIN at = Net /\ \A n \in Net : at[n] \in 0..Tip[n]
  /\ DOMAIN grown = Net /\ \A n \in Net : grown[n] \in 0..Tip[n]
  /\ DOMAIN last = Net
  /\ DOMAIN recorded = Net /\ \A n \in Net : recorded[n] \subseteq 0..Tip[n]
  /\ tears \in Nat
  /\ \A n \in Net : pc[n] \in Writing => n \in users
  /\ \A i \in DOMAIN file, n \in Net : file[i] = Section({n}) => n \in users

-----------------------------------------------------------------------------
(* Lines.                                                                  *)

LEMMA NewLines ==
  /\ \A s : Section(s).kind = "section" /\ Section(s).nets = s
  /\ \A h, b : Point(h, b).kind = "point" /\ Point(h, b).height = h /\ Point(h, b).bytes = b
  /\ Other.kind = "other" /\ Other \in Lines
  /\ \A n \in Net : Section({n}) \in Lines
<1>1. \A s : Section(s).kind = "section" /\ Section(s).nets = s
  BY DEF Section
<1>2. \A h, b : Point(h, b).kind = "point" /\ Point(h, b).height = h /\ Point(h, b).bytes = b
  BY DEF Point
<1>3. Other.kind = "other"
  BY DEF Other
<1>4. Other \in Lines
  BY DEF Lines
<1>5. ASSUME NEW n \in Net PROVE Section({n}) \in Lines
  <2>1. Section({n}) \in {Section({m}) : m \in Net}
    OBVIOUS
  <2> QED BY <2>1 DEF Lines
<1> QED BY <1>1, <1>2, <1>3, <1>4, <1>5

LEMMA LineFacts ==
  ASSUME NEW l \in Lines
  PROVE  /\ l.kind \in {"section", "point", "other"}
         /\ l.kind = "section" => \/ l = Section({}) /\ l.nets = {}
                                  \/ \E n \in Net : l = Section({n}) /\ l.nets = {n}
         /\ l.kind = "point" => l.height \in 0..HeightMax /\ l.bytes \in 0..BytesMax
<1>1. CASE l = Section({})
  BY <1>1, NewLines
<1>2. ASSUME NEW n \in Net, l = Section({n})
      PROVE  l.kind = "section" /\ l = Section({n}) /\ l.nets = {n}
  BY <1>2, NewLines
<1>3. ASSUME NEW h \in 0..HeightMax, NEW b \in 0..BytesMax, l = Point(h, b)
      PROVE  l.kind = "point" /\ l.height \in 0..HeightMax /\ l.bytes \in 0..BytesMax
  BY <1>3, NewLines
<1>4. CASE l = Other
  BY <1>4, NewLines
<1>5. \/ l = Section({}) \/ l = Other \/ \E n \in Net : l = Section({n})
      \/ \E h \in 0..HeightMax, b \in 0..BytesMax : l = Point(h, b)
  BY DEF Lines
<1> QED BY <1>1, <1>2, <1>3, <1>4, <1>5

LEMMA NameFacts == \A n \in Net, m \in Net : <<Name(n)>> = <<Name(m)>> => n = m
  BY DEF Name

NamedIn(words) ==
  \A m \in Net : Line(words) = Section({m}) => /\ words[2] = <<Name(m)>>
                                               /\ Len(words) \in {2, 3} \/ Len(words) - 1 = 2

\* Whatever its words, a line is a line, and a section of nobody who is not named.
LEMMA LineType ==
  ASSUME NEW words
  PROVE  Line(words) \in Lines /\ NamedIn(words)
<1>1. PICK k : k = IF words[Len(words)] = <<>> THEN Len(words) - 1 ELSE Len(words)
  OBVIOUS
<1>2. PICK s : s = {m \in Net : words[2] = <<Name(m)>>}
  OBVIOUS
<1>3. s = {} \/ \E n \in Net : s = {n}
  <2>1. CASE s = {}
    BY <2>1
  <2>2. CASE s # {}
    <3>1. PICK n \in Net : words[2] = <<Name(n)>>
      BY <1>2, <2>2
    <3>2. s = {n}
      BY <1>2, <3>1, NameFacts
    <3> QED BY <3>2
  <2> QED BY <2>1, <2>2
<1>4. \/ Line(words) = Other
      \/ k = 2 /\ Line(words) = Section(s)
      \/ \E h \in 0..HeightMax, b \in 0..BytesMax : Line(words) = Point(h, b)
  BY <1>1, <1>2 DEF Line
<1>5. \A m \in Net : Other # Section({m}) /\ \A h, b : Point(h, b) # Section({m})
  BY NewLines
<1>6. \A m \in Net : Section(s) = Section({m}) => s = {m}
  BY NewLines
<1>7. Line(words) \in Lines
  BY <1>3, <1>4 DEF Lines
<1>8. ASSUME NEW m \in Net, Line(words) = Section({m})
      PROVE  words[2] = <<Name(m)>> /\ (Len(words) \in {2, 3} \/ Len(words) - 1 = 2)
  <2>1. k = 2 /\ s = {m}
    BY <1>4, <1>5, <1>6, <1>8
  <2>2. m \in s
    BY <2>1
  <2> QED BY <1>1, <1>2, <2>1, <2>2
<1> QED BY <1>7, <1>8 DEF NamedIn

LEMMA SectionNamed ==
  ASSUME NEW words, NEW m \in Net, Line(words) = Section({m})
  PROVE  words[2] = <<Name(m)>> /\ (Len(words) \in {2, 3} \/ Len(words) - 1 = 2)
<1>1. NamedIn(words)
  BY LineType
<1> QED BY <1>1 DEF NamedIn

\* The lines of append_checkpoint, as far as they are written.
LEMMA OwnLines ==
  ASSUME NEW n \in Net, NEW h \in 0..HeightMax, NEW b \in 0..BytesMax
  PROVE  /\ Line(<<<<Key>>, <<>>>>) = Other
         /\ Line(<<<<Key>>, <<Name(n)>>>>) = Section({n})
         /\ Line(<<<<Num(h)>>>>) = Other
         /\ Line(<<<<Num(h)>>, <<>>>>) = Other
         /\ Line(<<<<Num(h)>>, <<Num(b)>>>>) = Point(h, b)
<1>1. <<Name(n)>> # <<>> /\ <<Num(h)>> # <<>> /\ <<Num(b)>> # <<>>
  OBVIOUS
<1>2. Line(<<<<Key>>, <<>>>>) = Other /\ Line(<<<<Num(h)>>, <<>>>>) = Other
  BY DEF Line
<1>3. Line(<<<<Num(h)>>>>) = Other
  BY <1>1 DEF Line
<1>4. Line(<<<<Key>>, <<Name(n)>>>>) = Section({n})
  <2>1. {m \in Net : <<Name(n)>> = <<Name(m)>>} = {n}
    BY NameFacts
  <2> QED BY <1>1, <2>1 DEF Line
<1>5. Line(<<<<Num(h)>>, <<Num(b)>>>>) = Point(h, b)
  <2>1. <<Num(h)>> # <<Key>>
    BY DEF Num, Key
  <2>2. \A v : IsNumber(<<Num(v)>>) /\ Value(<<Num(v)>>) = v
    BY DEF IsNumber, Value, Num
  <2> QED BY <1>1, <2>1, <2>2 DEF Line
<1> QED BY <1>2, <1>3, <1>4, <1>5

\* A set of places has a last one.
LEMMA MaxFacts ==
  ASSUME NEW m \in Nat, NEW S, S \subseteq 0..m, S # {}
  PROVE  Max(S) \in S /\ \A x \in S : x <= Max(S)
<1> DEFINE T == {m - x : x \in S}
<1>1. T \subseteq Nat /\ T # {}
  <2>1. \A x \in S : m - x \in Nat
    OBVIOUS
  <2> QED BY <2>1
<1>2. PICK t \in T : \A y \in T : ~(<<y, t>> \in OpToRel(<, Nat))
  BY <1>1, WFMin, NatLessThanWellFounded
<1>3. \A y \in T : ~(y < t)
  BY <1>1, <1>2 DEF OpToRel
<1>4. PICK x \in S : t = m - x
  OBVIOUS
<1>5. \A y \in S : x >= y
  <2> SUFFICES ASSUME NEW y \in S PROVE x >= y
    OBVIOUS
  <2>0. y \in 0..m /\ x \in 0..m
    OBVIOUS
  <2>1. m - y \in T /\ y \in Int /\ x \in Int
    BY <2>0
  <2>2. ~(m - y < t)
    BY <1>3, <2>1
  <2> QED BY <1>4, <2>1, <2>2
<1>6. Max(S) \in S /\ \A y \in S : Max(S) >= y
  BY <1>4, <1>5 DEF Max
<1> QED BY <1>6

-----------------------------------------------------------------------------
(* What is read of a file when lines up to a place stay as they are.       *)

Sections(i) == {j \in 1..i : file[j].kind = "section"}

\* Under and read_checkpoints see the lines up to a place only.
LEMMA UnderSame ==
  ASSUME NEW i \in Nat, \A j \in 1..i : file'[j] = file[j]
  PROVE  Under(i)' = Under(i)
<1>1. Sections(i)' = Sections(i)
  BY DEF Sections
<1>2. CASE Sections(i) = {}
  BY <1>1, <1>2 DEF Under, Sections
<1>3. CASE Sections(i) # {}
  <2>1. Sections(i) \subseteq 0..i
    BY DEF Sections
  <2>2. Max(Sections(i)) \in Sections(i)
    BY <1>3, <2>1, MaxFacts
  <2>3. file'[Max(Sections(i))] = file[Max(Sections(i))]
    BY <2>2 DEF Sections
  <2> QED BY <1>1, <1>3, <2>3 DEF Under, Sections
<1> QED BY <1>2, <1>3

\* The first k lines stay: what is read of them stays.
LEMMA ReadSame ==
  ASSUME NEW k \in Nat, k <= Len(file), k <= Len(file'), file \in Seq(Lines), file' \in Seq(Lines),
         \A j \in 1..k : file'[j] = file[j], NEW n
  PROVE  /\ \A i \in 1..k : i \in read_checkpoints(n)' <=> i \in read_checkpoints(n)
         /\ \A i \in 1..k : Under(i)' = Under(i)
<1>1. 1..k \subseteq DOMAIN file /\ 1..k \subseteq DOMAIN file'
  OBVIOUS
<1>2. ASSUME NEW i \in 1..k PROVE Under(i)' = Under(i)
  <2>1. i \in Nat /\ \A j \in 1..i : file'[j] = file[j]
    OBVIOUS
  <2> QED BY <2>1, UnderSame
<1> QED BY <1>1, <1>2 DEF read_checkpoints

\* Below the last line, and the last line when it is one of many sections.
LEMMA ReadPlaces ==
  ASSUME file \in Seq(Lines), NEW n
  PROVE  /\ read_checkpoints(n) \subseteq 1..Len(file)
         /\ \A i \in read_checkpoints(n) : /\ i \in DOMAIN file /\ file[i].kind = "point"
                                           /\ file[i].height \in 0..HeightMax
                                           /\ file[i].bytes \in 0..BytesMax
  BY LineFacts DEF read_checkpoints

-----------------------------------------------------------------------------
(* What a write does to the file.                                          *)

Named(words) == \A m \in Net : Len(words) >= 2 /\ words[2] = <<Name(m)>> => m \in users

\* The lines before the one without end stay as they are.
Grows ==
  /\ file' \in Seq(Lines) /\ open' \in Seq(Seq(Texts))
  /\ open' # <<>> => file' # <<>> /\ file'[Len(file')] = Line(open')
  /\ Named(open')
  /\ \A i \in DOMAIN file', m \in Net : file'[i] = Section({m}) => m \in users
  /\ Len(file') = Len(file) \/ (open = <<>> /\ Len(file') = Len(file) + 1)
  /\ \A j \in 1..Len(file) : open = <<>> \/ j # Len(file) => file'[j] = file[j]

LEMMA ExceptFacts ==
  ASSUME NEW S, NEW s \in Seq(S), NEW k \in 1..Len(s), NEW x \in S
  PROVE  /\ [s EXCEPT ![k] = x] \in Seq(S) /\ Len([s EXCEPT ![k] = x]) = Len(s)
         /\ [s EXCEPT ![k] = x][k] = x
         /\ \A j \in 1..Len(s) : j # k => [s EXCEPT ![k] = x][j] = s[j]
  OBVIOUS

LEMMA PutFacts ==
  ASSUME FileInv, NEW text \in Texts, \A m \in Net : text = Name(m) => m \in users
  PROVE  Put(text) \in Seq(Seq(Texts)) /\ Put(text) # <<>> /\ Named(Put(text))
<1>1. open \in Seq(Seq(Texts)) /\ Named(open)
  BY DEF FileInv, Named
<1>2. CASE open = <<>>
  <2>1. Put(text) = <<<<text>>>>
    BY <1>2 DEF Put
  <2> QED BY <2>1 DEF Named
<1>3. CASE open # <<>>
  <2>1. PICK k, w : k = Len(open) /\ w = open[k]
    OBVIOUS
  <2>2. k \in Nat \ {0} /\ k \in DOMAIN open /\ w \in Seq(Texts) /\ DOMAIN open = 1..k
    BY <1>1, <1>3, <2>1
  <2>3. Append(w, text) \in Seq(Texts) /\ Len(Append(w, text)) = Len(w) + 1 /\ Len(w) \in Nat
        /\ Append(w, text)[Len(w) + 1] = text
    BY <2>2
  <2>4. Put(text) = [open EXCEPT ![k] = Append(w, text)]
    BY <1>3, <2>1 DEF Put
  <2>5. Put(text) \in Seq(Seq(Texts)) /\ Len(Put(text)) = k /\ Put(text)[k] = Append(w, text)
        /\ \A j \in 1..k : j # k => Put(text)[j] = open[j]
    <3>1. k \in 1..Len(open)
      BY <2>1, <2>2
    <3> QED BY ONLY <1>1, <2>1, <2>3, <2>4, <3>1, ExceptFacts
  <2>6. Put(text) # <<>>
    BY <2>2, <2>5
  <2>7. ASSUME NEW m \in Net, Len(Put(text)) >= 2, Put(text)[2] = <<Name(m)>> PROVE m \in users
    <3>1. CASE k = 2
      <4>1. Append(w, text) = <<Name(m)>>
        BY <2>5, <2>7, <3>1
      <4>2. Len(w) = 0 /\ text = <<Name(m)>>[1]
        BY <2>3, <4>1
      <4> QED BY <4>2
    <3>2. CASE k # 2
      <4>1. open[2] = <<Name(m)>> /\ Len(open) >= 2
        BY <2>1, <2>2, <2>5, <2>7, <3>2
      <4> QED BY <1>1, <4>1 DEF Named
    <3> QED BY <3>1, <3>2
  <2> QED BY <2>5, <2>6, <2>7 DEF Named
<1> QED BY <1>2, <1>3

LEMMA GapFacts ==
  ASSUME NEW words \in Seq(Seq(Texts)), Named(words)
  PROVE  /\ Gap(words) \in Seq(Seq(Texts)) /\ Named(Gap(words))
         /\ (Gap(words) = <<>>) <=> (words = <<>>)
<1>1. CASE words = <<>> \/ words[Len(words)] = <<>>
  BY <1>1 DEF Gap
<1>2. CASE ~(words = <<>> \/ words[Len(words)] = <<>>)
  <2>1. Gap(words) = Append(words, <<>>) /\ words # <<>>
    BY <1>2 DEF Gap
  <2>2. PICK k : k = Len(words)
    OBVIOUS
  <2>3. <<>> \in Seq(Texts)
    OBVIOUS
  <2>4. /\ Gap(words) \in Seq(Seq(Texts)) /\ k \in Nat \ {0} /\ Len(Gap(words)) = k + 1
        /\ Gap(words)[k + 1] = <<>> /\ \A j \in 1..k : Gap(words)[j] = words[j]
    BY <2>1, <2>2, <2>3
  <2>5. ASSUME NEW m \in Net, Gap(words)[2] = <<Name(m)>> PROVE m \in users
    <3>1. PICK w, g : w = <<Name(m)>> /\ g = Gap(words)
      OBVIOUS
    <3>2. w # <<>>
      BY <3>1
    <3>3. k # 1
      <4>1. SUFFICES ASSUME k = 1 PROVE FALSE
        OBVIOUS
      <4>2. g[1 + 1] = <<>>
        BY ONLY <2>4, <3>1, <4>1
      <4>3. 1 + 1 = 2
        OBVIOUS
      <4> QED BY ONLY <2>5, <3>1, <3>2, <4>2, <4>3
    <3>4. 2 \in 1..k
      BY ONLY <2>4, <3>3
    <3>5. words[2] = w /\ Len(words) >= 2
      BY ONLY <2>2, <2>4, <2>5, <3>1, <3>4
    <3> QED BY <3>1, <3>5 DEF Named
  <2>6. Gap(words) # <<>>
    BY <2>4
  <2> QED BY <2>1, <2>4, <2>5, <2>6 DEF Named
<1> QED BY <1>1, <1>2

\* A line goes to the end of the file, or takes the place of the one without end.
LEMMA LastLine ==
  ASSUME FileInv, NEW l \in Lines, \A m \in Net : l = Section({m}) => m \in users,
         file' = IF open = <<>> THEN Append(file, l) ELSE [file EXCEPT ![Len(file)] = l]
  PROVE  /\ file' \in Seq(Lines) /\ file' # <<>> /\ file'[Len(file')] = l
         /\ \A i \in DOMAIN file', m \in Net : file'[i] = Section({m}) => m \in users
         /\ Len(file') = Len(file) \/ (open = <<>> /\ Len(file') = Len(file) + 1)
         /\ open # <<>> => Len(file') = Len(file)
         /\ \A j \in 1..Len(file) : open = <<>> \/ j # Len(file) => file'[j] = file[j]
<1>1. /\ file \in Seq(Lines) /\ (open # <<>> => file # <<>>)
      /\ \A i \in DOMAIN file, m \in Net : file[i] = Section({m}) => m \in users
  BY DEF FileInv
<1>2. PICK k : k = Len(file)
  OBVIOUS
<1>3. CASE open = <<>>
  <2>1. file' = Append(file, l)
    BY <1>3
  <2>2. /\ file' \in Seq(Lines) /\ Len(file') = k + 1 /\ k \in Nat /\ file'[k + 1] = l
        /\ DOMAIN file = 1..k /\ DOMAIN file' = 1..(k + 1)
        /\ \A j \in 1..k : file'[j] = file[j]
    BY <1>1, <1>2, <2>1
  <2>3. \A i \in DOMAIN file' : i \in DOMAIN file \/ i = k + 1
    BY <2>2
  <2> QED BY <1>1, <1>2, <1>3, <2>2, <2>3
<1>4. CASE open # <<>>
  <2>1. file' = [file EXCEPT ![k] = l]
    BY <1>2, <1>4
  <2>2. /\ file' \in Seq(Lines) /\ Len(file') = k /\ k \in Nat \ {0} /\ file'[k] = l
        /\ DOMAIN file = 1..k /\ DOMAIN file' = 1..k
        /\ \A j \in 1..k : j # k => file'[j] = file[j]
    BY <1>1, <1>2, <1>4, <2>1
  <2> QED BY <1>1, <1>2, <1>4, <2>2
<1> QED BY <1>3, <1>4

LEMMA RewriteGrows ==
  ASSUME FileInv, NEW words \in Seq(Seq(Texts)), Named(words), Rewrite(words),
         words = <<>> => open = <<>>
  PROVE  Grows /\ (open # <<>> => Len(file') = Len(file))
<1>1. open' = words
  BY DEF Rewrite
<1>2. CASE words = <<>>
  <2>1. file' = file /\ open = <<>>
    BY <1>2 DEF Rewrite
  <2> QED BY <1>1, <1>2, <2>1 DEF Grows, FileInv
<1>3. CASE words # <<>>
  <2>1. file' = IF open = <<>> THEN Append(file, Line(words)) ELSE [file EXCEPT ![Len(file)] = Line(words)]
    BY <1>3 DEF Rewrite
  <2>2. Line(words) \in Lines
    BY LineType
  <2>3. ASSUME NEW m \in Net, Line(words) = Section({m}) PROVE m \in users
    <3>1. words[2] = <<Name(m)>> /\ (Len(words) \in {2, 3} \/ Len(words) - 1 = 2)
      BY ONLY <2>3, SectionNamed
    <3>2. Len(words) >= 2
      BY <3>1
    <3> QED BY <3>1, <3>2 DEF Named
  <2> QED BY <1>1, <2>1, <2>2, <2>3, LastLine DEF Grows
<1> QED BY <1>2, <1>3

LEMMA TextFacts ==
  ASSUME FileInv, NEW n \in Net, pc[n] \in {"header", "key", "name", "height", "bytes"}
  PROVE  /\ Text(n) \in Texts /\ \A m \in Net : Text(n) = Name(m) => m \in users
         /\ \A t \in Cut(Text(n)) : t \in Texts /\ \A m \in Net : t # Name(m)
         /\ at[n] * Step \in 0..HeightMax /\ current_total_bytes(n) \in 0..BytesMax
<1>1. at[n] * Step \in 0..HeightMax
  <2>1. at[n] \in 0..Tip[n] /\ Tip[n] \in Nat /\ Step \in Nat /\ Tip[n] * Step <= HeightMax /\ HeightMax \in Nat
    BY SizeAssumption DEF FileInv
  <2>2. \A a \in Nat, b \in Nat, c \in Nat : a <= b => a * c <= b * c /\ a * c \in Nat /\ b * c \in Nat
    OBVIOUS
  <2> QED BY <2>1, <2>2
<1>2. current_total_bytes(n) \in 0..BytesMax
  BY SizeAssumption DEF FileInv, current_total_bytes
<1>3. n \in users
  BY DEF FileInv, Writing
<1>4. \A m \in Net : /\ Name(n) = Name(m) => n = m
                     /\ Key # Name(m) /\ Comment # Name(m) /\ Torn # Name(m)
                     /\ \A v : Num(v) # Name(m)
  BY DEF Name, Key, Comment, Torn, Num
<1>5. /\ pc[n] = "header" => Text(n) = Comment
      /\ pc[n] = "key" => Text(n) = Key
      /\ pc[n] = "name" => Text(n) = Name(n)
      /\ pc[n] = "height" => Text(n) = Num(at[n] * Step)
      /\ pc[n] = "bytes" => Text(n) = Num(current_total_bytes(n))
  BY DEF Text
<1>6. /\ Comment \in Texts /\ Key \in Texts /\ Torn \in Texts /\ Name(n) \in Texts
      /\ \A v \in Nat : Num(v) \in Texts
  BY DEF Texts
<1>7. Text(n) \in Texts
  <2>1. at[n] * Step \in Nat /\ current_total_bytes(n) \in Nat
    BY <1>1, <1>2, SizeAssumption
  <2> QED BY <1>5, <1>6, <2>1
<1>8. \A m \in Net : Text(n) = Name(m) => m \in users
  <2>1. CASE pc[n] = "name"
    BY <1>3, <1>4, <1>5, <2>1
  <2>2. CASE pc[n] # "name"
    <3>1. Text(n) \in {Comment, Key} \/ \E v : Text(n) = Num(v)
      BY ONLY <1>5, <2>2, pc[n] \in {"header", "key", "name", "height", "bytes"}
    <3> QED BY ONLY <1>4, <3>1
  <2> QED BY <2>1, <2>2
<1>9. ASSUME NEW t \in Cut(Text(n)) PROVE t \in Texts /\ \A m \in Net : t # Name(m)
  <2>1. t = Torn \/ \E v \in 0..Text(n).val : t = Num(v)
    BY DEF Cut
  <2>2. \A x, v : v \in 0..x => v \in Nat \/ x \notin Int
    OBVIOUS
  <2>3. t = Torn \/ \E v \in Nat : t = Num(v)
    <3>1. CASE t = Torn
      BY <3>1
    <3>2. CASE t # Torn
      <4>1. Text(n).text = "number" /\ \E v \in 0..Text(n).val : t = Num(v)
        BY <1>9, <3>2 DEF Cut
      <4>2. pc[n] \in {"height", "bytes"}
        BY <1>5, <4>1 DEF Comment, Key, Name
      <4>3. Text(n).val \in Nat
        BY <1>1, <1>2, <1>5, <4>2, SizeAssumption DEF Num
      <4> QED BY <4>1, <4>3
    <3> QED BY <3>1, <3>2
  <2>4. t \in Texts
    BY ONLY <1>6, <2>3
  <2>5. \A m \in Net : t # Name(m)
    BY ONLY <1>4, <2>3
  <2> QED BY <2>4, <2>5
<1> QED BY <1>1, <1>2, <1>7, <1>8, <1>9

LEMMA GrowsSame ==
  ASSUME FileInv, file' = file, open' = open
  PROVE  Grows
  BY DEF FileInv, Grows, Named

LEMMA GrowsEnd ==
  ASSUME FileInv, file' = file, open' = <<>>
  PROVE  Grows
<1>1. open' \in Seq(Seq(Texts)) /\ Named(open')
  BY DEF Named
<1> QED BY <1>1 DEF FileInv, Grows

\* A text is appended, or a space.
LEMMA GrowsPut ==
  ASSUME FileInv, NEW text \in Texts, \A m \in Net : text = Name(m) => m \in users
  PROVE  /\ Rewrite(Put(text)) => Grows
         /\ Rewrite(Gap(Put(text))) => Grows
<1>1. Put(text) \in Seq(Seq(Texts)) /\ Put(text) # <<>> /\ Named(Put(text))
  BY PutFacts
<1>2. Gap(Put(text)) \in Seq(Seq(Texts)) /\ Gap(Put(text)) # <<>> /\ Named(Gap(Put(text)))
  BY ONLY <1>1, GapFacts
<1>3. ASSUME Rewrite(Put(text)) PROVE Grows
  BY <1>1, <1>3, RewriteGrows
<1>4. ASSUME Rewrite(Gap(Put(text))) PROVE Grows
  BY <1>2, <1>4, RewriteGrows
<1> QED BY <1>3, <1>4

LEMMA GrowsSpace ==
  ASSUME FileInv, Rewrite(Gap(open))
  PROVE  Grows
<1>1. open \in Seq(Seq(Texts)) /\ Named(open)
  BY DEF FileInv, Named
<1>2. Gap(open) \in Seq(Seq(Texts)) /\ Named(Gap(open)) /\ (Gap(open) = <<>> => open = <<>>)
  BY ONLY <1>1, GapFacts
<1> QED BY <1>2, RewriteGrows

LEMMA GrowsWrite ==
  ASSUME FileInv, NEW n \in Net, Write(n)
  PROVE  Grows
<1>0. pc[n] \in Writing
  BY DEF Write
<1>1. CASE pc[n] \in {"name", "height", "bytes"}
  <2>1. Rewrite(Put(Text(n)))
    BY <1>1 DEF Write
  <2>2. Text(n) \in Texts /\ \A m \in Net : Text(n) = Name(m) => m \in users
    BY <1>1, TextFacts
  <2> QED BY <2>1, <2>2, GrowsPut
<1>2. CASE pc[n] = "key"
  <2>1. Rewrite(Gap(Put(Key)))
    BY <1>2 DEF Write
  <2>2. Key \in Texts /\ \A m \in Net : Key = Name(m) => m \in users
    BY DEF Texts, Key, Name
  <2> QED BY <2>1, <2>2, GrowsPut
<1>3. CASE pc[n] = "space"
  <2>1. Rewrite(Gap(open))
    BY <1>3 DEF Write
  <2> QED BY <2>1, GrowsSpace
<1>4. CASE pc[n] \in {"name_end", "end"}
  <2>1. open' = <<>> /\ file' = file
    BY <1>4 DEF Write
  <2> QED BY <2>1, GrowsEnd
<1>5. CASE pc[n] = "header"
  <2>1. open' = <<>> /\ file' = IF open = <<>> THEN Append(file, Other) ELSE [file EXCEPT ![Len(file)] = Other]
    BY <1>5 DEF Write
  <2>2. Other \in Lines /\ \A m \in Net : Other = Section({m}) => m \in users
    BY NewLines
  <2>3. open' \in Seq(Seq(Texts)) /\ Named(open')
    BY <2>1 DEF Named
  <2> QED BY <2>1, <2>2, <2>3, LastLine DEF Grows
<1> QED BY <1>0, <1>1, <1>2, <1>3, <1>4, <1>5 DEF Writing

LEMMA GrowsTear ==
  ASSUME FileInv, NEW n \in Net, Tear(n)
  PROVE  Grows
<1>1. CASE UNCHANGED <<file, open>>
  BY <1>1, GrowsSame
<1>2. CASE /\ pc[n] \in {"header", "key", "name", "height", "bytes"}
           /\ \E text \in Cut(Text(n)) : Rewrite(Put(text))
  <2>1. PICK text \in Cut(Text(n)) : Rewrite(Put(text))
    BY <1>2
  <2>2. text \in Texts /\ \A m \in Net : text # Name(m)
    BY <1>2, TextFacts
  <2> QED BY <2>1, <2>2, GrowsPut
<1> QED BY <1>1, <1>2 DEF Tear

\* A write of nothing but the file and of what its writer keeps about it.
LEMMA FileGrows ==
  ASSUME FileInv, Grows, UNCHANGED <<at, grown, users>>, tears' \in Nat, NEW n \in Net, n \in users,
         NEW s \in {"down", "up"} \cup Writing, pc' = [pc EXCEPT ![n] = s],
         DOMAIN last' = Net, DOMAIN recorded' = Net, \A m \in Net : recorded'[m] \subseteq recorded[m] \cup {at[m]}
  PROVE  FileInv'
<1>1. /\ file' \in Seq(Lines) /\ open' \in Seq(Seq(Texts))
      /\ open' # <<>> => file' # <<>> /\ file'[Len(file')] = Line(open')
      /\ \A m \in Net : Len(open') >= 2 /\ open'[2] = <<Name(m)>> => m \in users'
      /\ \A i \in DOMAIN file', m \in Net : file'[i] = Section({m}) => m \in users'
  BY DEF Grows, Named
<1>2. pc' \in [Net -> {"down", "up"} \cup Writing]
  BY DEF FileInv
<1>3. \A m \in Net : pc'[m] \in Writing => m \in users'
  BY DEF FileInv
<1>4. /\ DOMAIN at' = Net /\ \A m \in Net : at'[m] \in 0..Tip[m]
      /\ DOMAIN grown' = Net /\ \A m \in Net : grown'[m] \in 0..Tip[m]
  BY DEF FileInv
<1>5. \A m \in Net : recorded'[m] \subseteq 0..Tip[m]
  BY DEF FileInv
<1>6. open' # <<>> => file'[Len(file')] = Line(open)'
  BY <1>1
<1> QED BY <1>1, <1>2, <1>3, <1>4, <1>5, <1>6 DEF FileInv

LEMMA FileInit == Init => FileInv
<1>1. Init => pc \in [Net -> {"down", "up"} \cup Writing]
  BY DEF Init
<1>2. ASSUME Init, NEW m \in Net PROVE pc[m] \notin Writing
  BY <1>2 DEF Init, Writing
<1>3. \A m \in Net : 0 \in 0..Tip[m]
  BY SizeAssumption
<1>4. ASSUME Init PROVE /\ \A n \in Net : at[n] \in 0..Tip[n]
                        /\ \A n \in Net : grown[n] \in 0..Tip[n]
                        /\ \A n \in Net : recorded[n] \subseteq 0..Tip[n]
  BY <1>3, <1>4 DEF Init
<1>5. ASSUME Init PROVE file \in Seq(Lines) /\ open \in Seq(Seq(Texts)) /\ DOMAIN file = {} /\ Len(open) = 0
  BY <1>5 DEF Init
<1>6. ASSUME Init PROVE \A m \in Net : ~(Len(open) >= 2)
  BY <1>5, <1>6
<1>7. ASSUME Init PROVE \A i \in DOMAIN file : FALSE
  BY <1>5, <1>7
<1>8. ASSUME Init PROVE DOMAIN at = Net /\ DOMAIN grown = Net /\ DOMAIN last = Net /\ DOMAIN recorded = Net /\ open = <<>> /\ tears \in Nat
  BY <1>8 DEF Init
<1> QED BY ONLY <1>1, <1>2, <1>4, <1>5, <1>6, <1>7, <1>8 DEF FileInv

LEMMA PieceAfter ==
  ASSUME NEW s \in Writing
  PROVE  After(s) \in {"down", "up"} \cup Writing
  BY DEF Writing, After

LEMMA FileWrite ==
  ASSUME FileInv, NEW n \in Net, Write(n)
  PROVE  FileInv'
<1>1. Grows
  BY GrowsWrite
<1>2. n \in users /\ pc[n] \in Writing
  BY DEF Write, FileInv
<1>3. After(pc[n]) \in {"down", "up"} \cup Writing
  BY <1>2, PieceAfter
<1>4. pc' = [pc EXCEPT ![n] = After(pc[n])]
  BY DEF Write
<1>5. DOMAIN last' = Net /\ DOMAIN recorded' = Net /\ \A m \in Net : recorded'[m] \subseteq recorded[m] \cup {at[m]}
  BY DEF Write, FileInv
<1>6. UNCHANGED <<at, grown, users>> /\ tears' \in Nat
  BY DEF Write, FileInv
<1> QED BY <1>1, <1>2, <1>3, <1>4, <1>5, <1>6, FileGrows

LEMMA FileTear ==
  ASSUME FileInv, NEW n \in Net, Tear(n)
  PROVE  FileInv'
<1>1. Grows
  BY GrowsTear
<1>2. n \in users
  BY DEF Tear, FileInv
<1>3. PICK s \in {"up", "down"} : pc' = [pc EXCEPT ![n] = s]
  BY DEF Tear
<1>4. DOMAIN last' = Net /\ DOMAIN recorded' = Net /\ \A m \in Net : recorded'[m] \subseteq recorded[m] \cup {at[m]}
  BY DEF Tear, FileInv
<1>5. UNCHANGED <<at, grown, users>> /\ tears' \in Nat
  BY DEF Tear, FileInv
<1> QED BY <1>1, <1>2, <1>3, <1>4, <1>5, FileGrows

LEMMA FileStep == FileInv /\ [Next]_vars => FileInv'
<1> SUFFICES ASSUME FileInv, [Next]_vars PROVE FileInv'
  OBVIOUS
<1>1. CASE UNCHANGED vars
  BY <1>1 DEF vars, procVars, FileInv
<1>2. ASSUME NEW n \in Net, Start(n) \/ Stop(n)
      PROVE  FileInv'
  BY <1>2 DEF Start, Stop, FileInv, Writing
<1>3. ASSUME NEW n \in Net, NEW h \in 1..Tip[n], Applied(n, h)
      PROVE  FileInv'
  <2>1. UNCHANGED <<file, open, tears>>
    BY <1>3 DEF Applied
  <2>2. FirstPiece(n) \in {"down", "up"} \cup Writing
    BY DEF FirstPiece, Writing
  <2>3. h \in 0..Tip[n] /\ Tip[n] \in Nat
    BY SizeAssumption
  <2>4. pc' \in [Net -> {"down", "up"} \cup Writing]
    BY <1>3, <2>2 DEF Applied, FileInv
  <2>5. users \subseteq users' /\ \A m \in Net : pc'[m] \in Writing => m \in users'
    BY <1>3 DEF Applied, FileInv
  <2>6. /\ DOMAIN at' = Net /\ \A m \in Net : at'[m] \in 0..Tip[m]
    BY <1>3, <2>3 DEF Applied, FileInv
  <2>7. Max({grown[n], h}) \in 0..Tip[n]
    <3>1. {grown[n], h} \subseteq 0..Tip[n] /\ {grown[n], h} # {}
      BY <2>3 DEF FileInv
    <3> QED BY ONLY <2>3, <3>1, MaxFacts
  <2>8. DOMAIN grown' = Net /\ \A m \in Net : grown'[m] \in 0..Tip[m]
    BY <1>3, <2>7 DEF Applied, FileInv
  <2>9. DOMAIN recorded' = Net /\ \A m \in Net : recorded'[m] \subseteq 0..Tip[m]
    <3>1. recorded' = recorded \/ recorded' = [recorded EXCEPT ![n] = @ \cup {h}]
      BY <1>3 DEF Applied
    <3>2. DOMAIN recorded = Net /\ \A m \in Net : recorded[m] \subseteq 0..Tip[m]
      BY DEF FileInv
    <3> QED BY ONLY <2>3, <3>1, <3>2, n \in Net
  <2>10. DOMAIN last' = Net
    BY <1>3 DEF Applied, FileInv
  <2> QED BY <2>1, <2>4, <2>5, <2>6, <2>8, <2>9, <2>10 DEF FileInv
<1> QED BY <1>1, <1>2, <1>3, FileWrite, FileTear DEF Next

-----------------------------------------------------------------------------
(* A network that has the file to itself.                                  *)

Inside == {"name", "name_end", "space", "bytes", "end"}

\* The points read, but not the line being written.
Firm(n) == {i \in read_checkpoints(n) : pc[n] \in Inside => i < Len(file)}

LostFirm(n) == {h \in recorded[n] : h * Step \notin Heights(Firm(n))}

\* The line without end when nothing is in the way.
Own(n) == CASE pc[n] = "name" -> <<<<Key>>, <<>>>>
            [] pc[n] = "name_end" -> <<<<Key>>, <<Name(n)>>>>
            [] pc[n] = "space" -> <<<<Num(at[n] * Step)>>>>
            [] pc[n] = "bytes" -> <<<<Num(at[n] * Step)>>, <<>>>>
            [] pc[n] = "end" -> <<<<Num(at[n] * Step)>>, <<Num(current_total_bytes(n))>>>>
            [] OTHER -> <<>>

Clean(n) == open = Own(n)
Sectioned(n) == pc[n] \in {"header", "key", "name", "name_end"} \/ has_section(n)

\* Points that may still be lost for the writes cut off so far: that of a line
\* without end which the next line will be glued to, and that of the next line.
Debt(n) == IF pc[n] \notin Inside /\ open # <<>> THEN 2
           ELSE IF pc[n] \in Writing /\ ~(Clean(n) /\ Sectioned(n)) THEN 1 ELSE 0

AloneInv(n) == Cardinality(LostFirm(n)) + Debt(n) <= 2 * tears

\* How the line without end goes on after the piece just written, and so: lines
\* with an end are not sections of nobody.
Shape(n) ==
  /\ pc[n] \in Inside => open # <<>>
  /\ pc[n] \in {"name", "bytes"} => open[Len(open)] = <<>>
  /\ pc[n] = "name_end" => open[Len(open)] = <<Name(n)>>
  /\ pc[n] \in {"space", "end"} => open[Len(open)] # <<>>
  /\ pc[n] = "space" => open[Len(open)] # <<Key>>
  /\ pc[n] \in {"bytes", "end"} => Len(open) >= 2 /\ open[Len(open) - 1] # <<Key>>

SoleInv(n) == /\ Shape(n)
              /\ \A i \in DOMAIN file : open = <<>> \/ i # Len(file) => file[i] # Section({})

LossInv == \A n \in Net : users \subseteq {n} => AloneInv(n) /\ SoleInv(n)

LEMMA StepsFinite ==
  ASSUME NEW t \in Nat, NEW A, A \subseteq 0..t
  PROVE  IsFiniteSet(A) /\ Cardinality(A) \in Nat
<1>1. IsFiniteSet(0..t)
  BY FS_Interval
<1>2. IsFiniteSet(A)
  BY <1>1, FS_Subset
<1> QED BY <1>2, FS_CardinalityType

\* One more step, at most.
LEMMA OneMore ==
  ASSUME NEW t \in Nat, NEW A, NEW B, NEW h, A \subseteq 0..t, B \subseteq A \cup {h}
  PROVE  Cardinality(B) <= Cardinality(A) + 1 /\ IsFiniteSet(B) /\ Cardinality(B) \in Nat
<1>1. IsFiniteSet(A) /\ Cardinality(A) \in Nat
  BY StepsFinite
<1>2. /\ IsFiniteSet(A \cup {h})
      /\ Cardinality(A \cup {h}) = IF h \in A THEN Cardinality(A) ELSE Cardinality(A) + 1
  BY <1>1, FS_AddElement
<1>3. IsFiniteSet(B) /\ Cardinality(B) <= Cardinality(A \cup {h})
  BY <1>2, FS_Subset
<1>4. Cardinality(B) \in Nat
  BY <1>3, FS_CardinalityType
<1> QED BY <1>1, <1>2, <1>3, <1>4

LEMMA LostFinite ==
  ASSUME FileInv, NEW n \in Net
  PROVE  /\ Tip[n] \in Nat /\ LostFirm(n) \subseteq 0..Tip[n] /\ IsFiniteSet(LostFirm(n))
         /\ Cardinality(LostFirm(n)) \in Nat
<1>1. LostFirm(n) \subseteq 0..Tip[n]
  BY DEF FileInv, LostFirm
<1>2. Tip[n] \in Nat
  BY SizeAssumption
<1> QED BY <1>1, <1>2, StepsFinite

LEMMA DebtType == \A n \in Net : Debt(n) \in 0..2
  BY DEF Debt

\* What is lost does not grow, or by one; the debt pays for it.
LEMMA AloneSame ==
  ASSUME FileInv, NEW n \in Net, AloneInv(n), LostFirm(n)' \subseteq LostFirm(n),
         Debt(n)' <= Debt(n) + 2 * (tears' - tears), tears' \in Nat
  PROVE  AloneInv(n)'
<1>1. IsFiniteSet(LostFirm(n)) /\ Cardinality(LostFirm(n)) \in Nat
  BY LostFinite
<1>2. Cardinality(LostFirm(n)') <= Cardinality(LostFirm(n)) /\ IsFiniteSet(LostFirm(n)')
  BY <1>1, FS_Subset
<1>3. Cardinality(LostFirm(n)') \in Nat
  BY <1>2, FS_CardinalityType
<1>4. Debt(n) \in 0..2 /\ Debt(n)' \in 0..2 /\ tears \in Nat
  BY DebtType DEF FileInv, Debt
<1>5. Cardinality(LostFirm(n)) + Debt(n) <= 2 * tears
  BY DEF AloneInv
<1>6. Cardinality(LostFirm(n)') + Debt(n)' <= 2 * tears'
  BY <1>1, <1>2, <1>3, <1>4, <1>5
<1> QED BY <1>6 DEF AloneInv

LEMMA AloneMore ==
  ASSUME FileInv, NEW n \in Net, AloneInv(n), NEW x, LostFirm(n)' \subseteq LostFirm(n) \cup {x},
         Debt(n)' + 1 <= Debt(n) + 2 * (tears' - tears), tears' \in Nat
  PROVE  AloneInv(n)'
<1>1. /\ Cardinality(LostFirm(n)') <= Cardinality(LostFirm(n)) + 1
      /\ Cardinality(LostFirm(n)') \in Nat /\ Cardinality(LostFirm(n)) \in Nat
  BY LostFinite, OneMore
<1>2. Debt(n) \in 0..2 /\ Debt(n)' \in 0..2 /\ tears \in Nat
  BY DebtType DEF FileInv, Debt
<1>3. Cardinality(LostFirm(n)) + Debt(n) <= 2 * tears
  BY DEF AloneInv
<1>4. Cardinality(LostFirm(n)') + Debt(n)' <= 2 * tears'
  BY <1>1, <1>2, <1>3
<1> QED BY <1>4 DEF AloneInv

\* The lines with an end are read as before.
LEMMA GrowsKeep ==
  ASSUME FileInv, Grows, NEW n, NEW i \in 1..Len(file), open = <<>> \/ i # Len(file)
  PROVE  /\ i \in read_checkpoints(n)' <=> i \in read_checkpoints(n)
         /\ file'[i] = file[i] /\ Under(i)' = Under(i)
<1>1. /\ file \in Seq(Lines) /\ file' \in Seq(Lines) /\ Len(file) <= Len(file')
      /\ \A j \in 1..Len(file) : open = <<>> \/ j # Len(file) => file'[j] = file[j]
  BY DEF FileInv, Grows
<1>2. i \in Nat /\ i <= Len(file) /\ i <= Len(file') /\ Len(file) \in Nat
  BY <1>1
<1>3. \A j \in 1..i : file'[j] = file[j]
  BY <1>1, <1>2
<1>4. i \in 1..i
  BY <1>2
<1> QED BY ONLY <1>1, <1>2, <1>3, <1>4, ReadSame

LEMMA FirmKeeps ==
  ASSUME FileInv, Grows, NEW n \in Net, NEW i \in Firm(n),
         pc'[n] \in Inside /\ pc[n] \notin Inside /\ open = <<>> => Len(file') = Len(file) + 1,
         i # Len(file) \/ (pc[n] \notin Inside /\ open = <<>>)
  PROVE  i \in Firm(n)' /\ file'[i] = file[i]
<1>1. file \in Seq(Lines) /\ file' \in Seq(Lines) /\ Len(file) <= Len(file')
  BY DEF FileInv, Grows
<1>2. i \in read_checkpoints(n) /\ i \in 1..Len(file)
  BY <1>1, ReadPlaces DEF Firm
<1>3. i \in read_checkpoints(n)' /\ file'[i] = file[i]
  BY <1>2, GrowsKeep
<1>4. pc'[n] \in Inside => i < Len(file')
  BY <1>1, <1>2
<1> QED BY <1>3, <1>4 DEF Firm

\* What was read back and still is is not lost.
LEMMA LostKeeps ==
  ASSUME FileInv, Grows, NEW n \in Net, recorded' = recorded,
         pc'[n] \in Inside /\ pc[n] \notin Inside /\ open = <<>> => Len(file') = Len(file) + 1
  PROVE  /\ pc[n] \in Inside \/ open = <<>> => LostFirm(n)' \subseteq LostFirm(n)
         /\ \E x : LostFirm(n)' \subseteq LostFirm(n) \cup {x}
<1>1. file \in Seq(Lines) /\ Len(file) \in Nat
  BY DEF FileInv
<1>2. ASSUME NEW i \in Firm(n), i # Len(file) \/ (pc[n] \notin Inside /\ open = <<>>)
      PROVE  i \in Firm(n)' /\ file'[i] = file[i]
  BY <1>2, FirmKeeps
<1>3. ASSUME pc[n] \in Inside \/ open = <<>> PROVE LostFirm(n)' \subseteq LostFirm(n)
  <2>1. ASSUME NEW i \in Firm(n) PROVE i \in Firm(n)' /\ file'[i] = file[i]
    <3>1. pc[n] \in Inside => i # Len(file)
      BY <1>1, ReadPlaces DEF Firm
    <3> QED BY <1>2, <1>3, <3>1
  <2>2. Heights(Firm(n)) \subseteq Heights(Firm(n))'
    BY <2>1 DEF Heights
  <2> QED BY <2>2 DEF LostFirm
<1>4. \E x : LostFirm(n)' \subseteq LostFirm(n) \cup {x}
  <2>1. PICK k : k = file[Len(file)].height
    OBVIOUS
  <2>2. \A y \in Heights(Firm(n)) : y # k => y \in Heights(Firm(n))'
    BY <1>2, <2>1 DEF Heights
  <2>3. \A h \in LostFirm(n)' : h \in LostFirm(n) \/ h * Step = k
    BY <2>2 DEF LostFirm
  <2>4. \A h \in LostFirm(n)' : h \in Nat
    <3>1. recorded[n] \subseteq 0..Tip[n] /\ Tip[n] \in Nat
      BY SizeAssumption DEF FileInv
    <3> QED BY <3>1 DEF LostFirm
  <2>5. \A a \in Nat, b \in Nat, c \in Nat \ {0} : a * c = b * c => a = b
    OBVIOUS
  <2>6. CASE \E x \in Nat : x * Step = k
    <3>1. PICK x \in Nat : x * Step = k
      BY <2>6
    <3>2. \A h \in LostFirm(n)' : h \in LostFirm(n) \/ h = x
      BY <2>3, <2>4, <2>5, <3>1, SizeAssumption
    <3> QED BY <3>2
  <2>7. CASE ~\E x \in Nat : x * Step = k
    BY <2>3, <2>4, <2>7
  <2> QED BY <2>6, <2>7
<1> QED BY <1>3, <1>4

-----------------------------------------------------------------------------
(* The words of a line that goes on.                                       *)

LEMMA PutShape ==
  ASSUME FileInv, NEW text
  PROVE  /\ open = <<>> => Put(text) = <<<<text>>>>
         /\ open # <<>> => /\ Len(Put(text)) = Len(open) /\ Len(open) >= 1
                           /\ Put(text)[Len(open)] = Append(open[Len(open)], text)
                           /\ open[Len(open)] \in Seq(Texts)
                           /\ \A j \in 1..Len(open) : j # Len(open) => Put(text)[j] = open[j]
<1>1. open \in Seq(Seq(Texts))
  BY DEF FileInv
<1>2. open = <<>> => Put(text) = <<<<text>>>>
  BY DEF Put
<1>3. ASSUME open # <<>>
      PROVE /\ Len(Put(text)) = Len(open) /\ Len(open) >= 1
            /\ Put(text)[Len(open)] = Append(open[Len(open)], text)
            /\ open[Len(open)] \in Seq(Texts)
            /\ \A j \in 1..Len(open) : j # Len(open) => Put(text)[j] = open[j]
  <2>1. PICK k, w : k = Len(open) /\ w = Append(open[k], text)
    OBVIOUS
  <2>2. k \in 1..Len(open) /\ Len(open) >= 1 /\ DOMAIN open = 1..Len(open) /\ open[k] \in Seq(Texts)
    BY <1>1, <1>3, <2>1
  <2>3. Put(text) = [open EXCEPT ![k] = w]
    BY <1>3, <2>1 DEF Put
  <2>4. open \in Seq(Seq(Texts) \cup {w})
    BY <1>1
  <2>5. /\ Len([open EXCEPT ![k] = w]) = Len(open) /\ [open EXCEPT ![k] = w][k] = w
        /\ \A j \in 1..Len(open) : j # k => [open EXCEPT ![k] = w][j] = open[j]
    <3>1. w \in Seq(Texts) \cup {w}
      OBVIOUS
    <3> QED BY ONLY <2>2, <2>4, <3>1, ExceptFacts
  <2> QED BY ONLY <2>1, <2>2, <2>3, <2>5
<1> QED BY <1>2, <1>3

LEMMA GapShape ==
  ASSUME NEW words \in Seq(Seq(Texts)), words # <<>>
  PROVE  /\ Gap(words) # <<>> /\ Gap(words)[Len(Gap(words))] = <<>>
         /\ words[Len(words)] # <<>> => /\ Gap(words) = Append(words, <<>>)
                                        /\ Len(Gap(words)) = Len(words) + 1 /\ Len(words) >= 1
                                        /\ Gap(words)[Len(words)] = words[Len(words)]
<1>1. CASE words[Len(words)] = <<>>
  BY <1>1 DEF Gap
<1>2. CASE words[Len(words)] # <<>>
  <2>1. Gap(words) = Append(words, <<>>)
    BY <1>2 DEF Gap
  <2>2. PICK k, g : k = Len(words) /\ g = Append(words, <<>>)
    OBVIOUS
  <2>3. k \in Nat /\ k >= 1 /\ Len(g) = k + 1 /\ g[k + 1] = <<>> /\ g[k] = words[k]
    BY <2>2
  <2>4. g # <<>>
    BY <2>3
  <2> QED BY ONLY <2>1, <2>2, <2>3, <2>4
<1> QED BY <1>1, <1>2

\* A word that another text was put to is not empty, and is that text alone or
\* of more than one.
LEMMA WordFacts ==
  ASSUME NEW w \in Seq(Texts), NEW text
  PROVE  /\ Append(w, text) # <<>>
         /\ \A t : t # text => Append(w, text) # <<t>>
         /\ w = <<>> => Append(w, text) = <<text>>
<1>1. Append(w, text)[Len(w) + 1] = text /\ Len(Append(w, text)) = Len(w) + 1 /\ Len(w) \in Nat
  OBVIOUS
<1>2. Append(w, text) # <<>>
  BY <1>1
<1>3. ASSUME NEW t, Append(w, text) = <<t>> PROVE t = text
  <2>1. Len(w) = 0
    BY <1>1, <1>3
  <2> QED BY <1>1, <1>3, <2>1
<1>4. w = <<>> => Append(w, text) = <<text>>
  OBVIOUS
<1> QED BY <1>2, <1>3, <1>4

\* A line whose words are of this shape is no section of nobody.
LEMMA ShapeLine ==
  ASSUME FileInv, NEW n \in Net, Shape(n), pc[n] \in {"name_end", "end"}
  PROVE  Line(open) # Section({})
<1>1. \A s : Other # Section(s) /\ \A h, b : Point(h, b) # Section(s)
  BY NewLines
<1>2. CASE pc[n] = "name_end"
  <2>1. open[Len(open)] = <<Name(n)>> /\ <<Name(n)>> # <<>>
    BY <1>2 DEF Shape
  <2>2. \/ Line(open) = Section({m \in Net : open[2] = <<Name(m)>>}) /\ Len(open) = 2
        \/ \A s : Line(open) # Section(s)
    BY <1>1, <2>1 DEF Line
  <2>3. CASE Line(open) = Section({m \in Net : open[2] = <<Name(m)>>}) /\ Len(open) = 2
    <3>1. PICK s : s = {m \in Net : open[2] = <<Name(m)>>}
      OBVIOUS
    <3>2. n \in s
      BY <2>1, <2>3, <3>1
    <3>3. s # {} /\ Line(open) = Section(s)
      BY <2>3, <3>1, <3>2
    <3> QED BY <3>3, NewLines
  <2> QED BY <2>2, <2>3
<1>3. CASE pc[n] = "end"
  <2>1. open[Len(open)] # <<>> /\ open[Len(open) - 1] # <<Key>>
    BY <1>3 DEF Shape
  <2>2. \A s : Line(open) # Section(s)
    <3>1. CASE Len(open) = 2
      <4>1. open[1] # <<Key>>
        BY <2>1, <3>1
      <4> QED BY <1>1, <2>1, <3>1, <4>1 DEF Line
    <3>2. CASE Len(open) # 2
      BY <1>1, <2>1, <3>2 DEF Line
    <3> QED BY <3>1, <3>2
  <2> QED BY <2>2
<1> QED BY <1>2, <1>3

LEMMA ShapeWrite ==
  ASSUME FileInv, NEW n \in Net, Shape(n), Write(n)
  PROVE  Shape(n)'
<1>0. /\ pc[n] \in Writing /\ pc' = [pc EXCEPT ![n] = After(pc[n])] /\ pc \in [Net -> {"down", "up"} \cup Writing]
      /\ open \in Seq(Seq(Texts))
  BY DEF Write, FileInv
<1>1. pc'[n] = After(pc[n])
  BY <1>0
<1>2. CASE pc[n] \in {"header", "name_end", "end"}
  <2>1. pc'[n] \in {"key", "height", "up"}
    BY <1>1, <1>2 DEF After
  <2> QED BY <2>1 DEF Shape, Inside
<1>3. CASE pc[n] = "key"
  <2>1. pc'[n] = "name" /\ open' = Gap(Put(Key))
    BY <1>1, <1>3 DEF After, Write, Rewrite
  <2>2. Put(Key) \in Seq(Seq(Texts)) /\ Put(Key) # <<>>
    <3>1. Key \in Texts /\ \A m \in Net : Key = Name(m) => m \in users
      BY DEF Texts, Key, Name
    <3> QED BY <3>1, PutFacts
  <2>3. open' # <<>> /\ open'[Len(open')] = <<>>
    BY ONLY <2>1, <2>2, GapShape
  <2> QED BY <2>1, <2>3 DEF Shape, Inside
<1>4. CASE pc[n] = "name"
  <2>1. pc'[n] = "name_end" /\ open' = Put(Name(n))
    BY <1>1, <1>4 DEF After, Write, Rewrite, Text
  <2>2. open # <<>> /\ open[Len(open)] = <<>>
    BY <1>4 DEF Shape, Inside
  <2>3. /\ Len(open') = Len(open) /\ Len(open) >= 1 /\ open'[Len(open)] = Append(<<>>, Name(n))
    BY <2>1, <2>2, PutShape
  <2>4. open' # <<>> /\ open'[Len(open')] = <<Name(n)>>
    BY <2>3
  <2> QED BY <2>1, <2>4 DEF Shape, Inside
<1>5. CASE pc[n] = "height"
  <2>1. PICK t : t = Num(at[n] * Step)
    OBVIOUS
  <2>2. pc'[n] = "space" /\ open' = Put(t) /\ t # Key
    BY <1>1, <1>5, <2>1 DEF After, Write, Rewrite, Text, Num, Key
  <2>3. CASE open = <<>>
    <3>1. open' = <<<<t>>>>
      BY <2>2, <2>3, PutShape
    <3>2. open' # <<>> /\ open'[Len(open')] # <<>> /\ open'[Len(open')] # <<Key>>
      BY <2>2, <3>1
    <3> QED BY <2>2, <3>2 DEF Shape, Inside
  <2>4. CASE open # <<>>
    <3>1. /\ Len(open') = Len(open) /\ Len(open) >= 1 /\ open'[Len(open)] = Append(open[Len(open)], t)
          /\ open[Len(open)] \in Seq(Texts)
      BY <2>2, <2>4, PutShape
    <3>2. Append(open[Len(open)], t) # <<>> /\ Append(open[Len(open)], t) # <<Key>>
      BY <2>2, <3>1, WordFacts
    <3>3. open' # <<>> /\ open'[Len(open')] # <<>> /\ open'[Len(open')] # <<Key>>
      BY <3>1, <3>2
    <3> QED BY <2>2, <3>3 DEF Shape, Inside
  <2> QED BY <2>3, <2>4
<1>6. CASE pc[n] = "space"
  <2>1. pc'[n] = "bytes" /\ open' = Gap(open)
    BY <1>1, <1>6 DEF After, Write, Rewrite
  <2>2. open # <<>> /\ open[Len(open)] # <<>> /\ open[Len(open)] # <<Key>>
    BY <1>6 DEF Shape, Inside
  <2>3. /\ open' # <<>> /\ open'[Len(open')] = <<>> /\ Len(open') = Len(open) + 1 /\ Len(open) >= 1
        /\ open'[Len(open)] = open[Len(open)]
    BY ONLY <1>0, <2>1, <2>2, GapShape
  <2>4. Len(open') - 1 = Len(open) /\ Len(open') >= 2
    BY <1>0, <2>3
  <2>5. open'[Len(open') - 1] # <<Key>>
    BY ONLY <2>2, <2>3, <2>4
  <2> QED BY <2>1, <2>3, <2>4, <2>5 DEF Shape, Inside
<1>7. CASE pc[n] = "bytes"
  <2>1. PICK t : t = Num(current_total_bytes(n))
    OBVIOUS
  <2>2. pc'[n] = "end" /\ open' = Put(t)
    BY <1>1, <1>7, <2>1 DEF After, Write, Rewrite, Text
  <2>3. open # <<>> /\ Len(open) >= 2 /\ open[Len(open) - 1] # <<Key>>
    BY <1>7 DEF Shape, Inside
  <2>4. /\ Len(open') = Len(open) /\ open'[Len(open)] = Append(open[Len(open)], t)
        /\ open[Len(open)] \in Seq(Texts)
        /\ \A j \in 1..Len(open) : j # Len(open) => open'[j] = open[j]
    BY <2>2, <2>3, PutShape
  <2>5. Append(open[Len(open)], t) # <<>>
    BY <2>4, WordFacts
  <2>6. Len(open) - 1 \in 1..Len(open) /\ Len(open) - 1 # Len(open)
    BY <1>0, <2>3
  <2>7. open' # <<>> /\ open'[Len(open')] # <<>> /\ open'[Len(open') - 1] # <<Key>> /\ Len(open') >= 2
    BY <2>3, <2>4, <2>5, <2>6
  <2> QED BY <2>2, <2>7 DEF Shape, Inside
<1> QED BY <1>0, <1>2, <1>3, <1>4, <1>5, <1>6, <1>7 DEF Writing

\* The lines that had an end have it still, and are not sections of nobody.
LEMMA SoleGrows ==
  ASSUME FileInv, NEW n \in Net, SoleInv(n), Grows, NEW i \in DOMAIN file', i # Len(file')
  PROVE  file'[i] # Section({})
<1>1. file \in Seq(Lines) /\ file' \in Seq(Lines)
  BY DEF FileInv, Grows
<1>2. i \in 1..Len(file) /\ (open = <<>> \/ i # Len(file)) /\ i \in DOMAIN file
  BY <1>1 DEF Grows
<1>3. file'[i] = file[i]
  BY <1>2 DEF Grows
<1> QED BY <1>2, <1>3 DEF SoleInv

LEMMA SoleWrite ==
  ASSUME FileInv, NEW n \in Net, SoleInv(n), Write(n)
  PROVE  SoleInv(n)'
<1>1. Grows /\ Shape(n)'
  BY GrowsWrite, ShapeWrite DEF SoleInv
<1>2. ASSUME NEW i \in DOMAIN file', open' = <<>> \/ i # Len(file') PROVE file'[i] # Section({})
  <2>1. CASE i # Len(file')
    BY <1>1, <2>1, SoleGrows
  <2>2. CASE i = Len(file') /\ open' = <<>>
    <3>1. CASE pc[n] = "header"
      <4>1. file' = IF open = <<>> THEN Append(file, Other) ELSE [file EXCEPT ![Len(file)] = Other]
        BY <3>1 DEF Write
      <4>2. Other \in Lines /\ \A m \in Net : Other = Section({m}) => m \in users
        BY NewLines
      <4>3. file'[Len(file')] = Other
        BY <4>1, <4>2, LastLine
      <4> QED BY <2>2, <4>3, NewLines
    <3>2. CASE pc[n] \in {"name_end", "end"}
      <4>1. file' = file /\ open # <<>>
        BY <3>2 DEF Write, SoleInv, Shape, Inside
      <4>2. file[Len(file)] = Line(open)
        BY <4>1 DEF FileInv
      <4> QED BY <2>2, <3>2, <4>1, <4>2, ShapeLine DEF SoleInv
    <3>3. CASE pc[n] \notin {"header", "name_end", "end"}
      <4>1. pc[n] \in {"key", "name", "height", "space", "bytes"}
        BY <3>3 DEF Write, Writing
      <4>2. CASE pc[n] # "space"
        <5>1. open' = Put(Text(n)) \/ open' = Gap(Put(Text(n)))
          BY <4>1, <4>2 DEF Write, Rewrite, Text
        <5>2. Text(n) \in Texts /\ \A m \in Net : Text(n) = Name(m) => m \in users
          BY <4>1, <4>2, TextFacts
        <5>3. Put(Text(n)) \in Seq(Seq(Texts)) /\ Put(Text(n)) # <<>>
          BY <5>2, PutFacts
        <5>4. Gap(Put(Text(n))) # <<>>
          BY ONLY <5>3, GapShape
        <5> QED BY <2>2, <5>1, <5>3, <5>4
      <4>3. CASE pc[n] = "space"
        <5>1. open' = Gap(open) /\ open # <<>> /\ open \in Seq(Seq(Texts))
          BY <4>3 DEF Write, Rewrite, SoleInv, Shape, Inside, FileInv
        <5>2. Gap(open) # <<>>
          BY ONLY <5>1, GapShape
        <5> QED BY <2>2, <5>1, <5>2
      <4> QED BY <4>2, <4>3
    <3> QED BY <3>1, <3>2, <3>3
  <2> QED BY <1>2, <2>1, <2>2
<1> QED BY <1>1, <1>2 DEF SoleInv

LEMMA SoleTear ==
  ASSUME FileInv, NEW n \in Net, SoleInv(n), Tear(n)
  PROVE  SoleInv(n)'
<1>1. pc'[n] \in {"up", "down"}
  BY DEF Tear, FileInv
<1>2. Shape(n)'
  BY <1>1 DEF Shape, Inside
<1>3. CASE UNCHANGED <<file, open>>
  BY <1>2, <1>3 DEF SoleInv
<1>4. CASE ~UNCHANGED <<file, open>>
  <2>1. /\ pc[n] \in {"header", "key", "name", "height", "bytes"}
        /\ \E text \in Cut(Text(n)) : Rewrite(Put(text))
    BY <1>4 DEF Tear
  <2>2. PICK text \in Cut(Text(n)) : Rewrite(Put(text))
    BY <2>1
  <2>3. text \in Texts /\ \A m \in Net : text # Name(m)
    BY <2>1, TextFacts
  <2>4. open' # <<>>
    BY <2>2, <2>3, PutFacts DEF Rewrite
  <2>5. Grows
    BY GrowsTear
  <2>6. \A i \in DOMAIN file' : i # Len(file') => file'[i] # Section({})
    BY <2>5, SoleGrows
  <2> QED BY <1>2, <2>4, <2>6 DEF SoleInv
<1> QED BY <1>3, <1>4

-----------------------------------------------------------------------------
(* The losses of a network that has the file to itself.                    *)

LEMMA OwnPieces ==
  ASSUME NEW a, NEW b
  PROVE  /\ [<<<<a>>, <<>>>> EXCEPT ![Len(<<<<a>>, <<>>>>)] = Append(@, b)] = <<<<a>>, <<b>>>>
         /\ Append(<<<<a>>>>, <<>>) = <<<<a>>, <<>>>>
         /\ <<<<a>>>> # <<>> /\ <<<<a>>, <<>>>> # <<>> /\ <<<<a>>>>[Len(<<<<a>>>>)] # <<>>
<1>1. Append(<<<<a>>>>, <<>>) = <<<<a>>, <<>>>>
  <2>1. ASSUME NEW w, NEW e PROVE Append(<<w>>, e) = <<w, e>>
    <3>1. PICK p, q : p = Append(<<w>>, e) /\ q = <<w, e>>
      OBVIOUS
    <3>2. <<w>> \in Seq({w, e}) /\ q \in Seq({w, e}) /\ Len(q) = 2 /\ q[1] = w /\ q[2] = e
      BY <3>1
    <3>3. p \in Seq({w, e}) /\ Len(p) = 2
      BY ONLY <3>1, <3>2
    <3>4. p[1] = w /\ p[2] = e
      BY ONLY <3>1, <3>2
    <3>5. \A i \in 1..2 : p[i] = q[i]
      BY ONLY <3>2, <3>4
    <3>6. p = q
      BY ONLY <3>2, <3>3, <3>5
    <3> QED BY <3>1, <3>6
  <2> QED BY ONLY <2>1
<1>2. Append(<<>>, b) = <<b>> /\ Len(<<<<a>>, <<>>>>) = 2 /\ <<<<a>>, <<>>>>[2] = <<>>
  OBVIOUS
<1>3. [<<<<a>>, <<>>>> EXCEPT ![2] = <<b>>] = <<<<a>>, <<b>>>>
  OBVIOUS
<1>4. <<<<a>>>> # <<>> /\ <<<<a>>, <<>>>> # <<>> /\ <<<<a>>>>[Len(<<<<a>>>>)] # <<>>
  OBVIOUS
<1> QED BY <1>1, <1>2, <1>3, <1>4

\* Who finds the line without end as it left it leaves it so again.
LEMMA CleanWrite ==
  ASSUME FileInv, NEW n \in Net, Write(n), Clean(n)
  PROVE  Clean(n)'
<1>0. /\ pc[n] \in Writing /\ pc' = [pc EXCEPT ![n] = After(pc[n])] /\ pc \in [Net -> {"down", "up"} \cup Writing]
      /\ at' = at /\ grown' = grown
  BY DEF Write, FileInv
<1>1. pc'[n] = After(pc[n]) /\ at'[n] = at[n] /\ current_total_bytes(n)' = current_total_bytes(n)
  BY <1>0 DEF current_total_bytes
<1>2. CASE pc[n] \in {"header", "name_end", "end"}
  <2>1. pc'[n] \in {"key", "height", "up"} /\ open' = <<>>
    BY <1>1, <1>2 DEF After, Write
  <2> QED BY <2>1 DEF Clean, Own
<1>3. CASE pc[n] = "key"
  <2>1. pc'[n] = "name" /\ open' = Gap(Put(Key)) /\ open = <<>>
    BY <1>1, <1>3 DEF After, Write, Rewrite, Clean, Own
  <2>2. Put(Key) = <<<<Key>>>>
    BY <2>1 DEF Put
  <2>3. Gap(<<<<Key>>>>) = <<<<Key>>, <<>>>>
    BY OwnPieces DEF Gap
  <2> QED BY <2>1, <2>2, <2>3 DEF Clean, Own
<1>4. CASE pc[n] = "name"
  <2>1. pc'[n] = "name_end" /\ open' = Put(Name(n)) /\ open = <<<<Key>>, <<>>>>
    BY <1>1, <1>4 DEF After, Write, Rewrite, Clean, Own, Text
  <2>2. Put(Name(n)) = <<<<Key>>, <<Name(n)>>>>
    BY <2>1, OwnPieces DEF Put
  <2> QED BY <2>1, <2>2 DEF Clean, Own
<1>5. CASE pc[n] = "height"
  <2>1. pc'[n] = "space" /\ open' = Put(Num(at[n] * Step)) /\ open = <<>>
    BY <1>1, <1>5 DEF After, Write, Rewrite, Clean, Own, Text
  <2>2. open' = <<<<Num(at[n] * Step)>>>>
    BY <2>1 DEF Put
  <2> QED BY <1>1, <2>1, <2>2 DEF Clean, Own
<1>6. CASE pc[n] = "space"
  <2>1. pc'[n] = "bytes" /\ open' = Gap(open) /\ open = <<<<Num(at[n] * Step)>>>>
    BY <1>1, <1>6 DEF After, Write, Rewrite, Clean, Own
  <2>2. open' = <<<<Num(at[n] * Step)>>, <<>>>>
    BY <2>1, OwnPieces DEF Gap
  <2> QED BY <1>1, <2>1, <2>2 DEF Clean, Own
<1>7. CASE pc[n] = "bytes"
  <2>1. PICK a, b : a = Num(at[n] * Step) /\ b = Num(current_total_bytes(n))
    OBVIOUS
  <2>2. pc'[n] = "end" /\ open' = Put(b) /\ open = <<<<a>>, <<>>>>
    BY <1>1, <1>7, <2>1 DEF After, Write, Rewrite, Clean, Own, Text
  <2>3. open' = <<<<a>>, <<b>>>>
    BY <2>2, OwnPieces DEF Put
  <2>4. Own(n)' = <<<<a>>, <<b>>>>
    BY <1>1, <2>1, <2>2 DEF Own
  <2> QED BY <2>3, <2>4 DEF Clean
<1> QED BY <1>0, <1>2, <1>3, <1>4, <1>5, <1>6, <1>7 DEF Writing

LEMMA PointTypes ==
  ASSUME FileInv, NEW n \in Net
  PROVE  at[n] * Step \in 0..HeightMax /\ current_total_bytes(n) \in 0..BytesMax
<1>1. at[n] * Step \in 0..HeightMax
  <2>1. at[n] \in 0..Tip[n] /\ Tip[n] \in Nat /\ Step \in Nat /\ Tip[n] * Step <= HeightMax /\ HeightMax \in Nat
    BY SizeAssumption DEF FileInv
  <2>2. \A a \in Nat, b \in Nat, c \in Nat : a <= b => a * c <= b * c /\ a * c \in Nat /\ b * c \in Nat
    OBVIOUS
  <2> QED BY <2>1, <2>2
<1>2. current_total_bytes(n) \in 0..BytesMax
  BY SizeAssumption DEF FileInv, current_total_bytes
<1> QED BY <1>1, <1>2

\* The line without end of a network that is not disturbed.
LEMMA OwnLine ==
  ASSUME FileInv, NEW n \in Net, Clean(n), pc[n] \in Inside
  PROVE  /\ open # <<>> /\ file # <<>>
         /\ file[Len(file)] = IF pc[n] = "name_end" THEN Section({n})
                              ELSE IF pc[n] = "end" THEN Point(at[n] * Step, current_total_bytes(n))
                              ELSE Other
<1>3. PICK h \in 0..HeightMax, b \in 0..BytesMax : h = at[n] * Step /\ b = current_total_bytes(n)
  BY PointTypes
<1>4. /\ pc[n] = "name" => open = <<<<Key>>, <<>>>>
      /\ pc[n] = "name_end" => open = <<<<Key>>, <<Name(n)>>>>
      /\ pc[n] = "space" => open = <<<<Num(h)>>>>
      /\ pc[n] = "bytes" => open = <<<<Num(h)>>, <<>>>>
      /\ pc[n] = "end" => open = <<<<Num(h)>>, <<Num(b)>>>>
  BY <1>3 DEF Clean, Own
<1>5. open # <<>>
  BY <1>4 DEF Inside
<1>6. Line(open) = IF pc[n] = "name_end" THEN Section({n}) ELSE IF pc[n] = "end" THEN Point(h, b) ELSE Other
  BY <1>4, OwnLines DEF Inside
<1> QED BY <1>3, <1>5, <1>6 DEF FileInv

LEMMA OwnNext ==
  ASSUME FileInv, FileInv', NEW n \in Net, Write(n), Clean(n), pc[n] \notin {"header", "name_end", "end"}
  PROVE  /\ open' # <<>> /\ pc'[n] \in Inside /\ (pc'[n] = "end" => pc[n] = "bytes")
         /\ file'[Len(file')] = IF pc'[n] = "name_end" THEN Section({n})
                                ELSE IF pc'[n] = "end" THEN Point(at[n] * Step, current_total_bytes(n))
                                ELSE Other
<1>0. /\ pc[n] \in Writing /\ pc' = [pc EXCEPT ![n] = After(pc[n])] /\ pc \in [Net -> {"down", "up"} \cup Writing]
      /\ at' = at /\ grown' = grown
  BY DEF Write, FileInv
<1>1. pc'[n] = After(pc[n])
  BY <1>0
<1>2. pc'[n] \in Inside /\ (pc'[n] = "end" => pc[n] = "bytes")
  BY <1>0, <1>1 DEF After, Writing, Inside
<1>3. Clean(n)'
  BY CleanWrite
<1>4. current_total_bytes(n)' = current_total_bytes(n) /\ at'[n] = at[n]
  BY <1>0 DEF current_total_bytes
<1>5. PICK h \in 0..HeightMax, b \in 0..BytesMax : h = at[n] * Step /\ b = current_total_bytes(n)
  BY PointTypes
<1>6. /\ pc'[n] = "name" => open' = <<<<Key>>, <<>>>>
      /\ pc'[n] = "name_end" => open' = <<<<Key>>, <<Name(n)>>>>
      /\ pc'[n] = "space" => open' = <<<<Num(h)>>>>
      /\ pc'[n] = "bytes" => open' = <<<<Num(h)>>, <<>>>>
      /\ pc'[n] = "end" => open' = <<<<Num(h)>>, <<Num(b)>>>>
  BY <1>3, <1>4, <1>5 DEF Clean, Own
<1>7. open' # <<>>
  BY <1>2, <1>6 DEF Inside
<1>8. Line(open') = IF pc'[n] = "name_end" THEN Section({n}) ELSE IF pc'[n] = "end" THEN Point(h, b) ELSE Other
  BY <1>2, <1>6, OwnLines DEF Inside
<1>9. file'[Len(file')] = Line(open')
  BY <1>7 DEF FileInv
<1> QED BY <1>2, <1>5, <1>7, <1>8, <1>9

LEMMA SectionedWrite ==
  ASSUME FileInv, NEW n \in Net, Write(n), Clean(n), Sectioned(n)
  PROVE  Sectioned(n)'
<1>0. /\ pc[n] \in Writing /\ pc' = [pc EXCEPT ![n] = After(pc[n])] /\ pc \in [Net -> {"down", "up"} \cup Writing]
      /\ file \in Seq(Lines) /\ Grows
  BY GrowsWrite DEF Write, FileInv
<1>1. pc'[n] = After(pc[n])
  BY <1>0
<1>2. CASE pc[n] \in {"header", "key", "name"}
  <2>1. pc'[n] \in {"key", "name", "name_end"}
    BY <1>1, <1>2 DEF After
  <2> QED BY <2>1 DEF Sectioned
<1>3. CASE pc[n] = "name_end"
  <2>1. file' = file /\ file # <<>> /\ file[Len(file)] = Section({n})
    BY <1>3, OwnLine DEF Write, Inside
  <2>2. Len(file) \in DOMAIN file
    BY <1>0, <2>1
  <2>3. has_section(n)'
    BY <2>1, <2>2 DEF has_section
  <2> QED BY <2>3 DEF Sectioned
<1>4. CASE pc[n] \in {"height", "space", "bytes", "end"}
  <2>1. has_section(n)
    BY <1>4 DEF Sectioned
  <2>2. PICK i \in DOMAIN file : file[i] = Section({n})
    BY <2>1 DEF has_section
  <2>3. i # Len(file) \/ open = <<>>
    <3>1. CASE pc[n] = "height"
      BY <3>1 DEF Clean, Own
    <3>2. CASE pc[n] \in {"space", "bytes", "end"}
      <4>1. file[Len(file)] = Other \/ \E h, b : file[Len(file)] = Point(h, b)
        BY <3>2, OwnLine DEF Inside
      <4> QED BY <2>2, <4>1, NewLines
    <3> QED BY <1>4, <3>1, <3>2
  <2>4. i \in 1..Len(file) /\ i \in DOMAIN file'
    BY <1>0, <2>2 DEF Grows
  <2>5. file'[i] = Section({n})
    BY <1>0, <2>2, <2>3, <2>4 DEF Grows
  <2>6. has_section(n)'
    BY <2>4, <2>5 DEF has_section
  <2> QED BY <2>6 DEF Sectioned
<1> QED BY <1>0, <1>2, <1>3, <1>4 DEF Writing

\* Who is alone reads every point behind its section.
LEMMA AloneSection ==
  ASSUME FileInv, NEW n \in Net, users \subseteq {n}, SoleInv(n), has_section(n),
         file # <<>>, file[Len(file)].kind = "point"
  PROVE  Len(file) \in read_checkpoints(n)
<1>1. file \in Seq(Lines) /\ \A k \in DOMAIN file : file[k] \in Lines
  BY DEF FileInv
<1>2. PICK i : i = Len(file)
  OBVIOUS
<1>3. DOMAIN file = 1..i /\ i \in Nat /\ i \in DOMAIN file
  BY <1>1, <1>2
<1>4. PICK j \in DOMAIN file : file[j] = Section({n})
  BY DEF has_section
<1>5. Sections(i) \subseteq 0..i /\ j \in Sections(i)
  BY <1>3, <1>4, NewLines DEF Sections
<1>6. Max(Sections(i)) \in Sections(i)
  BY <1>3, <1>5, MaxFacts
<1>7. PICK k : k = Max(Sections(i))
  OBVIOUS
<1>8. k \in DOMAIN file /\ file[k].kind = "section"
  BY <1>3, <1>6, <1>7 DEF Sections
<1>9. k # i
  BY <1>2, <1>8
<1>10. file[k] # Section({})
  BY <1>2, <1>8, <1>9 DEF SoleInv
<1>11. PICK m \in Net : file[k] = Section({m}) /\ file[k].nets = {m}
  BY <1>1, <1>8, <1>10, LineFacts
<1>12. m = n
  BY <1>8, <1>11 DEF FileInv
<1>13. Under(i) = {n}
  BY <1>5, <1>7, <1>11, <1>12 DEF Under, Sections
<1> QED BY <1>2, <1>3, <1>13 DEF read_checkpoints

LEMMA AloneWrite ==
  ASSUME FileInv, NEW n \in Net, users \subseteq {n}, AloneInv(n), SoleInv(n), Write(n)
  PROVE  AloneInv(n)'
<1>0. /\ pc[n] \in Writing /\ pc' = [pc EXCEPT ![n] = After(pc[n])] /\ pc \in [Net -> {"down", "up"} \cup Writing]
      /\ file \in Seq(Lines) /\ Grows /\ tears' = tears /\ tears \in Nat
  BY GrowsWrite DEF Write, FileInv
<1>1. pc'[n] = After(pc[n])
  BY <1>0
<1>2. Clean(n) /\ Sectioned(n) => Clean(n)' /\ Sectioned(n)'
  BY CleanWrite, SectionedWrite
<1>3. pc'[n] \in Inside /\ pc[n] \notin Inside /\ open = <<>> => Len(file') = Len(file) + 1
  <2>1. SUFFICES ASSUME pc'[n] \in Inside, pc[n] \notin Inside, open = <<>> PROVE Len(file') = Len(file) + 1
    OBVIOUS
  <2>2. pc[n] \in {"key", "height"}
    BY <1>0, <1>1, <2>1 DEF Writing, Inside, After
  <2>3. Text(n) \in Texts /\ \A m \in Net : Text(n) = Name(m) => m \in users
    BY <2>2, TextFacts
  <2>4. Put(Text(n)) # <<>> /\ Put(Text(n)) \in Seq(Seq(Texts))
    BY <2>3, PutFacts
  <2>5. Gap(Put(Text(n))) # <<>>
    BY ONLY <2>4, GapShape
  <2>6. PICK words : words # <<>> /\ Rewrite(words)
    <3>1. Rewrite(Put(Text(n))) \/ Rewrite(Gap(Put(Text(n))))
      BY <2>2 DEF Write, Text
    <3> QED BY <2>4, <2>5, <3>1
  <2>7. file' = Append(file, Line(words))
    BY <2>1, <2>6 DEF Rewrite
  <2>8. Line(words) \in Lines
    BY LineType
  <2> QED BY <1>0, <2>7, <2>8
<1>4. CASE pc[n] # "end"
  <2>1. recorded' = recorded /\ pc'[n] \in Writing
    BY <1>0, <1>1, <1>4 DEF Write, After, Writing
  <2>2. CASE pc[n] \in Inside \/ open = <<>>
    <3>1. LostFirm(n)' \subseteq LostFirm(n)
      BY <1>0, <1>3, <2>1, <2>2, LostKeeps
    <3>2. Debt(n) = IF ~(Clean(n) /\ Sectioned(n)) THEN 1 ELSE 0
      BY <1>0, <2>2 DEF Debt
    <3>3. pc'[n] \in Inside \/ open' = <<>>
      BY <1>0, <1>1, <1>4 DEF Writing, Inside, After, Write
    <3>4. Debt(n)' = IF ~(Clean(n)' /\ Sectioned(n)') THEN 1 ELSE 0
      BY <2>1, <3>3 DEF Debt
    <3>5. Debt(n)' <= Debt(n)
      BY <1>2, <3>2, <3>4
    <3>6. Debt(n)' <= Debt(n) + 2 * (tears' - tears) /\ tears' \in Nat
      BY <1>0, <3>2, <3>5
    <3> QED BY <3>1, <3>6, AloneSame
  <2>3. CASE pc[n] \notin Inside /\ open # <<>>
    <3>1. PICK x : LostFirm(n)' \subseteq LostFirm(n) \cup {x}
      BY <1>0, <1>3, <2>1, LostKeeps
    <3>2. Debt(n) = 2
      BY <2>3 DEF Debt
    <3>3. pc'[n] \in Inside \/ open' = <<>>
      BY <1>0, <1>1, <1>4 DEF Writing, Inside, After, Write
    <3>4. Debt(n)' \in {0, 1}
      BY <2>1, <3>3 DEF Debt
    <3>5. Debt(n)' + 1 <= Debt(n) + 2 * (tears' - tears) /\ tears' \in Nat
      BY <1>0, <3>2, <3>4
    <3> QED BY <3>1, <3>5, AloneMore
  <2> QED BY <2>2, <2>3
<1>5. CASE pc[n] = "end"
  <2>1. /\ recorded' = [recorded EXCEPT ![n] = @ \cup {at[n]}] /\ file' = file /\ open' = <<>>
        /\ pc'[n] = "up" /\ pc[n] \in Inside /\ DOMAIN recorded = Net
    BY <1>1, <1>5 DEF Write, After, Inside, FileInv
  <2>2. recorded'[n] = recorded[n] \cup {at[n]}
    BY <2>1
  <2>3. read_checkpoints(n)' = read_checkpoints(n)
    BY <2>1 DEF read_checkpoints, Under
  <2>4. Firm(n) \subseteq read_checkpoints(n) /\ Firm(n)' = read_checkpoints(n)
    BY <2>1, <2>3 DEF Firm, Inside
  <2>5. Heights(Firm(n)) \subseteq Heights(Firm(n))'
    BY <2>1, <2>4 DEF Heights
  <2>6. LostFirm(n)' \subseteq LostFirm(n) \cup {at[n]}
    BY <2>2, <2>5 DEF LostFirm
  <2>7. Debt(n)' = 0
    BY <2>1 DEF Debt, Writing
  <2>8. CASE Clean(n) /\ Sectioned(n)
    <3>1. file # <<>> /\ file[Len(file)] = Point(at[n] * Step, current_total_bytes(n))
      BY <1>5, <2>1, <2>8, OwnLine
    <3>2. file[Len(file)].kind = "point" /\ file[Len(file)].height = at[n] * Step
      BY <3>1, NewLines
    <3>3. Len(file) \in read_checkpoints(n)
      BY <1>5, <2>8, <3>1, <3>2, AloneSection DEF Sectioned
    <3>4. at[n] * Step \in Heights(Firm(n))'
      BY <2>1, <2>4, <3>2, <3>3 DEF Heights
    <3>5. LostFirm(n)' \subseteq LostFirm(n)
      BY <2>6, <3>4 DEF LostFirm
    <3>6. Debt(n) \in 0..2
      BY DebtType
    <3>7. Debt(n)' <= Debt(n) + 2 * (tears' - tears) /\ tears' \in Nat
      BY <1>0, <2>7, <3>6
    <3> QED BY <3>5, <3>7, AloneSame
  <2>9. CASE ~(Clean(n) /\ Sectioned(n))
    <3>1. Debt(n) = 1
      BY <1>0, <2>1, <2>9 DEF Debt
    <3>2. Debt(n)' + 1 <= Debt(n) + 2 * (tears' - tears) /\ tears' \in Nat
      BY <1>0, <2>7, <3>1
    <3> QED BY <2>6, <3>2, AloneMore
  <2> QED BY <2>8, <2>9
<1> QED BY <1>4, <1>5

\* A write that is cut off pays for what it may cost later.
LEMMA AloneTear ==
  ASSUME FileInv, NEW n \in Net, AloneInv(n), Tear(n)
  PROVE  AloneInv(n)'
<1>1. /\ pc[n] \in Writing /\ tears' = tears + 1 /\ recorded' = recorded
      /\ pc'[n] \in {"up", "down"} /\ tears \in Nat /\ Grows
  BY GrowsTear DEF Tear, FileInv
<1>2. pc'[n] \notin Inside
  BY <1>1 DEF Inside
<1>3. Debt(n)' \in 0..2 /\ Debt(n) \in 0..2 /\ tears' \in Nat
  BY <1>1, DebtType DEF Debt
<1>4. CASE pc[n] \in Inside \/ open = <<>>
  <2>1. LostFirm(n)' \subseteq LostFirm(n)
    BY <1>1, <1>2, <1>4, LostKeeps
  <2>2. Debt(n)' <= Debt(n) + 2 * (tears' - tears)
    BY <1>1, <1>3
  <2> QED BY <1>3, <2>1, <2>2, AloneSame
<1>5. CASE pc[n] \notin Inside /\ open # <<>>
  <2>1. PICK x : LostFirm(n)' \subseteq LostFirm(n) \cup {x}
    BY <1>1, <1>2, LostKeeps
  <2>2. Debt(n) = 2
    BY <1>5 DEF Debt
  <2>3. Debt(n)' + 1 <= Debt(n) + 2 * (tears' - tears)
    BY <1>1, <1>3, <2>2
  <2> QED BY <1>3, <2>1, <2>3, AloneMore
<1> QED BY <1>4, <1>5

\* A start, a stop, or a block applied, by whichever network.
LEMMA AloneApplied ==
  ASSUME FileInv, NEW n \in Net, AloneInv(n), SoleInv(n), NEW m \in Net,
         Start(m) \/ Stop(m) \/ \E h \in 1..Tip[m] : Applied(m, h)
  PROVE  AloneInv(n)' /\ SoleInv(n)'
<1>1. file' = file /\ open' = open /\ tears' = tears /\ tears \in Nat
  BY DEF Start, Stop, Applied, FileInv
<1>2. /\ read_checkpoints(n)' = read_checkpoints(n) /\ has_section(n)' = has_section(n)
      /\ read_checkpoints(m)' = read_checkpoints(m)
  BY <1>1 DEF read_checkpoints, Under, has_section
<1>3. /\ \/ pc'[n] = pc[n] /\ (pc[n] \in Writing => at'[n] = at[n] /\ grown'[n] = grown[n])
         \/ pc[n] \in {"up", "down"} /\ pc'[n] \in {"up", "down"}
         \/ pc[n] = "up" /\ pc'[n] = FirstPiece(n)
  <2>1. CASE Start(m) \/ Stop(m)
    BY <2>1 DEF Start, Stop, FileInv
  <2>2. ASSUME NEW h \in 1..Tip[m], Applied(m, h)
        PROVE  \/ pc'[n] = pc[n] /\ (pc[n] \in Writing => at'[n] = at[n] /\ grown'[n] = grown[n])
               \/ pc[n] = "up" /\ pc'[n] = FirstPiece(n)
    <3>1. CASE m = n
      BY <2>2, <3>1 DEF Applied, FileInv, Writing
    <3>2. CASE m # n
      BY <2>2, <3>2 DEF Applied, FileInv
    <3> QED BY <3>1, <3>2
  <2> QED BY <2>1, <2>2
<1>4. FirstPiece(n) \in {"header", "key", "height"} /\ (FirstPiece(n) = "height" => has_section(n))
  BY DEF FirstPiece
<1>5. pc[n] \in Inside <=> pc'[n] \in Inside
  BY <1>3, <1>4 DEF Inside
<1>6. pc'[n] \in Inside => pc'[n] = pc[n]
  BY <1>3, <1>4 DEF Inside
<1>7. SoleInv(n)'
  <2>1. CASE pc'[n] \in Inside
    BY <1>1, <1>6, <2>1 DEF SoleInv, Shape
  <2>2. CASE pc'[n] \notin Inside
    BY <1>1, <2>2 DEF SoleInv, Shape, Inside
  <2> QED BY <2>1, <2>2
<1>8. Firm(n)' = Firm(n) /\ Heights(Firm(n))' = Heights(Firm(n))
  BY <1>1, <1>2, <1>5 DEF Firm, Heights
<1>9. LostFirm(n)' \subseteq LostFirm(n)
  <2>1. recorded'[n] = recorded[n]
        \/ \E h : h * Step \in Heights(read_checkpoints(n)) /\ recorded'[n] = recorded[n] \cup {h} /\ pc[n] = "up"
    <3>1. CASE Start(m) \/ Stop(m)
      BY <3>1 DEF Start, Stop
    <3>2. ASSUME NEW h \in 1..Tip[m], Applied(m, h)
          PROVE  recorded'[n] = recorded[n]
                 \/ (h * Step \in Heights(read_checkpoints(n)) /\ recorded'[n] = recorded[n] \cup {h} /\ pc[n] = "up")
      BY <3>2 DEF Applied, FileInv
    <3> QED BY <3>1, <3>2
  <2>2. pc[n] = "up" => Firm(n) = read_checkpoints(n)
    BY DEF Firm, Inside
  <2> QED BY <1>8, <2>1, <2>2 DEF LostFirm
<1>10. Debt(n)' <= Debt(n)
  <2>1. CASE pc[n] \notin Inside /\ open # <<>>
    BY <1>1, <1>5, <2>1 DEF Debt
  <2>2. CASE pc[n] \notin Inside /\ open = <<>>
    <3>1. Clean(n)' /\ Clean(n)
      BY <1>1, <1>5, <2>2 DEF Clean, Own, Inside
    <3>2. CASE pc'[n] = pc[n]
      BY <1>1, <1>2, <2>2, <3>1, <3>2 DEF Debt, Sectioned
    <3>3. CASE pc'[n] \in {"up", "down"}
      BY <1>1, <2>2, <3>3 DEF Debt, Writing
    <3>4. CASE pc'[n] = FirstPiece(n)
      <4>1. Sectioned(n)'
        BY <1>2, <1>4, <3>4 DEF Sectioned
      <4> QED BY <1>1, <2>2, <3>1, <4>1 DEF Debt
    <3> QED BY <1>3, <3>2, <3>3, <3>4
  <2>3. CASE pc[n] \in Inside
    <3>1. pc'[n] = pc[n] /\ at'[n] = at[n] /\ grown'[n] = grown[n]
      BY <1>3, <2>3 DEF Inside, Writing
    <3>2. Own(n)' = Own(n)
      BY <3>1 DEF Own, current_total_bytes
    <3> QED BY <1>1, <1>2, <3>1, <3>2 DEF Debt, Clean, Sectioned
  <2> QED BY <2>1, <2>2, <2>3
<1>11. Debt(n)' <= Debt(n) + 2 * (tears' - tears) /\ tears' \in Nat
  <2>1. Debt(n) \in 0..2 /\ Debt(n)' \in 0..2
    BY DebtType DEF Debt
  <2> QED BY <1>1, <1>10, <2>1
<1> QED BY <1>7, <1>9, <1>11, AloneSame

LEMMA LossInit == Init => LossInv
<1> SUFFICES ASSUME Init, NEW n \in Net PROVE AloneInv(n) /\ SoleInv(n)
  BY DEF LossInv
<1>1. recorded[n] = {} /\ open = <<>> /\ tears = 0 /\ pc[n] = "down" /\ DOMAIN file = {}
  BY DEF Init
<1>2. LostFirm(n) = {} /\ Debt(n) = 0
  BY <1>1 DEF LostFirm, Debt, Writing
<1>3. SoleInv(n)
  BY <1>1 DEF SoleInv, Shape, Inside
<1> QED BY <1>1, <1>2, <1>3, FS_EmptySet DEF AloneInv

LEMMA LossStep == FileInv /\ LossInv /\ [Next]_vars => LossInv'
<1> SUFFICES ASSUME FileInv, LossInv, [Next]_vars, NEW n \in Net, users' \subseteq {n}
             PROVE  AloneInv(n)' /\ SoleInv(n)'
  BY DEF LossInv
<1>1. users \subseteq users'
  BY DEF Next, Start, Stop, Applied, Write, Tear, vars, procVars
<1>2. AloneInv(n) /\ SoleInv(n) /\ users \subseteq {n}
  BY <1>1 DEF LossInv
<1>3. CASE UNCHANGED vars
  <2>1. AloneInv(n)'
    BY <1>2, <1>3 DEF vars, procVars, AloneInv, Debt, LostFirm, Firm, Heights, read_checkpoints, Under,
                      has_section, Clean, Own, Sectioned, current_total_bytes
  <2>2. SoleInv(n)'
    BY <1>2, <1>3 DEF vars, procVars, SoleInv, Shape
  <2> QED BY <2>1, <2>2
<1>4. ASSUME NEW m \in Net, Start(m) \/ Stop(m) \/ \E h \in 1..Tip[m] : Applied(m, h)
      PROVE  AloneInv(n)' /\ SoleInv(n)'
  BY <1>2, <1>4, AloneApplied
<1>5. ASSUME NEW m \in Net, Write(m) \/ Tear(m) PROVE AloneInv(n)' /\ SoleInv(n)'
  <2>1. pc[m] \in Writing
    BY <1>5 DEF Write, Tear
  <2>2. m = n
    BY <1>2, <2>1 DEF FileInv
  <2> QED BY <1>2, <1>5, <2>2, AloneWrite, AloneTear, SoleWrite, SoleTear
<1> QED BY <1>3, <1>4, <1>5 DEF Next

LEMMA LostOfFirm ==
  ASSUME FileInv, NEW n \in Net
  PROVE  Cardinality(Lost(n)) <= Cardinality(LostFirm(n)) /\ Cardinality(Lost(n)) \in Nat
<1>1. Heights(Firm(n)) \subseteq Heights(read_checkpoints(n))
  BY DEF Heights, Firm
<1>2. Lost(n) \subseteq LostFirm(n)
  BY <1>1 DEF Lost, LostFirm
<1>3. IsFiniteSet(LostFirm(n))
  BY LostFinite
<1>4. IsFiniteSet(Lost(n)) /\ Cardinality(Lost(n)) <= Cardinality(LostFirm(n))
  BY <1>2, <1>3, FS_Subset
<1> QED BY <1>4, FS_CardinalityType

\* A network that has the checkpoint file to itself loses at most two of the
\* checkpoints it recorded for each write that was cut off, before its first
\* byte or within, whatever restarts, reorganisations and parses it goes through.
THEOREM LossBoundedHolds == Spec => []LossBounded
<1>1. FileInv /\ LossInv => LossBounded
  <2> SUFFICES ASSUME FileInv, LossInv, NEW n \in Net, users \subseteq {n}
               PROVE  Cardinality(Lost(n)) <= 2 * tears
    BY DEF LossBounded
  <2>1. Cardinality(LostFirm(n)) + Debt(n) <= 2 * tears
    BY DEF LossInv, AloneInv
  <2>2. /\ Cardinality(LostFirm(n)) \in Nat /\ Debt(n) \in 0..2 /\ tears \in Nat
        /\ Cardinality(Lost(n)) \in Nat /\ Cardinality(Lost(n)) <= Cardinality(LostFirm(n))
    BY LostFinite, LostOfFirm, DebtType DEF FileInv
  <2> QED BY <2>1, <2>2
<1> QED BY <1>1, FileInit, FileStep, LossInit, LossStep, PTL DEF Spec

-----------------------------------------------------------------------------
(* Several networks, no write cut off and no line begun inside another.    *)

\* A recorded checkpoint stands under the section of some network.
Kept(h) == \E i \in DOMAIN file : /\ file[i].kind = "point" /\ file[i].height = h * Step
                                  /\ \E m \in Net : m \in Under(i)

Tidy ==
  /\ \A n \in Net : pc[n] \in Inside => Clean(n)
  /\ \A n \in Net, m \in Net : pc[n] \in Inside /\ pc[m] \in Inside => n = m
  /\ open # <<>> => \E n \in Net : pc[n] \in Inside
  /\ \A i \in DOMAIN file : file[i] # Section({})
  /\ \A n \in Net : pc[n] \in {"height", "space", "bytes", "end"} => has_section(n)
  /\ \A n \in Net : \A h \in recorded[n] : Kept(h)

TidyInv == tears = 0 /\ ~crossed => Tidy

\* Who begins a line finds none without end; nobody else is within a line.
LEMMA TidyAlone ==
  ASSUME FileInv, Tidy, NEW n \in Net, Write(n), ~crossed'
  PROVE  Clean(n) /\ \A m \in Net : m # n => pc[m] \notin Inside
<1>1. pc[n] \in Writing /\ (pc[n] \in LineStart => open = <<>>)
  BY DEF Write
<1>2. CASE pc[n] \in LineStart
  <2>1. Clean(n)
    BY <1>1, <1>2 DEF Clean, Own, LineStart
  <2>2. ASSUME NEW m \in Net, pc[m] \in Inside PROVE FALSE
    <3>1. Clean(m)
      BY <2>2 DEF Tidy
    <3> QED BY <1>1, <1>2, <2>2, <3>1, OwnLine
  <2> QED BY <2>1, <2>2
<1>3. CASE pc[n] \in Inside
  BY <1>3 DEF Tidy
<1> QED BY <1>1, <1>2, <1>3 DEF Writing, LineStart, Inside

\* No section and no point is ever changed.
LEMMA TidyLines ==
  ASSUME FileInv, FileInv', Tidy, NEW n \in Net, Write(n), ~crossed'
  PROVE  /\ Len(file) <= Len(file')
         /\ \A i \in DOMAIN file : i \in DOMAIN file' /\ (file[i].kind # "other" => file'[i] = file[i])
         /\ \A i \in DOMAIN file' : \/ i \in DOMAIN file /\ file'[i] = file[i]
                                    \/ file'[i] # Section({})
<1>1. Clean(n) /\ Grows /\ file \in Seq(Lines) /\ file' \in Seq(Lines) /\ pc[n] \in Writing
  BY TidyAlone, GrowsWrite DEF FileInv, Write
<1>2. Len(file) <= Len(file') /\ \A i \in DOMAIN file : i \in 1..Len(file) /\ i \in DOMAIN file'
  BY <1>1 DEF Grows
<1>3. CASE pc[n] \in {"name_end", "end"}
  <2>1. file' = file
    BY <1>3 DEF Write
  <2> QED BY <1>2, <2>1
<1>4. CASE pc[n] = "header"
  <2>1. file' = Append(file, Other)
    BY <1>1, <1>4 DEF Write, Clean, Own
  <2>2. \A i \in DOMAIN file' : (i \in DOMAIN file /\ file'[i] = file[i]) \/ file'[i] = Other
    BY <1>1, <2>1
  <2>3. \A i \in DOMAIN file : file'[i] = file[i]
    BY <1>1, <2>1
  <2> QED BY <1>2, <2>2, <2>3, NewLines
<1>5. CASE pc[n] \notin {"header", "name_end", "end"}
  <2>1. /\ open' # <<>>
        /\ file'[Len(file')] = Section({n}) \/ file'[Len(file')] = Other
           \/ \E h, b : file'[Len(file')] = Point(h, b)
    BY <1>1, <1>5, OwnNext
  <2>2. \A i \in DOMAIN file : i # Len(file) \/ open = <<>> => file'[i] = file[i]
    BY <1>1, <1>2 DEF Grows
  <2>3. open # <<>> => file[Len(file)] = Other
    <3>1. open # <<>> => pc[n] \in Inside
      BY <1>1 DEF Clean, Own, Inside, Writing
    <3> QED BY <1>1, <1>5, <3>1, OwnLine
  <2>4. \A i \in DOMAIN file : file[i].kind # "other" => file'[i] = file[i]
    BY <2>2, <2>3, NewLines
  <2>5. \A i \in DOMAIN file' : i # Len(file') => i \in DOMAIN file /\ (i # Len(file) \/ open = <<>>)
    BY <1>1 DEF Grows
  <2>6. file'[Len(file')] # Section({})
    <3>1. Section({n}) # Section({}) /\ Other # Section({}) /\ \A h, b : Point(h, b) # Section({})
      <4>1. {n} # {}
        OBVIOUS
      <4> QED BY <4>1, NewLines
    <3> QED BY <2>1, <3>1
  <2> QED BY <1>2, <2>2, <2>4, <2>5, <2>6
<1> QED BY <1>3, <1>4, <1>5

LEMMA TidyKept ==
  ASSUME FileInv, FileInv', Tidy, NEW n \in Net, Write(n), ~crossed', NEW h, Kept(h)
  PROVE  Kept(h)'
<1>1. PICK i \in DOMAIN file : file[i].kind = "point" /\ file[i].height = h * Step /\ \E m \in Net : m \in Under(i)
  BY DEF Kept
<1>2. /\ file \in Seq(Lines) /\ Grows
      /\ i \in DOMAIN file' /\ file'[i] = file[i]
  BY <1>1, TidyLines, GrowsWrite DEF FileInv
<1>3. i \in Nat /\ i \in 1..Len(file)
  BY <1>2
<1>4. \A j \in 1..i : file'[j] = file[j]
  BY <1>2, <1>3 DEF Grows
<1>5. Under(i)' = Under(i)
  BY <1>3, <1>4, UnderSame
<1> QED BY <1>1, <1>2, <1>5 DEF Kept

\* A point that is complete stands under some section.
LEMMA TidyEnd ==
  ASSUME FileInv, Tidy, NEW n \in Net, pc[n] = "end"
  PROVE  Kept(at[n])
<1>1. Clean(n) /\ has_section(n) /\ file \in Seq(Lines)
  BY DEF Tidy, Inside, FileInv
<1>2. file # <<>> /\ file[Len(file)] = Point(at[n] * Step, current_total_bytes(n))
  BY <1>1, OwnLine DEF Inside
<1>3. PICK i : i = Len(file)
  OBVIOUS
<1>4. /\ i \in DOMAIN file /\ i \in Nat /\ DOMAIN file = 1..i
      /\ file[i].kind = "point" /\ file[i].height = at[n] * Step
  BY <1>1, <1>2, <1>3, NewLines
<1>5. PICK j \in DOMAIN file : file[j] = Section({n})
  BY <1>1 DEF has_section
<1>6. Sections(i) \subseteq 0..i /\ j \in Sections(i)
  BY <1>4, <1>5, NewLines DEF Sections
<1>7. Max(Sections(i)) \in Sections(i)
  BY <1>4, <1>6, MaxFacts
<1>8. PICK k : k = Max(Sections(i))
  OBVIOUS
<1>9. k \in DOMAIN file /\ file[k].kind = "section" /\ file[k] # Section({}) /\ file[k] \in Lines
  BY <1>1, <1>4, <1>7, <1>8 DEF Sections, Tidy
<1>10. PICK m \in Net : file[k] = Section({m}) /\ file[k].nets = {m}
  BY <1>9, LineFacts
<1>11. Under(i) = {m}
  BY <1>6, <1>8, <1>10 DEF Under, Sections
<1> QED BY <1>4, <1>11 DEF Kept

LEMMA TidyWrite ==
  ASSUME FileInv, FileInv', Tidy, NEW n \in Net, Write(n), ~crossed'
  PROVE  Tidy'
<1>0. /\ pc[n] \in Writing /\ pc' = [pc EXCEPT ![n] = After(pc[n])] /\ pc \in [Net -> {"down", "up"} \cup Writing]
      /\ file \in Seq(Lines) /\ DOMAIN recorded = Net
  BY DEF Write, FileInv
<1>1. pc'[n] = After(pc[n]) /\ \A m \in Net : m # n => pc'[m] = pc[m]
  BY <1>0
<1>2. Clean(n) /\ \A m \in Net : m # n => pc[m] \notin Inside
  BY TidyAlone
<1>3. Clean(n)'
  BY <1>2, CleanWrite
<1>4. \A m \in Net : pc'[m] \in Inside => m = n
  BY <1>1, <1>2
<1>5. \A m \in Net : pc'[m] \in Inside => Clean(m)'
  BY <1>3, <1>4
<1>6. open' # <<>> => \E m \in Net : pc'[m] \in Inside
  <2>1. CASE pc[n] \in {"header", "name_end", "end"}
    BY <2>1 DEF Write
  <2>2. CASE pc[n] \notin {"header", "name_end", "end"}
    BY <1>2, <2>2, OwnNext
  <2> QED BY <2>1, <2>2
<1>7. \A i \in DOMAIN file' : file'[i] # Section({})
  BY TidyLines DEF Tidy
<1>8. \A m \in Net : has_section(m) => has_section(m)'
  BY TidyLines, NewLines DEF has_section
<1>9. ASSUME NEW m \in Net, pc'[m] \in {"height", "space", "bytes", "end"} PROVE has_section(m)'
  <2>1. CASE m # n
    BY <1>1, <1>8, <1>9, <2>1 DEF Tidy
  <2>2. CASE m = n /\ pc[n] \in {"height", "space", "bytes", "end"}
    BY <1>8, <2>2 DEF Tidy
  <2>3. CASE m = n /\ pc[n] \notin {"height", "space", "bytes", "end"}
    <3>1. pc[n] = "name_end"
      BY <1>0, <1>1, <1>9, <2>3 DEF After, Writing
    <3>2. file' = file /\ file # <<>> /\ file[Len(file)] = Section({n})
      BY <1>2, <3>1, OwnLine DEF Write, Inside
    <3>3. Len(file) \in DOMAIN file
      BY <1>0, <3>2
    <3> QED BY <2>3, <3>2, <3>3 DEF has_section
  <2> QED BY <2>1, <2>2, <2>3
<1>10. ASSUME NEW m \in Net, NEW h \in recorded'[m] PROVE Kept(h)'
  <2>1. h \in recorded[m] \/ (pc[n] = "end" /\ m = n /\ h = at[n])
    <3>1. recorded' = recorded \/ (pc[n] = "end" /\ recorded' = [recorded EXCEPT ![n] = @ \cup {at[n]}])
      BY DEF Write
    <3>2. recorded'[m] = recorded[m] \/ (pc[n] = "end" /\ m = n /\ recorded'[m] = recorded[m] \cup {at[n]})
      BY <1>0, <3>1
    <3> QED BY ONLY <1>10, <3>2
  <2>2. Kept(h)
    BY <2>1, TidyEnd DEF Tidy
  <2> QED BY <2>2, TidyKept
<1> QED BY <1>4, <1>5, <1>6, <1>7, <1>9, <1>10 DEF Tidy

\* Nothing is written.
LEMMA TidySame ==
  ASSUME FileInv, Tidy, file' = file, open' = open,
         \A n \in Net : \/ /\ pc'[n] = pc[n]
                           /\ pc[n] \in Inside => at'[n] = at[n] /\ grown'[n] = grown[n]
                        \/ pc[n] \notin Inside /\ pc'[n] \in {"up", "down", "header", "key"}
                        \/ pc[n] \notin Inside /\ pc'[n] = "height" /\ has_section(n),
         \A n \in Net : \A h \in recorded'[n] :
           h \in recorded[n] \/ \E m \in Net : h * Step \in Heights(read_checkpoints(m))
  PROVE  Tidy'
<1>1. \A n \in Net : pc'[n] \in Inside <=> pc[n] \in Inside
  BY DEF Inside
<1>2. ASSUME NEW n \in Net, pc'[n] \in Inside PROVE Clean(n)'
  <2>1. pc'[n] = pc[n] /\ at'[n] = at[n] /\ grown'[n] = grown[n] /\ Clean(n)
    BY <1>2 DEF Inside, Tidy
  <2>2. Own(n)' = Own(n)
    BY <2>1 DEF Own, current_total_bytes
  <2> QED BY <2>1, <2>2 DEF Clean
<1>3. \A n \in Net : has_section(n)' = has_section(n)
  BY DEF has_section
<1>4. \A n \in Net : pc'[n] \in {"height", "space", "bytes", "end"} => has_section(n)'
  BY <1>3 DEF Tidy
<1>5. \A h : Kept(h) => Kept(h)'
  BY DEF Kept, Under
<1>6. ASSUME NEW h, NEW m \in Net, h * Step \in Heights(read_checkpoints(m)) PROVE Kept(h)
  BY <1>6 DEF Kept, Heights, read_checkpoints
<1>7. \A n \in Net : \A h \in recorded'[n] : Kept(h)'
  BY <1>5, <1>6 DEF Tidy
<1> QED BY <1>1, <1>2, <1>4, <1>7 DEF Tidy

LEMMA TidyInit == Init => TidyInv
<1> SUFFICES ASSUME Init PROVE Tidy
  BY DEF TidyInv
<1>1. /\ open = <<>> /\ DOMAIN file = {}
      /\ \A n \in Net : pc[n] = "down" /\ recorded[n] = {}
  BY DEF Init
<1> QED BY <1>1 DEF Tidy, Inside

LEMMA TidyStep == FileInv /\ FileInv' /\ TidyInv /\ [Next]_vars => TidyInv'
<1> SUFFICES ASSUME FileInv, FileInv', TidyInv, [Next]_vars, tears' = 0, ~crossed'
             PROVE  Tidy'
  BY DEF TidyInv
<1>1. tears = 0 /\ ~crossed
  <2>1. tears \in Nat
    BY DEF FileInv
  <2>2. tears' = tears \/ tears' = tears + 1
    BY DEF Next, Start, Stop, Applied, Write, Tear, vars, procVars
  <2>3. crossed => crossed'
    BY DEF Next, Start, Stop, Applied, Write, Tear, vars, procVars
  <2> QED BY <2>1, <2>2, <2>3
<1>2. Tidy
  BY <1>1 DEF TidyInv
<1>3. CASE UNCHANGED vars
  <2>1. file' = file /\ open' = open /\ pc' = pc /\ at' = at /\ grown' = grown /\ recorded' = recorded
    BY <1>3 DEF vars, procVars
  <2> QED BY <1>2, <2>1, TidySame
<1>4. ASSUME NEW m \in Net, Start(m) \/ Stop(m) PROVE Tidy'
  <2>1. /\ file' = file /\ open' = open /\ at' = at /\ grown' = grown /\ recorded' = recorded
        /\ \A n \in Net : pc'[n] = pc[n] \/ (pc[n] \notin Inside /\ pc'[n] \in {"up", "down", "header", "key"})
    BY <1>4 DEF Start, Stop, FileInv, Inside
  <2> QED BY <1>2, <2>1, TidySame
<1>5. ASSUME NEW m \in Net, NEW h \in 1..Tip[m], Applied(m, h) PROVE Tidy'
  <2>1. file' = file /\ open' = open /\ pc[m] = "up"
    BY <1>5 DEF Applied
  <2>2. FirstPiece(m) \in {"header", "key"} \/ (FirstPiece(m) = "height" /\ has_section(m))
    BY DEF FirstPiece
  <2>3. ASSUME NEW n \in Net
        PROVE  \/ /\ pc'[n] = pc[n]
                  /\ pc[n] \in Inside => at'[n] = at[n] /\ grown'[n] = grown[n]
               \/ pc[n] \notin Inside /\ pc'[n] \in {"up", "down", "header", "key"}
               \/ pc[n] \notin Inside /\ pc'[n] = "height" /\ has_section(n)
    <3>1. CASE n # m
      BY <1>5, <3>1 DEF Applied, FileInv
    <3>2. CASE n = m
      <4>1. pc'[n] = pc[n] \/ pc'[n] = FirstPiece(n)
        BY <1>5, <3>2 DEF Applied, FileInv
      <4> QED BY <2>1, <2>2, <3>2, <4>1 DEF Inside
    <3> QED BY <3>1, <3>2
  <2>4. ASSUME NEW n \in Net, NEW x \in recorded'[n]
        PROVE  x \in recorded[n] \/ \E k \in Net : x * Step \in Heights(read_checkpoints(k))
    <3>1. \/ recorded' = recorded
          \/ /\ h * Step \in Heights(read_checkpoints(m)) /\ DOMAIN recorded = Net
             /\ recorded' = [recorded EXCEPT ![m] = @ \cup {h}]
      BY <1>5 DEF Applied, FileInv
    <3>2. recorded'[n] = recorded[n]
          \/ (recorded'[n] = recorded[n] \cup {h} /\ h * Step \in Heights(read_checkpoints(m)))
      BY <3>1
    <3> QED BY ONLY <2>4, <3>2, m \in Net
  <2> QED BY <1>2, <2>1, <2>3, <2>4, TidySame
<1>6. ASSUME NEW m \in Net, Write(m) \/ Tear(m) PROVE Tidy'
  <2>1. Tear(m) => tears' = 1
    BY <1>1 DEF Tear
  <2> QED BY <1>2, <1>6, <2>1, TidyWrite
<1> QED BY <1>3, <1>4, <1>5, <1>6 DEF Next

\* With no write cut off and no line begun inside another one, every checkpoint
\* recorded is read back by some network, however many append to the file.
THEOREM KeptBySomeoneHolds == Spec => []KeptBySomeone
<1>1. FileInv /\ TidyInv => KeptBySomeone
  <2> SUFFICES ASSUME FileInv, TidyInv, tears = 0, ~crossed, NEW n \in Net, NEW h \in recorded[n]
               PROVE  \E m \in Net : h * Step \in Heights(read_checkpoints(m))
    BY DEF KeptBySomeone
  <2>1. Kept(h)
    BY DEF TidyInv, Tidy
  <2> QED BY <2>1 DEF Kept, Heights, read_checkpoints
<1> QED BY <1>1, FileInit, FileStep, TidyInit, TidyStep, PTL DEF Spec
-----------------------------------------------------------------------------
(* Sums over finite sets, by induction on subsets.  The property is a set,  *)
(* as the provers cannot instantiate an operator.                          *)

\* Induction with the property as a set.
LEMMA NatSetInduction ==
  ASSUME NEW T, 0 \in T, \A n \in Nat : n \in T => n + 1 \in T
  PROVE  Nat \subseteq T
<1> SUFFICES ASSUME Nat \ T # {} PROVE FALSE
  OBVIOUS
<1>1. PICK u \in Nat \ T : \A y \in Nat \ T : ~(<<y, u>> \in OpToRel(<, Nat))
  BY WFMin, NatLessThanWellFounded
<1>2. u \in Nat /\ u \notin T /\ \A y \in Nat \ T : ~(y < u)
  BY <1>1 DEF OpToRel
<1>3. u # 0 /\ u - 1 \in Nat /\ u - 1 < u /\ u - 1 + 1 = u
  BY <1>2
<1>4. u - 1 \in T
  BY <1>2, <1>3
<1> QED BY <1>2, <1>3, <1>4

Pick(s) == CHOOSE x \in s : TRUE

\* The same for the subsets of a finite set, taken apart as folds do it.
LEMMA SubsetInduction ==
  ASSUME NEW S, IsFiniteSet(S), NEW T, {} \in T,
         \A s \in SUBSET S : s # {} /\ s \ {Pick(s)} \in T => s \in T
  PROVE  SUBSET S \subseteq T
<1> DEFINE N == {k \in Nat : \A s \in SUBSET S : Cardinality(s) = k => s \in T}
<1>1. \A s \in SUBSET S : IsFiniteSet(s) /\ Cardinality(s) \in Nat
  BY FS_Subset, FS_CardinalityType
<1>2. 0 \in N
  <2>1. \A s \in SUBSET S : Cardinality(s) = 0 => s = {}
    BY <1>1, FS_EmptySet
  <2> QED BY <2>1
<1>3. \A k \in Nat : k \in N => k + 1 \in N
  <2> SUFFICES ASSUME NEW k \in N, NEW s \in SUBSET S, Cardinality(s) = k + 1 PROVE s \in T
    OBVIOUS
  <2>1. s # {}
    BY FS_EmptySet
  <2>2. Pick(s) \in s
    BY <2>1 DEF Pick
  <2>3. Cardinality(s \ {Pick(s)}) = Cardinality(s) - 1
    BY <1>1, <2>2, FS_RemoveElement
  <2>6. Cardinality(s \ {Pick(s)}) = k
    BY <2>3
  <2>4. s \ {Pick(s)} \in T
    BY <2>6
  <2> QED BY <2>1, <2>4
<1>4. Nat \subseteq N
  BY ONLY <1>2, <1>3, NatSetInduction
<1> QED BY <1>1, <1>4

\* g is the sum of f over every subset of S.
IsSum(g, f, S) ==
  /\ g = [s \in SUBSET S |-> g[s]]
  /\ g[{}] = 0
  /\ \A s \in SUBSET S : s # {} => g[s] = f[Pick(s)] + g[s \ {Pick(s)}]

\* The recursion of a sum over a finite set has a solution ...
LEMMA SumExists ==
  ASSUME NEW S, IsFiniteSet(S), NEW f
  PROVE  \E g : IsSum(g, f, S)
<1> DEFINE R(g, s) == IF s = {} THEN 0 ELSE f[Pick(s)] + g[s \ {Pick(s)}]
<1> DEFINE N == {k \in Nat : \E g : \A s \in SUBSET S : Cardinality(s) <= k => g[s] = R(g, s)}
<1>1. \A s \in SUBSET S : IsFiniteSet(s) /\ Cardinality(s) \in Nat
  BY FS_Subset, FS_CardinalityType
<1>2. 0 \in N
  <2> DEFINE g0 == [s \in SUBSET S |-> 0]
  <2>1. \A s \in SUBSET S : Cardinality(s) <= 0 => s = {}
    BY <1>1, FS_EmptySet
  <2>2. \A s \in SUBSET S : Cardinality(s) <= 0 => g0[s] = R(g0, s)
    BY <2>1
  <2> QED BY <2>2
<1>r. \A s \in SUBSET S : s # {} => /\ s \ {Pick(s)} \in SUBSET S
                                    /\ Cardinality(s \ {Pick(s)}) = Cardinality(s) - 1
  <2> SUFFICES ASSUME NEW s \in SUBSET S, s # {}
               PROVE  /\ s \ {Pick(s)} \in SUBSET S
                      /\ Cardinality(s \ {Pick(s)}) = Cardinality(s) - 1
    OBVIOUS
  <2>1. Pick(s) \in s
    BY DEF Pick
  <2> QED BY <1>1, <2>1, FS_RemoveElement
<1>3. \A k \in Nat : k \in N => k + 1 \in N
  <2> SUFFICES ASSUME NEW k \in N PROVE k + 1 \in N
    OBVIOUS
  <2>1. PICK g : \A s \in SUBSET S : Cardinality(s) <= k => g[s] = R(g, s)
    OBVIOUS
  <2> DEFINE e == [s \in SUBSET S |-> IF Cardinality(s) <= k THEN g[s] ELSE R(g, s)]
  <2>2. ASSUME NEW s \in SUBSET S, Cardinality(s) <= k + 1 PROVE e[s] = R(e, s)
    <3>1. e[s] = R(g, s)
      BY <2>1
    <3>2. CASE s = {}
      BY <3>1, <3>2
    <3>3. CASE s # {}
      <4>1. Cardinality(s \ {Pick(s)}) <= k /\ s \ {Pick(s)} \in SUBSET S
        BY <1>1, <1>r, <2>2, <3>3
      <4>2. e[s \ {Pick(s)}] = g[s \ {Pick(s)}]
        BY <4>1
      <4> QED BY <3>1, <3>3, <4>2
    <3> QED BY <3>2, <3>3
  <2>3. k + 1 \in Nat
    OBVIOUS
  <2> HIDE DEF e
  <2> QED BY <2>2, <2>3
<1>4. Nat \subseteq N
  BY ONLY <1>2, <1>3, NatSetInduction
<1>5. Cardinality(S) \in N
  BY <1>1, <1>4
<1>6. PICK g : \A s \in SUBSET S : Cardinality(s) <= Cardinality(S) => g[s] = R(g, s)
  BY <1>5
<1>7. \A s \in SUBSET S : Cardinality(s) <= Cardinality(S)
  BY FS_Subset
<1> DEFINE h == [s \in SUBSET S |-> g[s]]
<1>8. \A s \in SUBSET S : R(h, s) = R(g, s)
  BY <1>r
<1>9. \A s \in SUBSET S : h[s] = R(h, s)
  BY <1>6, <1>7, <1>8
<1>10. h[{}] = 0 /\ \A s \in SUBSET S : s # {} => h[s] = f[Pick(s)] + h[s \ {Pick(s)}]
  BY <1>9
<1>11. h = [s \in SUBSET S |-> h[s]]
  OBVIOUS
<1> QED BY <1>10, <1>11 DEF IsSum

LEMMA SumType ==
  ASSUME NEW S, IsFiniteSet(S), NEW f, \A i \in S : f[i] \in Int, NEW g, IsSum(g, f, S)
  PROVE  \A s \in SUBSET S : g[s] \in Int
<1> DEFINE T == {s \in SUBSET S : g[s] \in Int}
<1>1. {} \in T
  BY DEF IsSum
<1>2. \A s \in SUBSET S : s # {} /\ s \ {Pick(s)} \in T => s \in T
  <2>1. \A s \in SUBSET S : s # {} => Pick(s) \in S
    BY DEF Pick
  <2>2. \A s \in SUBSET S : s # {} => g[s] = f[Pick(s)] + g[s \ {Pick(s)}]
    BY DEF IsSum
  <2> QED BY <2>1, <2>2
<1>3. SUBSET S \subseteq T
  <2> HIDE DEF T
  <2> QED BY <1>1, <1>2, SubsetInduction
<1> QED BY <1>3


LEMMA SumIsSum ==
  ASSUME NEW S, IsFiniteSet(S), NEW f, DOMAIN f = S
  PROVE  \E g : IsSum(g, f, S) /\ SumFunction(f) = g[S]
<1> DEFINE R(g) == [s \in SUBSET S |-> IF s = {} THEN 0 ELSE f[Pick(s)] + g[s \ {Pick(s)}]]
<1>1. PICK g : IsSum(g, f, S)
  BY SumExists
<1>2. g = R(g)
  <2>1. \A s \in SUBSET S : g[s] = IF s = {} THEN 0 ELSE f[Pick(s)] + g[s \ {Pick(s)}]
    BY <1>1 DEF IsSum
  <2>2. g = [s \in SUBSET S |-> g[s]]
    BY <1>1 DEF IsSum
  <2> QED BY <2>1, <2>2
<1> DEFINE it == CHOOSE h : h = R(h)
<1>3. it = R(it)
  BY <1>2
<1>4. SumFunction(f) = it[S]
  BY DEF SumFunction, SumFunctionOnSet, FoldFunctionOnSet, MapThenFoldSet, Pick
<1>5. IsSum(it, f, S)
  BY <1>3 DEF IsSum
<1> QED BY <1>4, <1>5

\* What is added by one more point.
LEMMA SquareMore ==
  ASSUME NEW a \in Int, NEW b \in Int, NEW k \in Int, NEW v \in Int, NEW h \in Int
  PROVE  /\ (v * v + a) - 2 * h * (v + b) + (k + 1) * (h * h)
               = (a - 2 * h * b + k * (h * h)) + (v - h) * (v - h)
         /\ (v - h) * (v - h) >= 0
         /\ v # h => (v - h) * (v - h) > 0
         /\ (k + 1) * (v * v + a) - (v + b) * (v + b) 
               = (k * a - b * b) + (a - 2 * v * b + k * (v * v))
  OBVIOUS

LEMMA SumSquares ==
  ASSUME NEW S, IsFiniteSet(S), NEW x \in [S -> Int], NEW gx, IsSum(gx, x, S),
         NEW gxx, IsSum(gxx, [i \in S |-> x[i] * x[i]], S), NEW h \in Int
  PROVE  \A s \in SUBSET S :
           LET q == gxx[s] - 2 * h * gx[s] + Cardinality(s) * (h * h)
           IN  q >= 0 /\ ((\E i \in s : x[i] # h) => q > 0)
<1> DEFINE Q(s) == gxx[s] - 2 * h * gx[s] + Cardinality(s) * (h * h)
           T == {s \in SUBSET S : Q(s) >= 0 /\ ((\E i \in s : x[i] # h) => Q(s) > 0)}
<1>1. {} \in T
  <2>1. gx[{}] = 0 /\ gxx[{}] = 0 /\ Cardinality({}) = 0
    BY FS_EmptySet DEF IsSum
  <2>2. Q({}) = 0
    BY <2>1
  <2> QED BY <2>2
<1>2. ASSUME NEW s \in SUBSET S, s # {}, s \ {Pick(s)} \in T PROVE s \in T
  <2>1. PICK v : v = x[Pick(s)]
    OBVIOUS
  <2>2. PICK r : r = s \ {Pick(s)}
    OBVIOUS
  <2>3. Pick(s) \in s /\ v \in Int /\ r \in SUBSET S
    BY <1>2, <2>1, <2>2 DEF Pick
  <2>4. gx[s] = v + gx[r] /\ gxx[s] = v * v + gxx[r]
    BY <1>2, <2>1, <2>2, <2>3 DEF IsSum
  <2>5. gx[r] \in Int /\ gxx[r] \in Int
    <3>1. \A i \in S : [j \in S |-> x[j] * x[j]][i] \in Int
      OBVIOUS
    <3> QED BY <2>3, <3>1, SumType
  <2>6. Cardinality(s) = Cardinality(r) + 1 /\ Cardinality(r) \in Nat
    BY <2>2, <2>3, FS_Subset, FS_RemoveElement, FS_CardinalityType
  <2>7. Q(s) = Q(r) + (v - h) * (v - h) /\ (v - h) * (v - h) >= 0 /\ (v # h => (v - h) * (v - h) > 0)
    <3>1. PICK a, b, k : a = gxx[r] /\ b = gx[r] /\ k = Cardinality(r)
      OBVIOUS
    <3>2. a \in Int /\ b \in Int /\ k \in Int
      BY <2>5, <2>6, <3>1
    <3>3. /\ (v * v + a) - 2 * h * (v + b) + (k + 1) * (h * h)
               = (a - 2 * h * b + k * (h * h)) + (v - h) * (v - h)
          /\ (v - h) * (v - h) >= 0
          /\ v # h => (v - h) * (v - h) > 0
      BY <2>3, <3>2, SquareMore
    <3>4. /\ Q(s) = (v * v + a) - 2 * h * (v + b) + (k + 1) * (h * h)
          /\ Q(r) = a - 2 * h * b + k * (h * h)
      BY <2>4, <2>6, <3>1
    <3> HIDE DEF Q
    <3> QED BY <3>3, <3>4
  <2>8. Q(r) \in Int /\ (v - h) * (v - h) \in Int
    BY <2>3, <2>5, <2>6
  <2>9. Q(r) >= 0 /\ ((\E i \in r : x[i] # h) => Q(r) > 0)
    BY <1>2, <2>2
  <2> HIDE DEF Q
  <2>10. Q(s) >= 0 /\ (Q(r) > 0 \/ v # h => Q(s) > 0)
    BY <2>7, <2>8, <2>9
  <2>11. (\E i \in s : x[i] # h) => v # h \/ \E i \in r : x[i] # h
    BY <2>1, <2>2
  <2> QED BY <1>2, <2>9, <2>10, <2>11
<1>3. SUBSET S \subseteq T
  <2> HIDE DEF T
  <2> QED BY <1>1, <1>2, SubsetInduction
<1> QED BY <1>3

\* One more point, by name.
LEMMA SumMore ==
  ASSUME NEW S, IsFiniteSet(S), NEW f, \A i \in S : f[i] \in Int, NEW g, IsSum(g, f, S),
         NEW s \in SUBSET S, s # {}
  PROVE  /\ Pick(s) \in S /\ s \ {Pick(s)} \in SUBSET S
         /\ f[Pick(s)] \in Int /\ g[s \ {Pick(s)}] \in Int
         /\ g[s] = f[Pick(s)] + g[s \ {Pick(s)}]
         /\ Cardinality(s) = Cardinality(s \ {Pick(s)}) + 1 /\ Cardinality(s \ {Pick(s)}) \in Nat
<1>1. Pick(s) \in s
  BY DEF Pick
<1>2. g[s \ {Pick(s)}] \in Int
  BY SumType
<1>3. g[s] = f[Pick(s)] + g[s \ {Pick(s)}]
  BY DEF IsSum
<1>4. Cardinality(s) = Cardinality(s \ {Pick(s)}) + 1 /\ Cardinality(s \ {Pick(s)}) \in Nat
  BY <1>1, FS_Subset, FS_RemoveElement, FS_CardinalityType
<1> QED BY <1>1, <1>2, <1>3, <1>4

\* The denominator of the slope is not negative, and positive as soon as two
\* heights differ.
LEMMA DenomPositive ==
  ASSUME NEW S, IsFiniteSet(S), NEW x \in [S -> Int], NEW gx, IsSum(gx, x, S),
         NEW gxx, IsSum(gxx, [i \in S |-> x[i] * x[i]], S)
  PROVE  \A s \in SUBSET S :
           LET d == Cardinality(s) * gxx[s] - gx[s] * gx[s]
           IN  d >= 0 /\ ((\E i, j \in s : x[i] # x[j]) => d > 0)
<1> DEFINE D(s) == Cardinality(s) * gxx[s] - gx[s] * gx[s]
           T == {s \in SUBSET S : D(s) >= 0 /\ ((\E i, j \in s : x[i] # x[j]) => D(s) > 0)}
<1>1. {} \in T
  <2>1. gx[{}] = 0 /\ gxx[{}] = 0 /\ Cardinality({}) = 0
    BY FS_EmptySet DEF IsSum
  <2>2. D({}) = 0
    BY <2>1
  <2> QED BY <2>2
<1>2. ASSUME NEW s \in SUBSET S, s # {}, s \ {Pick(s)} \in T PROVE s \in T
  <2>1. PICK v, r : v = x[Pick(s)] /\ r = s \ {Pick(s)}
    OBVIOUS
  <2>2. PICK a, b, k : a = gxx[r] /\ b = gx[r] /\ k = Cardinality(r)
    OBVIOUS
  <2>3. \A i \in S : [j \in S |-> x[j] * x[j]][i] \in Int
    OBVIOUS
  <2>4. /\ Pick(s) \in S /\ r \in SUBSET S /\ v \in Int /\ b \in Int /\ gx[s] = v + b
        /\ Cardinality(s) = k + 1 /\ k \in Nat
    BY <1>2, <2>1, <2>2, SumMore
  <2>5. a \in Int /\ gxx[s] = v * v + a
    BY <1>2, <2>1, <2>2, <2>3, <2>4, SumMore
  <2>6. PICK q : q = a - 2 * v * b + k * (v * v)
    OBVIOUS
  <2>7. D(s) = (k + 1) * (v * v + a) - (v + b) * (v + b) /\ D(r) = k * a - b * b
    BY <2>2, <2>4, <2>5
  <2>8. D(s) = D(r) + q /\ D(r) \in Int /\ q \in Int
    <3>1. (k + 1) * (v * v + a) - (v + b) * (v + b) = (k * a - b * b) + q
      BY <2>4, <2>5, <2>6, SquareMore
    <3> HIDE DEF D
    <3>2. D(r) \in Int
      BY <2>4, <2>5, <2>7
    <3>3. q \in Int
      BY <2>4, <2>5, <2>6
    <3> QED BY <2>7, <3>1, <3>2, <3>3
  <2>9. q >= 0 /\ ((\E i \in r : x[i] # v) => q > 0)
    <3>1. q = gxx[r] - 2 * v * gx[r] + Cardinality(r) * (v * v)
      BY <2>2, <2>6
    <3> QED BY <2>4, <3>1, SumSquares
  <2>10. D(r) >= 0 /\ ((\E i, j \in r : x[i] # x[j]) => D(r) > 0)
    BY <1>2, <2>1
  <2>11. (\E i, j \in s : x[i] # x[j]) => (\E i, j \in r : x[i] # x[j]) \/ \E i \in r : x[i] # v
    BY <2>1
  <2> HIDE DEF D
  <2>12. D(s) >= 0 /\ (D(r) > 0 \/ q > 0 => D(s) > 0)
    BY <2>8, <2>9, <2>10
  <2> QED BY <1>2, <2>9, <2>10, <2>11, <2>12
<1>3. SUBSET S \subseteq T
  <2> HIDE DEF T
  <2> QED BY <1>1, <1>2, SubsetInduction
<1> QED BY <1>3

LEMMA SumNat ==
  ASSUME NEW S, IsFiniteSet(S), NEW f, \A i \in S : f[i] \in Nat, NEW g, IsSum(g, f, S)
  PROVE  \A s \in SUBSET S : g[s] \in Nat
<1> DEFINE T == {s \in SUBSET S : g[s] \in Nat}
<1>1. {} \in T
  BY DEF IsSum
<1>2. ASSUME NEW s \in SUBSET S, s # {}, s \ {Pick(s)} \in T PROVE s \in T
  <2>1. \A i \in S : f[i] \in Int
    OBVIOUS
  <2>2. Pick(s) \in S /\ g[s] = f[Pick(s)] + g[s \ {Pick(s)}]
    BY <1>2, <2>1, SumMore
  <2> QED BY <1>2, <2>2
<1>3. SUBSET S \subseteq T
  <2> HIDE DEF T
  <2> QED BY <1>1, <1>2, SubsetInduction
<1> QED BY <1>3

LEMMA SumAtMost ==
  ASSUME NEW S, IsFiniteSet(S), NEW m \in Nat, NEW f, \A i \in S : f[i] \in 0..m,
         NEW g, IsSum(g, f, S)
  PROVE  \A s \in SUBSET S : g[s] <= Cardinality(s) * m
<1> DEFINE T == {s \in SUBSET S : g[s] <= Cardinality(s) * m}
<1>1. {} \in T
  <2>1. g[{}] = 0 /\ Cardinality({}) = 0
    BY FS_EmptySet DEF IsSum
  <2> QED BY <2>1
<1>2. ASSUME NEW s \in SUBSET S, s # {}, s \ {Pick(s)} \in T PROVE s \in T
  <2>1. PICK v, b, k : v = f[Pick(s)] /\ b = g[s \ {Pick(s)}] /\ k = Cardinality(s \ {Pick(s)})
    OBVIOUS
  <2>2. \A i \in S : f[i] \in Int
    OBVIOUS
  <2>3. Pick(s) \in S /\ b \in Int /\ g[s] = v + b /\ Cardinality(s) = k + 1 /\ k \in Nat
    BY <1>2, <2>1, <2>2, SumMore
  <2>4. v \in 0..m /\ b <= k * m
    BY <1>2, <2>1, <2>3
  <2>5. (k + 1) * m = k * m + m /\ k * m \in Int
    BY <2>3
  <2>6. v + b <= (k + 1) * m
    BY <2>3, <2>4, <2>5
  <2> QED BY <1>2, <2>3, <2>6
<1>3. SUBSET S \subseteq T
  <2> HIDE DEF T
  <2> QED BY <1>1, <1>2, SubsetInduction
<1> QED BY <1>3

LEMMA SumProportional ==
  ASSUME NEW S, IsFiniteSet(S), NEW a \in Int, NEW b \in Int,
         NEW f, \A i \in S : f[i] \in Int, NEW e, \A i \in S : e[i] \in Int,
         \A i \in S : a * f[i] = b * e[i],
         NEW g, IsSum(g, f, S), NEW h, IsSum(h, e, S)
  PROVE  \A s \in SUBSET S : a * g[s] = b * h[s]
<1> DEFINE T == {s \in SUBSET S : a * g[s] = b * h[s]}
<1>1. {} \in T
  <2>1. g[{}] = 0 /\ h[{}] = 0
    BY DEF IsSum
  <2> QED BY <2>1
<1>2. ASSUME NEW s \in SUBSET S, s # {}, s \ {Pick(s)} \in T PROVE s \in T
  <2>1. PICK v, w, p, q : /\ v = f[Pick(s)] /\ w = e[Pick(s)]
                          /\ p = g[s \ {Pick(s)}] /\ q = h[s \ {Pick(s)}]
    OBVIOUS
  <2>2. Pick(s) \in S /\ v \in Int /\ p \in Int /\ g[s] = v + p
    BY <1>2, <2>1, SumMore
  <2>3. w \in Int /\ q \in Int /\ h[s] = w + q
    <3>1. h[s] = e[Pick(s)] + h[s \ {Pick(s)}]
      BY <1>2 DEF IsSum
    <3>2. h[s \ {Pick(s)}] \in Int
      BY <1>2, SumType
    <3> QED BY <2>1, <2>2, <3>1, <3>2
  <2>4. a * v = b * w /\ a * p = b * q
    BY <1>2, <2>1, <2>2
  <2>5. a * (v + p) = a * v + a * p /\ b * (w + q) = b * w + b * q
    BY <2>2, <2>3
  <2> QED BY <1>2, <2>2, <2>3, <2>4, <2>5
<1>3. SUBSET S \subseteq T
  <2> HIDE DEF T
  <2> QED BY <1>1, <1>2, SubsetInduction
<1> QED BY <1>3

-----------------------------------------------------------------------------
(* The line through the checkpoints.                                       *)

LEMMA MaxPair ==
  ASSUME NEW a \in Int, NEW b \in Int
  PROVE  /\ Max({a, b}) = IF a >= b THEN a ELSE b
         /\ Max({a, b}) = IF b >= a THEN b ELSE a
  BY DEF Max

\* What a network reads are points.
LEMMA PointFacts ==
  ASSUME FileInv, NEW n \in Net
  PROVE  LET pts == read_checkpoints(n)
         IN  /\ IsFiniteSet(pts) /\ Cardinality(pts) \in Nat
             /\ pts # {} => Cardinality(pts) # 0
             /\ \A i \in pts : /\ file[i].kind = "point" /\ i \in DOMAIN file
                               /\ file[i].height \in Nat /\ file[i].bytes \in Nat
<1>1. file \in Seq(Lines) /\ Len(file) \in Nat
  BY DEF FileInv
<1>2. read_checkpoints(n) \subseteq 1..Len(file)
  BY <1>1, ReadPlaces
<1>3. IsFiniteSet(read_checkpoints(n))
  <2>1. IsFiniteSet(1..Len(file))
    BY <1>1, FS_Interval
  <2> QED BY <1>2, <2>1, FS_Subset
<1>4. ASSUME NEW i \in read_checkpoints(n)
      PROVE  /\ file[i].kind = "point" /\ i \in DOMAIN file
             /\ file[i].height \in Nat /\ file[i].bytes \in Nat
  <2>1. /\ i \in DOMAIN file /\ file[i].kind = "point"
        /\ file[i].height \in 0..HeightMax /\ file[i].bytes \in 0..BytesMax
    BY <1>1, ReadPlaces
  <2> QED BY <2>1, SizeAssumption
<1> QED BY <1>3, <1>4, FS_EmptySet, FS_CardinalityType

\* The sums of linreg over what a network reads.
LEMMA LinregSums ==
  ASSUME FileInv, NEW n \in Net
  PROVE  LET pts == read_checkpoints(n)
         IN  /\ sx(pts) \in Nat /\ sy(pts) \in Nat /\ sxy(pts) \in Nat /\ sxx(pts) \in Nat
             /\ \A t \in Nat : (\A i \in pts : file[i].height <= t) => sx(pts) <= Cardinality(pts) * t
             /\ Denom(pts) \in Nat
             /\ (\E i, j \in pts : file[i].height # file[j].height) => Denom(pts) > 0
             /\ \A c \in Nat : (\A i \in pts : Step * file[i].bytes = c * file[i].height)
                  => Step * sy(pts) = c * sx(pts) /\ Step * sxy(pts) = c * sxx(pts)
<1>1. PICK pts : pts = read_checkpoints(n)
  OBVIOUS
<1>2. /\ IsFiniteSet(pts) /\ Cardinality(pts) \in Nat
      /\ \A i \in pts : file[i].height \in Nat /\ file[i].bytes \in Nat
  BY <1>1, PointFacts
<1>3. PICK x, y, xy, xx : /\ x = [i \in pts |-> file[i].height] /\ y = [i \in pts |-> file[i].bytes]
                          /\ xy = [i \in pts |-> file[i].height * file[i].bytes]
                          /\ xx = [i \in pts |-> file[i].height * file[i].height]
  OBVIOUS
<1>5. /\ DOMAIN x = pts /\ DOMAIN y = pts /\ DOMAIN xy = pts /\ DOMAIN xx = pts
      /\ \A i \in pts : /\ x[i] \in Nat /\ y[i] \in Nat
                        /\ xy[i] = x[i] * y[i] /\ xx[i] = x[i] * x[i]
  BY <1>2, <1>3
<1>6. \A i \in pts : xy[i] \in Nat /\ xx[i] \in Nat
  BY <1>5
<1>7. PICK gx : IsSum(gx, x, pts) /\ sx(pts) = gx[pts]
  <2>1. sx(pts) = SumFunction(x)
    BY <1>3 DEF sx
  <2> QED BY <1>2, <1>5, <2>1, SumIsSum
<1>8. PICK gy : IsSum(gy, y, pts) /\ sy(pts) = gy[pts]
  <2>1. sy(pts) = SumFunction(y)
    BY <1>3 DEF sy
  <2> QED BY <1>2, <1>5, <2>1, SumIsSum
<1>9. PICK gxy : IsSum(gxy, xy, pts) /\ sxy(pts) = gxy[pts]
  <2>1. sxy(pts) = SumFunction(xy)
    BY <1>3 DEF sxy
  <2> QED BY <1>2, <1>5, <2>1, SumIsSum
<1>10. PICK gxx : IsSum(gxx, xx, pts) /\ sxx(pts) = gxx[pts]
  <2>1. sxx(pts) = SumFunction(xx)
    BY <1>3 DEF sxx
  <2> QED BY <1>2, <1>5, <2>1, SumIsSum
<1>11. pts \in SUBSET pts
  OBVIOUS
<1>12. sx(pts) \in Nat /\ sy(pts) \in Nat
  BY <1>2, <1>5, <1>7, <1>8, <1>11, SumNat
<1>13. sxy(pts) \in Nat /\ sxx(pts) \in Nat
  BY <1>2, <1>6, <1>9, <1>10, <1>11, SumNat
<1>14. ASSUME NEW t \in Nat, \A i \in pts : file[i].height <= t PROVE sx(pts) <= Cardinality(pts) * t
  <2>1. \A i \in pts : x[i] \in 0..t
    BY <1>3, <1>5, <1>14
  <2> QED BY <1>2, <1>7, <1>11, <2>1, SumAtMost
<1>15. /\ Denom(pts) >= 0
       /\ (\E i, j \in pts : file[i].height # file[j].height) => Denom(pts) > 0
  <2>1. xx = [i \in pts |-> x[i] * x[i]] /\ x \in [pts -> Int]
    BY <1>3, <1>5
  <2>2. LET d == Cardinality(pts) * gxx[pts] - gx[pts] * gx[pts]
        IN  d >= 0 /\ ((\E i, j \in pts : x[i] # x[j]) => d > 0)
    BY <1>2, <1>7, <1>10, <1>11, <2>1, DenomPositive
  <2>3. Denom(pts) = Cardinality(pts) * gxx[pts] - gx[pts] * gx[pts]
    BY <1>7, <1>10 DEF Denom
  <2>4. \A i \in pts : x[i] = file[i].height
    BY <1>3
  <2> QED BY <2>2, <2>3, <2>4
<1>16. Denom(pts) \in Int
  BY <1>2, <1>12, <1>13 DEF Denom
<1>17. ASSUME NEW c \in Nat, \A i \in pts : Step * file[i].bytes = c * file[i].height
       PROVE  Step * sy(pts) = c * sx(pts) /\ Step * sxy(pts) = c * sxx(pts)
  <2>1. Step \in Int /\ c \in Int
    BY SizeAssumption
  <2>2. \A i \in pts : Step * y[i] = c * x[i]
    BY <1>3, <1>17
  <2>3. Step * sy(pts) = c * sx(pts)
    <3>1. \A i \in pts : y[i] \in Int /\ x[i] \in Int
      BY <1>5
    <3>2. IsFiniteSet(pts) /\ IsSum(gy, y, pts) /\ IsSum(gx, x, pts)
      BY <1>2, <1>7, <1>8
    <3>3. \A s \in SUBSET pts : Step * gy[s] = c * gx[s]
      BY ONLY <2>1, <2>2, <3>1, <3>2, SumProportional
    <3> QED BY <1>7, <1>8, <3>3
  <2>4. \A i \in pts : Step * xy[i] = c * xx[i]
    <3> SUFFICES ASSUME NEW i \in pts PROVE Step * xy[i] = c * xx[i]
      OBVIOUS
    <3>1. PICK a, b : a = x[i] /\ b = y[i]
      OBVIOUS
    <3>2. a \in Int /\ b \in Int /\ Step * b = c * a /\ xy[i] = a * b /\ xx[i] = a * a
      BY <1>5, <2>2, <3>1
    <3>3. Step * (a * b) = a * (Step * b) /\ c * (a * a) = a * (c * a)
      BY <2>1, <3>2
    <3> QED BY <3>2, <3>3
  <2>5. Step * sxy(pts) = c * sxx(pts)
    <3>1. \A i \in pts : xy[i] \in Int /\ xx[i] \in Int
      BY <1>6
    <3>2. IsFiniteSet(pts) /\ IsSum(gxy, xy, pts) /\ IsSum(gxx, xx, pts)
      BY <1>2, <1>9, <1>10
    <3>3. \A s \in SUBSET pts : Step * gxy[s] = c * gxx[s]
      BY ONLY <2>1, <2>4, <3>1, <3>2, SumProportional
    <3> QED BY <1>9, <1>10, <3>3
  <2> QED BY <2>3, <2>5
<1> QED BY <1>1, <1>12, <1>13, <1>14, <1>15, <1>16, <1>17

\* Division rounds down.
LEMMA DivFacts ==
  ASSUME NEW a \in Int, NEW d \in Nat \ {0}
  PROVE  a \div d \in Int /\ d * (a \div d) <= a /\ a < d * (a \div d) + d
  OBVIOUS

LEMMA DivExact ==
  ASSUME NEW a \in Int, NEW d \in Nat \ {0}
  PROVE  (d * a) \div d = a /\ (a * d) \div d = a
<1>1. PICK q : q = (d * a) \div d
  OBVIOUS
<1>2. q \in Int /\ d * q <= d * a /\ d * a < d * q + d /\ d * a \in Int
  BY <1>1, DivFacts
<1>3. d * q + d = d * (q + 1)
  BY <1>2
<1>4. q <= a
  BY <1>2
<1>5. a < q + 1
  BY <1>2, <1>3
<1>6. q = a
  BY <1>2, <1>4, <1>5
<1>7. a * d = d * a
  OBVIOUS
<1> QED BY <1>1, <1>6, <1>7

\* n times the intercept, which is a whole number.
LEMMA InterceptFacts ==
  ASSUME NEW n \in Nat \ {0}, NEW A \in Int, NEW B \in Int, NEW C \in Int, NEW E \in Int,
         NEW D, D = n * A - B * B, NEW S, S = n * C - B * E
  PROVE  LET I == (E * D - S * B) \div n IN I \in Int /\ n * I = E * D - S * B
<1>1. E * D - S * B = n * (E * A - C * B)
  OBVIOUS
<1>2. E * A - C * B \in Int
  OBVIOUS
<1>3. (n * (E * A - C * B)) \div n = E * A - C * B
  BY <1>2, DivExact
<1> QED BY <1>1, <1>2, <1>3

\* The line at t is not below the mean, if no height is above t.
LEMMA LineAboveMean ==
  ASSUME NEW n \in Nat \ {0}, NEW D \in Nat \ {0}, NEW S \in Int, NEW B \in Nat, NEW E \in Nat,
         NEW I \in Int, n * I = E * D - S * B, NEW t \in Nat, B <= n * t,
         NEW b \in Int, b = IF S >= 0 THEN S ELSE 0
  PROVE  LET p == (I + b * t) \div D IN p \in Int /\ p * n + n > E
<1>1. PICK v, p : v = I + b * t /\ p = v \div D
  OBVIOUS
<1>2. b * t \in Int /\ v \in Int
  BY <1>1
<1>3. p \in Int /\ v < D * p + D
  BY <1>1, <1>2, DivFacts
<1>4. n * v >= E * D
  <2>1. n * v = n * I + n * (b * t)
    BY <1>1, <1>2
  <2>2. CASE S >= 0
    <3>1. n * (b * t) = S * (n * t)
      BY <2>2
    <3>2. S * (n * t) >= S * B
      <4>1. n * t \in Int /\ n * t - B >= 0
        OBVIOUS
      <4>2. S * (n * t - B) >= 0
        BY <2>2, <4>1
      <4>3. S * (n * t - B) = S * (n * t) - S * B /\ S * (n * t) \in Int /\ S * B \in Int
        BY <4>1
      <4> QED BY <4>2, <4>3
    <3>3. E * D \in Int /\ S * B \in Int /\ S * (n * t) \in Int /\ n * I \in Int
      OBVIOUS
    <3> QED BY <2>1, <3>1, <3>2, <3>3
  <2>3. CASE S < 0
    <3>1. b * t = 0
      BY <2>3
    <3>2. S * B <= 0 /\ S * B \in Int /\ E * D \in Int
      BY <2>3
    <3> QED BY <2>1, <3>1, <3>2
  <2> QED BY <2>2, <2>3
<1>5. n * v < n * (D * p + D)
  BY <1>2, <1>3
<1>6. n * (D * p + D) = D * (p * n + n)
  BY <1>3
<1>7. PICK w : w = p * n + n
  OBVIOUS
<1>8. w \in Int /\ E * D < D * w
  <2>1. w \in Int /\ D * w \in Int /\ n * v \in Int /\ E * D \in Int
    BY <1>2, <1>3, <1>7
  <2> QED BY <1>4, <1>5, <1>6, <1>7, <2>1
<1>9. w > E
  BY <1>8
<1> QED BY <1>1, <1>3, <1>7, <1>9

LEMMA FileAlways == Spec => []FileInv
  BY FileInit, FileStep, PTL DEF Spec

\* The projection that run_pre_flight compares with the free space is at least
\* the mean of the recorded sizes, rounded down, whatever was recorded in which
\* order, by whom, and however it was cut off or mixed, also when sizes have
\* shrunk, as long as no point read is above the tip of the network's own node.
THEOREM ProjectsAtLeastMeanHolds == Spec => []ProjectsAtLeastMean
<1>1. FileInv => ProjectsAtLeastMean
  <2> SUFFICES ASSUME FileInv, NEW n \in Net, read_checkpoints(n) # {},
                      \A h \in Heights(read_checkpoints(n)) : h <= Tip[n] * Step
               PROVE  LET pts == read_checkpoints(n)
                      IN  projected_total_bytes(pts, Tip[n] * Step) * Cardinality(pts)
                            + Cardinality(pts) > sy(pts)
    BY DEF ProjectsAtLeastMean
  <2>1. PICK pts : pts = read_checkpoints(n)
    OBVIOUS
  <2>2. PICK k, t, A, B, C, E, D : /\ k = Cardinality(pts) /\ t = Tip[n] * Step /\ A = sxx(pts)
                                   /\ B = sx(pts) /\ C = sxy(pts) /\ E = sy(pts) /\ D = Denom(pts)
    OBVIOUS
  <2>3. /\ k \in Nat \ {0} /\ t \in Nat \ {0} /\ A \in Nat /\ B \in Nat /\ C \in Nat /\ E \in Nat
        /\ D \in Nat /\ B <= k * t /\ D = k * A - B * B
    <3>1. k \in Nat \ {0}
      BY <2>1, <2>2, PointFacts
    <3>2. t \in Nat \ {0}
      BY <2>2, SizeAssumption
    <3>3. A \in Nat /\ B \in Nat /\ C \in Nat /\ E \in Nat /\ D \in Nat /\ B <= k * t
      <4>1. \A i \in pts : file[i].height <= t
        BY <2>1, <2>2 DEF Heights
      <4> QED BY <2>1, <2>2, <3>2, <4>1, LinregSums
    <3>4. D = k * A - B * B
      BY <2>2 DEF Denom
    <3> QED BY <3>1, <3>2, <3>3, <3>4
  <2>4. PICK p \in Int : p * k + k > E /\ projected_total_bytes(pts, t) = Max({0, p})
    <3>1. CASE D = 0
      <4>1. linreg(pts) = <<0, E, k>>
        BY <2>1, <2>2, <3>1 DEF linreg
      <4>2. projected_total_bytes(pts, t) = Max({0, (0 + E * t) \div k})
        BY <4>1 DEF projected_total_bytes
      <4>3. PICK p : p = (0 + E * t) \div k
        OBVIOUS
      <4>4. 0 + E * t \in Int /\ 0 + E * t >= E
        BY <2>3
      <4>5. p \in Int /\ 0 + E * t < k * p + k
        BY <2>3, <4>3, <4>4, DivFacts
      <4>6. p * k + k > E
        <5>1. k * p = p * k /\ k * p \in Int
          BY <2>3, <4>5
        <5> QED BY <2>3, <4>4, <4>5, <5>1
      <4> QED BY <4>2, <4>3, <4>5, <4>6
    <3>2. CASE D # 0
      <4>1. PICK S, I, b : S = Slope(pts) /\ I = Intercept(pts) /\ b = Max({S, 0})
        OBVIOUS
      <4>2. S = k * C - B * E /\ S \in Int
        BY <2>2, <2>3, <4>1 DEF Slope
      <4>3. I \in Int /\ k * I = E * D - S * B
        <5>1. I = (E * D - S * B) \div k
          BY <2>2, <4>1 DEF Intercept
        <5> QED BY <2>3, <4>2, <5>1, InterceptFacts
      <4>4. b = (IF S >= 0 THEN S ELSE 0) /\ b \in Int
        BY <4>1, <4>2, MaxPair
      <4>5. linreg(pts) = <<I, b, D>>
        BY <2>1, <2>2, <3>2, <4>1 DEF linreg
      <4>6. projected_total_bytes(pts, t) = Max({0, (I + b * t) \div D})
        BY <4>5 DEF projected_total_bytes
      <4>7. PICK p : p = (I + b * t) \div D
        OBVIOUS
      <4>8. p \in Int /\ p * k + k > E
        BY <2>3, <3>2, <4>2, <4>3, <4>4, <4>7, LineAboveMean
      <4> QED BY <4>6, <4>7, <4>8
    <3> QED BY <3>1, <3>2
  <2>5. PICK m : m = Max({0, p})
    OBVIOUS
  <2>6. m \in Int /\ m >= p
    BY <2>5, MaxPair
  <2>7. m * k >= p * k /\ m * k \in Int /\ p * k \in Int
    BY <2>3, <2>6
  <2>8. m * k + k > E
    BY <2>3, <2>4, <2>7
  <2> QED BY <2>1, <2>2, <2>4, <2>5, <2>8
<1> QED BY <1>1, FileAlways, PTL

-----------------------------------------------------------------------------
(* An index that grows steadily and has the file to itself, no write cut off. *)

\* The points read are those of the blocks up to the highest one, one for each at
\* most; that one is there, and is the last recorded, or is being written.
OwnInv(n) ==
  /\ \A i \in read_checkpoints(n) : \E k \in 0..grown[n] : file[i] = Point(k * Step, Size[n][k])
  /\ \A i, j \in read_checkpoints(n) : i # j => file[i].height # file[j].height
  /\ pc[n] \notin Writing => grown[n] * Step \in {0} \cup Heights(read_checkpoints(n))
  /\ pc[n] = "up" => last[n] = grown[n] * Step
  /\ pc[n] \in Writing =>
       /\ at[n] = grown[n]
       /\ \A i \in read_checkpoints(n) :
            file[i].height = grown[n] * Step => pc[n] = "end" /\ i = Len(file)

OwnPoints == tears = 0 => \A n \in Net : users \subseteq {n} => OwnInv(n)

LEMMA OwnInit == Init => OwnPoints
<1> SUFFICES ASSUME Init, NEW n \in Net PROVE OwnInv(n)
  BY DEF OwnPoints
<1>1. pc[n] = "down" /\ grown[n] = 0 /\ DOMAIN file = {}
  BY DEF Init
<1>2. read_checkpoints(n) = {}
  BY <1>1 DEF read_checkpoints
<1>3. 0 * Step = 0
  BY SizeAssumption
<1> QED BY <1>1, <1>2, <1>3 DEF OwnInv, Writing

LEMMA TimesStep ==
  \A a \in Nat, b \in Nat : /\ a * Step \in Nat /\ b * Step \in Nat
                            /\ a * Step = b * Step => a = b
                            /\ a <= b <=> a * Step <= b * Step
<1>1. Step \in Nat \ {0}
  BY SizeAssumption
<1>2. \A a \in Nat, b \in Nat, c \in Nat \ {0} :
         /\ a * c \in Nat /\ b * c \in Nat /\ (a * c = b * c => a = b)
         /\ (a <= b => a * c <= b * c) /\ (a * c <= b * c => a <= b)
  OBVIOUS
<1> QED BY <1>1, <1>2

\* Nothing is in the way of who is alone.
LEMMA OwnClean ==
  ASSUME FileInv, NEW n \in Net, AloneInv(n), tears = 0
  PROVE  /\ pc[n] \notin Inside => open = <<>>
         /\ pc[n] \in Writing => Clean(n) /\ Sectioned(n)
<1>1. Cardinality(LostFirm(n)) \in Nat /\ Debt(n) \in 0..2
  BY LostFinite, DebtType
<1>2. Cardinality(LostFirm(n)) + Debt(n) <= 0
  BY DEF AloneInv
<1>3. Debt(n) = 0
  BY <1>1, <1>2
<1> QED BY <1>3 DEF Debt

\* What is read after a write was read before, or is the point just written.
LEMMA OwnRead ==
  ASSUME FileInv, FileInv', NEW n \in Net, AloneInv(n), tears = 0, Write(n), NEW i \in read_checkpoints(n)'
  PROVE  \/ i \in read_checkpoints(n) /\ file'[i] = file[i]
         \/ /\ pc[n] = "bytes" /\ i = Len(file')
            /\ file'[i] = Point(at[n] * Step, current_total_bytes(n))
<1>0. /\ pc[n] \in Writing /\ pc' = [pc EXCEPT ![n] = After(pc[n])] /\ pc \in [Net -> {"down", "up"} \cup Writing]
      /\ file \in Seq(Lines) /\ file' \in Seq(Lines) /\ Grows /\ at' = at /\ grown' = grown
  BY GrowsWrite DEF Write, FileInv
<1>2. Clean(n)
  BY <1>0, OwnClean
<1>3. i \in DOMAIN file' /\ file'[i].kind = "point" /\ i \in 1..Len(file')
  BY <1>0 DEF read_checkpoints
<1>4. CASE pc[n] \in {"name_end", "end"}
  <2>1. file' = file
    BY <1>4 DEF Write
  <2> QED BY <2>1 DEF read_checkpoints, Under
<1>5. CASE i # Len(file')
  <2>1. i \in 1..Len(file) /\ (open = <<>> \/ i # Len(file))
    BY <1>0, <1>3, <1>5 DEF Grows
  <2> QED BY <1>0, <2>1, GrowsKeep
<1>6. CASE i = Len(file') /\ pc[n] = "header"
  <2>1. file' = IF open = <<>> THEN Append(file, Other) ELSE [file EXCEPT ![Len(file)] = Other]
    BY <1>6 DEF Write
  <2>2. Other \in Lines /\ \A m \in Net : Other = Section({m}) => m \in users
    BY NewLines
  <2>3. file'[Len(file')] = Other
    BY <2>1, <2>2, LastLine
  <2> QED BY <1>3, <1>6, <2>3, NewLines
<1>7. CASE i = Len(file') /\ pc[n] \notin {"header", "name_end", "end"}
  <2>1. /\ pc'[n] = "end" => pc[n] = "bytes"
        /\ file'[Len(file')] = IF pc'[n] = "name_end" THEN Section({n})
                               ELSE IF pc'[n] = "end" THEN Point(at[n] * Step, current_total_bytes(n))
                               ELSE Other
    BY <1>2, <1>7, OwnNext
  <2> QED BY <1>3, <1>7, <2>1, NewLines
<1> QED BY <1>4, <1>5, <1>6, <1>7

LEMMA OwnWrite ==
  ASSUME FileInv, FileInv', NEW n \in Net, users \subseteq {n}, AloneInv(n), SoleInv(n), OwnInv(n),
         tears = 0, Write(n)
  PROVE  OwnInv(n)'
<1>0. /\ pc[n] \in Writing /\ pc' = [pc EXCEPT ![n] = After(pc[n])] /\ pc \in [Net -> {"down", "up"} \cup Writing]
      /\ at' = at /\ grown' = grown /\ file \in Seq(Lines) /\ DOMAIN last = Net
  BY DEF Write, FileInv
<1>1. pc'[n] = After(pc[n])
  BY <1>0
<1>2. PICK g : g = grown[n]
  OBVIOUS
<1>3. at[n] = g /\ grown'[n] = g /\ g \in Nat /\ at'[n] = g
  <2>1. grown[n] \in 0..Tip[n] /\ Tip[n] \in Nat
    BY SizeAssumption DEF FileInv
  <2> QED BY <1>0, <1>2, <2>1 DEF OwnInv
<1>4. current_total_bytes(n) = Size[n][g]
  BY <1>2 DEF current_total_bytes
<1>5. \A i \in read_checkpoints(n) : file[i].height = g * Step => pc[n] = "end" /\ i = Len(file)
  BY <1>0, <1>2 DEF OwnInv
<1>6. /\ \A i \in read_checkpoints(n) : \E k \in 0..g : file[i] = Point(k * Step, Size[n][k])
      /\ \A i, j \in read_checkpoints(n) : i # j => file[i].height # file[j].height
  BY <1>2 DEF OwnInv
<1>7. CASE pc[n] # "end"
  <2>1. pc'[n] \in Writing /\ (pc'[n] = "end" <=> pc[n] = "bytes")
    BY <1>0, <1>1, <1>7 DEF After, Writing
  <2>2. \A i \in read_checkpoints(n)' :
           \/ i \in read_checkpoints(n) /\ file'[i] = file[i]
           \/ /\ pc[n] = "bytes" /\ i = Len(file') /\ file'[i] = Point(g * Step, Size[n][g])
    BY <1>3, <1>4, OwnRead
  <2>3. \A i \in read_checkpoints(n) : file[i].height # g * Step
    BY <1>5, <1>7
  <2>4. g \in 0..g
    BY <1>3
  <2>5. \A i \in read_checkpoints(n)' : \E k \in 0..g : file'[i] = Point(k * Step, Size[n][k])
    BY <1>6, <2>2, <2>4
  <2>6. \A i \in read_checkpoints(n)' :
           \/ i \in read_checkpoints(n) /\ file'[i] = file[i] /\ file'[i].height # g * Step
           \/ pc[n] = "bytes" /\ i = Len(file') /\ file'[i].height = g * Step
    BY <2>2, <2>3, NewLines
  <2>7. \A i, j \in read_checkpoints(n)' : i # j => file'[i].height # file'[j].height
    BY <1>6, <2>6
  <2>8. \A i \in read_checkpoints(n)' : file'[i].height = g * Step => pc'[n] = "end" /\ i = Len(file')
    BY <2>1, <2>6
  <2>9. pc'[n] # "up"
    BY <2>1 DEF Writing
  <2> QED BY <1>3, <2>1, <2>5, <2>7, <2>8, <2>9 DEF OwnInv
<1>8. CASE pc[n] = "end"
  <2>1. file' = file /\ last'[n] = g * Step /\ pc'[n] = "up"
    BY <1>0, <1>1, <1>3, <1>8 DEF Write, After
  <2>2. read_checkpoints(n)' = read_checkpoints(n) /\ Heights(read_checkpoints(n))' = Heights(read_checkpoints(n))
    BY <2>1 DEF read_checkpoints, Under, Heights
  <2>3. Clean(n) /\ Sectioned(n)
    BY <1>0, OwnClean
  <2>4. file # <<>> /\ file[Len(file)] = Point(at[n] * Step, current_total_bytes(n))
    BY <1>8, <2>3, OwnLine DEF Inside
  <2>5. file[Len(file)].kind = "point" /\ file[Len(file)].height = g * Step
    BY <1>3, <2>4, NewLines
  <2>6. Len(file) \in read_checkpoints(n)
    BY <1>8, <2>3, <2>4, <2>5, AloneSection DEF Sectioned
  <2>7. g * Step \in Heights(read_checkpoints(n))
    BY <2>5, <2>6 DEF Heights
  <2> QED BY <1>3, <1>6, <2>1, <2>2, <2>7 DEF OwnInv, Writing
<1> QED BY <1>7, <1>8

\* The highest point read is that of the highest block.
LEMMA OwnStart ==
  ASSUME FileInv, NEW n \in Net, OwnInv(n), pc[n] = "down"
  PROVE  Max({0} \cup Heights(read_checkpoints(n))) = grown[n] * Step
<1>1. PICK S, g : S = {0} \cup Heights(read_checkpoints(n)) /\ g = grown[n]
  OBVIOUS
<1>2. g \in Nat /\ HeightMax \in Nat /\ file \in Seq(Lines)
  BY <1>1, SizeAssumption DEF FileInv
<1>3. g * Step \in S
  BY <1>1 DEF OwnInv, Writing
<1>4. S \subseteq 0..HeightMax
  BY <1>1, <1>2, ReadPlaces DEF Heights
<1>5. \A x \in S : x <= g * Step
  <2>1. ASSUME NEW i \in read_checkpoints(n) PROVE file[i].height <= g * Step
    <3>1. PICK k \in 0..g : file[i] = Point(k * Step, Size[n][k])
      BY <1>1 DEF OwnInv
    <3>2. file[i].height = k * Step
      BY <3>1, NewLines
    <3> QED BY <1>2, <3>2, TimesStep
  <2>2. g * Step \in Nat
    BY <1>2, TimesStep
  <2> QED BY <1>1, <2>1, <2>2 DEF Heights
<1>6. Max(S) \in S /\ \A x \in S : x <= Max(S)
  BY ONLY <1>2, <1>3, <1>4, MaxFacts
<1>7. Max(S) <= g * Step /\ g * Step <= Max(S)
  BY <1>3, <1>5, <1>6
<1>8. Max(S) \in Int /\ g * Step \in Int
  <2>1. \A x \in S : x \in Int
    BY ONLY <1>2, <1>4
  <2> QED BY ONLY <1>3, <1>6, <2>1
<1> QED BY <1>1, <1>7, <1>8

\* A block that is recorded is the one after the highest.
LEMMA OwnApplied ==
  ASSUME FileInv, NEW n \in Net, OwnInv(n), NEW h \in 1..Tip[n], Applied(n, h)
  PROVE  OwnInv(n)'
<1>1. PICK g : g = grown[n]
  OBVIOUS
<1>2. /\ g \in Nat /\ h \in Nat /\ h <= g + 1 /\ last[n] = g * Step /\ pc[n] = "up"
      /\ DOMAIN pc = Net /\ DOMAIN at = Net /\ DOMAIN grown = Net
  BY <1>1, SizeAssumption DEF Applied, OwnInv, FileInv
<1>3. read_checkpoints(n)' = read_checkpoints(n) /\ Heights(read_checkpoints(n))' = Heights(read_checkpoints(n))
      /\ file' = file
  BY DEF Applied, read_checkpoints, Under, Heights
<1>4. grown'[n] = IF h > g THEN h ELSE g
  <2>1. grown'[n] = Max({g, h})
    BY <1>1, <1>2 DEF Applied
  <2> QED BY <1>2, <2>1, MaxPair
<1>5. Fresh(n, h) <=> h > g
  <2>1. h * Step \in Nat /\ g * Step \in Nat /\ (h <= g <=> h * Step <= g * Step)
    BY <1>2, TimesStep
  <2> QED BY <1>2, <2>1 DEF Fresh
<1>6. \A i \in read_checkpoints(n) : \E k \in 0..g : file[i] = Point(k * Step, Size[n][k])
  BY <1>1 DEF OwnInv
<1>7. CASE h <= g
  <2>1. grown'[n] = g /\ pc' = pc /\ last' = last
    BY <1>2, <1>4, <1>5, <1>7 DEF Applied
  <2> QED BY <1>1, <1>2, <1>3, <2>1 DEF OwnInv, Writing
<1>8. CASE h > g
  <2>1. \A i \in read_checkpoints(n) : file[i].height # h * Step
    <3> SUFFICES ASSUME NEW i \in read_checkpoints(n), file[i].height = h * Step PROVE FALSE
      OBVIOUS
    <3>1. PICK k \in 0..g : file[i] = Point(k * Step, Size[n][k])
      BY <1>6
    <3>2. k * Step = h * Step
      BY <3>1, NewLines
    <3> QED BY <1>2, <1>8, <3>2, TimesStep
  <2>2. /\ pc'[n] = FirstPiece(n) /\ at'[n] = h /\ grown'[n] = h
    BY <1>2, <1>4, <1>5, <1>8, <2>1 DEF Applied, Heights
  <2>3. pc'[n] \in Writing /\ pc'[n] # "up"
    BY <2>2 DEF FirstPiece, Writing
  <2>4. \A k \in 0..g : k \in 0..h
    BY <1>2, <1>8
  <2>5. \A i \in read_checkpoints(n) : \E k \in 0..h : file[i] = Point(k * Step, Size[n][k])
    BY <1>6, <2>4
  <2>6. \A i, j \in read_checkpoints(n) : i # j => file[i].height # file[j].height
    BY DEF OwnInv
  <2> QED BY <1>3, <2>1, <2>2, <2>3, <2>5, <2>6 DEF OwnInv
<1> QED BY <1>2, <1>7, <1>8

LEMMA OwnStep == FileInv /\ FileInv' /\ LossInv /\ OwnPoints /\ [Next]_vars => OwnPoints'
<1> SUFFICES ASSUME FileInv, FileInv', LossInv, OwnPoints, [Next]_vars, tears' = 0,
                    NEW n \in Net, users' \subseteq {n}
             PROVE  OwnInv(n)'
  BY DEF OwnPoints
<1>1. users \subseteq users' /\ tears = 0
  <2>1. tears \in Nat
    BY DEF FileInv
  <2>2. users \subseteq users' /\ (tears' = tears \/ tears' = tears + 1)
    BY DEF Next, Start, Stop, Applied, Write, Tear, vars, procVars
  <2> QED BY <2>1, <2>2
<1>2. OwnInv(n) /\ AloneInv(n) /\ SoleInv(n) /\ users \subseteq {n}
  BY <1>1 DEF OwnPoints, LossInv
<1>3. file' = file => /\ read_checkpoints(n)' = read_checkpoints(n)
                      /\ Heights(read_checkpoints(n))' = Heights(read_checkpoints(n))
  BY DEF Heights, read_checkpoints, Under
<1>4. UNCHANGED <<file, grown, at, last, pc>> => OwnInv(n)'
  BY <1>2, <1>3 DEF OwnInv
<1>5. file' = file /\ grown'[n] = grown[n] /\ at'[n] = at[n] /\ last'[n] = last[n] /\ pc'[n] = pc[n] => OwnInv(n)'
  BY <1>2, <1>3 DEF OwnInv
<1>6. ASSUME NEW m \in Net, m # n, Start(m) \/ Stop(m) \/ \E h \in 1..Tip[m] : Applied(m, h) PROVE OwnInv(n)'
  <2>1. file' = file /\ grown'[n] = grown[n] /\ at'[n] = at[n] /\ last'[n] = last[n] /\ pc'[n] = pc[n]
    <3>1. CASE Start(m)
      BY <1>6, <3>1 DEF Start
    <3>2. CASE Stop(m)
      BY <1>6, <3>2 DEF Stop
    <3>3. ASSUME NEW h \in 1..Tip[m], Applied(m, h)
          PROVE  /\ file' = file /\ grown'[n] = grown[n] /\ at'[n] = at[n] /\ last'[n] = last[n]
                 /\ pc'[n] = pc[n]
      BY <1>6, <3>3 DEF Applied, FileInv
    <3> QED BY <1>6, <3>1, <3>2, <3>3
  <2> QED BY <1>5, <2>1
<1>7. CASE Start(n)
  <2>1. /\ file' = file /\ grown' = grown /\ at' = at /\ pc[n] = "down" /\ pc'[n] = "up"
        /\ last'[n] = Max({0} \cup Heights(read_checkpoints(n)))
    BY <1>7 DEF Start, FileInv
  <2>2. last'[n] = grown[n] * Step
    BY <1>2, <2>1, OwnStart
  <2> QED BY <1>2, <1>3, <2>1, <2>2 DEF OwnInv, Writing
<1>8. CASE Stop(n)
  <2>1. file' = file /\ grown' = grown /\ pc[n] = "up" /\ pc'[n] = "down"
    BY <1>8 DEF Stop, FileInv
  <2> QED BY <1>2, <1>3, <2>1 DEF OwnInv, Writing
<1>9. ASSUME NEW m \in Net, Write(m) \/ Tear(m) PROVE OwnInv(n)'
  <2>1. pc[m] \in Writing /\ (Tear(m) => tears' = 1)
    BY <1>1, <1>9 DEF Write, Tear
  <2>2. m = n /\ Write(m)
    BY <1>2, <1>9, <2>1 DEF FileInv
  <2> QED BY <1>1, <1>2, <2>2, OwnWrite
<1>10. CASE UNCHANGED vars
  BY <1>4, <1>10 DEF vars, procVars
<1>11. ASSUME NEW m \in Net, Start(m) \/ Stop(m) \/ \E h \in 1..Tip[m] : Applied(m, h) PROVE OwnInv(n)'
  BY <1>2, <1>6, <1>7, <1>8, <1>11, OwnApplied
<1> QED BY <1>9, <1>10, <1>11 DEF Next

\* The sums of n points of a steady growth, c in each step of st blocks, and the
\* line through them: no intercept, and c per step.
SteadySums(n, A, B, C, E, st, c, D, S, tip) ==
  /\ n \in Nat \ {0} /\ A \in Nat /\ B \in Nat /\ C \in Nat /\ E \in Nat
  /\ st \in Nat \ {0} /\ c \in Nat /\ tip \in Nat
  /\ st * E = c * B /\ st * C = c * A
  /\ D \in Nat \ {0} /\ D = n * A - B * B /\ S = n * C - B * E

SteadyFit(n, B, E, st, c, D, S, tip) ==
  /\ S \in Nat /\ (E * D - S * B) \div n = 0
  /\ (0 + S * (tip * st)) \div D = c * tip

\* The least squares of linreg find the line the points lie on.
LEMMA SteadyLine ==
  ASSUME NEW n, NEW A, NEW B, NEW C, NEW E, NEW st, NEW c, NEW D, NEW S, NEW tip,
         SteadySums(n, A, B, C, E, st, c, D, S, tip)
  PROVE  SteadyFit(n, B, E, st, c, D, S, tip)
<1> USE DEF SteadySums
<1>1. S \in Int
  OBVIOUS
<1>2. st * S = c * D
  <2>1. st * S = n * (st * C) - B * (st * E)
    OBVIOUS
  <2>2. n * (c * A) - B * (c * B) = c * (n * A - B * B)
    OBVIOUS
  <2> QED BY <2>1, <2>2
<1>3. S >= 0
  <2>1. c * D >= 0
    OBVIOUS
  <2> QED BY <1>1, <1>2, <2>1
<1>4. E * D - S * B = 0
  <2>1. st * (E * D - S * B) = (st * E) * D - (st * S) * B
    BY <1>1
  <2>2. (c * B) * D - (c * D) * B = 0
    OBVIOUS
  <2>3. st * (E * D - S * B) = 0
    BY <1>2, <2>1, <2>2
  <2>4. E * D - S * B \in Int
    BY <1>1
  <2> QED BY <2>3, <2>4
<1>5. 0 + S * (tip * st) = D * (c * tip)
  <2>1. S * (tip * st) = (st * S) * tip
    BY <1>1
  <2>2. (c * D) * tip = D * (c * tip)
    OBVIOUS
  <2>3. D * (c * tip) \in Int
    OBVIOUS
  <2> QED BY <1>2, <2>1, <2>2, <2>3
<1>6. (D * (c * tip)) \div D = c * tip
  <2>1. c * tip \in Int
    OBVIOUS
  <2> QED BY <2>1, DivExact
<1>7. 0 \div n = 0
  OBVIOUS
<1> QED BY <1>1, <1>3, <1>4, <1>5, <1>6, <1>7 DEF SteadyFit

\* An index whose size grows by the same amount in each step, on a disk with
\* room for the whole chain and in a checkpoint file of its own, is not refused
\* its start unless there is one checkpoint only, through restarts and blocks
\* applied again.
THEOREM SteadyGrowthStartsFromTwoHolds == Spec => []SteadyGrowthStartsFromTwo
<1>1. FileInv /\ OwnPoints => SteadyGrowthStartsFromTwo
  <2> SUFFICES ASSUME FileInv, OwnPoints, NEW n \in Net, SteadyWithRoom(n),
                      Cardinality(read_checkpoints(n)) # 1, read_checkpoints(n) # {}
               PROVE  ~(SaturatingSub(free_space_bytes(n),
                          SaturatingSub(projected_total_bytes(read_checkpoints(n), Tip[n] * Step),
                                        current_total_bytes(n))) < MinFree)
    BY DEF SteadyGrowthStartsFromTwo, Refuses
  <2>1. PICK pts : pts = read_checkpoints(n)
    OBVIOUS
  <2>2. PICK k, A, B, C, E, D, S, c, tip :
          /\ k = Cardinality(pts) /\ A = sxx(pts) /\ B = sx(pts) /\ C = sxy(pts) /\ E = sy(pts)
          /\ D = Denom(pts) /\ S = Slope(pts) /\ c = Size[n][1] /\ tip = Tip[n]
    OBVIOUS
  <2>3. /\ Step \in Nat \ {0} /\ tip \in Nat \ {0} /\ c \in Nat /\ Disk \in Nat /\ MinFree \in Nat
        /\ grown[n] \in 0..tip
    <3>1. Step \in Nat \ {0} /\ tip \in Nat \ {0} /\ Disk \in Nat /\ MinFree \in Nat /\ BytesMax \in Nat
      BY <2>2, SizeAssumption
    <3>2. 1 \in 0..Tip[n]
      BY <2>2, <3>1
    <3>3. Size[n][1] \in 0..BytesMax
      BY <3>2, SizeAssumption
    <3>4. grown[n] \in 0..tip
      BY <2>2 DEF FileInv
    <3> QED BY <2>2, <3>1, <3>3, <3>4
  <2>4. /\ \A h \in 0..tip : Size[n][h] = h * c
        /\ Disk - tip * c >= MinFree /\ OwnInv(n)
    BY <2>2, <2>3 DEF SteadyWithRoom, OwnPoints
  <2>5. /\ k \in Nat \ {0} /\ IsFiniteSet(pts)
        /\ \A i \in pts : file[i].kind = "point" /\ i \in DOMAIN file
    BY <2>1, <2>2, PointFacts
  <2>6. A \in Nat /\ B \in Nat /\ C \in Nat /\ E \in Nat /\ D \in Nat
    BY <2>1, <2>2, LinregSums
  <2>7. D > 0
    <3>1. \E i, j \in pts : i # j
      <4> SUFFICES ASSUME \A i, j \in pts : i = j PROVE FALSE
        OBVIOUS
      <4>1. PICK i : pts = {i}
        BY <2>1
      <4>2. Cardinality(pts) = 1
        BY <4>1, FS_Singleton
      <4> QED BY <2>1, <4>2
    <3>2. \E i, j \in pts : file[i].height # file[j].height
      BY <2>1, <2>4, <3>1 DEF OwnInv
    <3> QED BY <2>1, <2>2, <3>2, LinregSums
  <2>8. Step * E = c * B /\ Step * C = c * A
    <3>1. ASSUME NEW i \in pts PROVE Step * file[i].bytes = c * file[i].height
      <4>1. PICK h \in 0..tip : file[i] = Point(h * Step, Size[n][h])
        <5>1. PICK h \in 0..grown[n] : file[i] = Point(h * Step, Size[n][h])
          BY <2>1, <2>4 DEF OwnInv
        <5>2. h \in 0..tip
          BY <2>3
        <5> QED BY <5>1, <5>2
      <4>2. file[i].height = h * Step /\ file[i].bytes = h * c
        BY <2>4, <4>1 DEF Point
      <4>3. Step * (h * c) = c * (h * Step)
        BY <2>3
      <4> QED BY <4>2, <4>3
    <3> QED BY <2>1, <2>2, <2>3, <3>1, LinregSums
  <2>9. D = k * A - B * B /\ S = k * C - B * E
    BY <2>2 DEF Denom, Slope
  <2>10. D \in Nat \ {0}
    BY <2>6, <2>7
  <2>11. /\ S \in Nat /\ (E * D - S * B) \div k = 0
         /\ (0 + S * (tip * Step)) \div D = c * tip
    <3>1. tip \in Nat /\ Step \in Nat \ {0} /\ c \in Nat
      BY <2>3
    <3>2. k \in Nat \ {0}
      BY <2>5
    <3>3. SteadySums(k, A, B, C, E, Step, c, D, S, tip)
      BY ONLY <2>6, <2>8, <2>9, <2>10, <3>1, <3>2 DEF SteadySums
    <3>4. SteadyFit(k, B, E, Step, c, D, S, tip)
      BY ONLY <3>3, SteadyLine
    <3> QED BY ONLY <3>4 DEF SteadyFit
  <2>12. linreg(pts) = <<0, S, D>>
    <3>1. Intercept(pts) = 0
      BY <2>2, <2>11 DEF Intercept
    <3>2. Max({Slope(pts), 0}) = S
      BY <2>2, <2>11, MaxPair
    <3> QED BY <2>1, <2>2, <2>7, <3>1, <3>2 DEF linreg
  <2>13. projected_total_bytes(pts, tip * Step) = c * tip
    <3>1. projected_total_bytes(pts, tip * Step) = Max({0, (0 + S * (tip * Step)) \div D})
      BY <2>12 DEF projected_total_bytes
    <3>2. c * tip \in Nat
      BY <2>3
    <3> QED BY <2>11, <3>1, <3>2, MaxPair
  <2>14. PICK cur, all : cur = current_total_bytes(n) /\ all = c * tip
    OBVIOUS
  <2>15. cur \in Nat /\ all \in Nat /\ cur <= all /\ Disk - all >= MinFree
    <3>1. cur = grown[n] * c
      BY <2>3, <2>4, <2>14 DEF current_total_bytes
    <3>2. \A a \in Nat, b \in Nat, d \in Nat : a <= b => a * d <= d * b /\ a * d \in Nat /\ d * b \in Nat
      OBVIOUS
    <3>3. tip * c = c * tip
      BY <2>3
    <3> QED BY <2>3, <2>4, <2>14, <3>1, <3>2, <3>3
  <2>16. SaturatingSub(all, cur) = all - cur /\ free_space_bytes(n) = Disk - cur
    <3>1. all - cur >= 0 /\ Disk - cur >= 0 /\ all - cur \in Int /\ Disk - cur \in Int
      BY <2>3, <2>15
    <3> QED BY <2>14, <3>1, MaxPair DEF SaturatingSub, free_space_bytes
  <2>17. SaturatingSub(Disk - cur, all - cur) = Disk - all
    <3>1. (Disk - cur) - (all - cur) = Disk - all /\ Disk - all \in Int /\ Disk - all >= 0
      BY <2>3, <2>15
    <3> QED BY <3>1, MaxPair DEF SaturatingSub
  <2>18. ~(Disk - all < MinFree)
    BY <2>3, <2>15
  <2> QED BY <2>1, <2>2, <2>13, <2>14, <2>16, <2>17, <2>18
<1> QED BY <1>1, FileInit, FileStep, LossInit, LossStep, OwnInit, OwnStep, PTL DEF Spec
=============================================================================
