----------------------------- MODULE DiskGuard ------------------------------
(***************************************************************************)
(* The checkpoint file (crates/bidx-core/src/disk.rs) and its two users in *)
(* crates/bidx-cli/src/diskguard.rs: DiskRecorder, which appends the size  *)
(* of the index at every CHECKPOINT_HEIGHT_STEP-th block, and the check    *)
(* before start that projects the size at the node's tip from them.        *)
(*                                                                         *)
(* By default the file lies beside the UTXO directories, so that several   *)
(* indexes, one for each network, share it, in processes of their own.     *)
(* `at' counts steps: heights between two of them are not recorded.        *)
(*                                                                         *)
(* The file is not buffered: writeln! writes each number, each piece of    *)
(* text between two of them and the end of the line by a call of its own.  *)
(* `pc' names the piece a process writes next; other processes may write   *)
(* between two pieces, and the last piece written may be cut off.  What    *)
(* stands between two ends of lines is one line for the reader: words      *)
(* without a space between them are one word.                              *)
(***************************************************************************)
EXTENDS Integers, Sequences, FiniteSets, FiniteSetsExt, Functions

CONSTANTS Net,       \* the networks, one index each
          Step,      \* CHECKPOINT_HEIGHT_STEP
          Tip,       \* network -> the tip of its node, in steps
          Size,      \* network -> step -> bytes of its index when it has got there
          HeightMax, \* u32::MAX
          BytesMax,  \* u64::MAX
          Disk,      \* bytes the filesystem has for each index
          MinFree,   \* MIN_FREE_BYTES
          MaxTears,  \* bound: writes cut off
          MaxStarts  \* bound: starts of processes

ASSUME SizeAssumption == /\ Step \in Nat \ {0} /\ Tip \in [Net -> Nat \ {0}]
                         /\ HeightMax \in Nat /\ BytesMax \in Nat
                         /\ \A n \in Net : Tip[n] * Step <= HeightMax
                         /\ \A n \in Net : Size[n] \in [0..Tip[n] -> 0..BytesMax]
                         /\ Disk \in Nat /\ MinFree \in Nat
                         /\ MaxTears \in Nat /\ MaxStarts \in Nat

VARIABLES file,      \* the lines of the checkpoint file, the last perhaps without end
          open,      \* the words of the line without end, << >> if there is none
          exists,    \* the file has been created
          pc,        \* network -> "down", "up", or the piece to write next
          at,        \* network -> the block whose checkpoint is being appended
          grown,     \* network -> the highest block the index has held
          last,      \* network -> the height in DiskRecorder.state, 0 for None
          recorded,  \* network -> steps on_block_applied returned true for
          users,     \* networks that have written to the file
          crossed,   \* a line was begun before another one had its end
          tears, starts

procVars == <<pc, at, grown, last>>
vars == <<file, open, exists, procVars, recorded, users, crossed, tears, starts>>

\* What the reader makes of a line.  The section of a name glued to something
\* else is that of no network.
Section(ns) == [kind |-> "section", nets |-> ns]
Point(h, b) == [kind |-> "point", height |-> h, bytes |-> b]
Other == [kind |-> "other"]  \* a comment, or a line nobody can read

Init ==
  /\ file = <<>> /\ open = <<>> /\ exists = FALSE
  /\ pc = [n \in Net |-> "down"]
  /\ at = [n \in Net |-> 0] /\ grown = [n \in Net |-> 0] /\ last = [n \in Net |-> 0]
  /\ recorded = [n \in Net |-> {}] /\ users = {} /\ crossed = FALSE
  /\ tears = 0 /\ starts = 0

-----------------------------------------------------------------------------
(* disk.rs: reading.                                                       *)

\* cur_net at a line: the network of the nearest section above it.
Under(i) ==
  LET above == {j \in 1..i : file[j].kind = "section"}
  IN  IF above = {} THEN {} ELSE file[Max(above)].nets

\* read_checkpoints, as the places of the lines it returns.
read_checkpoints(n) == {i \in DOMAIN file : file[i].kind = "point" /\ n \in Under(i)}

Heights(pts) == {file[i].height : i \in pts}

\* Mutant: a section is written together with the header, and never later.
has_file(n) == exists

has_section(n) == \E i \in DOMAIN file : file[i] = Section({n})

\* The sums of linreg.
sx(pts)  == SumFunction([i \in pts |-> file[i].height])
sy(pts)  == SumFunction([i \in pts |-> file[i].bytes])
sxy(pts) == SumFunction([i \in pts |-> file[i].height * file[i].bytes])
sxx(pts) == SumFunction([i \in pts |-> file[i].height * file[i].height])

Denom(pts) == Cardinality(pts) * sxx(pts) - sx(pts) * sx(pts)

\* Slope and intercept, both times Denom.
Slope(pts) == Cardinality(pts) * sxy(pts) - sx(pts) * sy(pts)

\* Mutant: the mean for the intercept.
InterceptMean(pts) == (sy(pts) * Denom(pts)) \div Cardinality(pts)

Intercept(pts) == (sy(pts) * Denom(pts) - Slope(pts) * sx(pts)) \div Cardinality(pts)

\* Mutant: sizes that fall are taken to go on falling.
linreg_falls(pts) ==
  IF pts = {} THEN <<0, 0, 1>>
  ELSE IF Denom(pts) = 0 THEN <<0, sy(pts), Cardinality(pts)>>
  ELSE <<Intercept(pts), Slope(pts), Denom(pts)>>

\* <<a, b, d>> for the line a/d + (b/d) * height.  The intercept is that of the
\* slope before it is cut to 0; with one height only, the size is the slope.
linreg(pts) ==
  IF pts = {} THEN <<0, 0, 1>>
  ELSE IF Denom(pts) = 0 THEN <<0, sy(pts), Cardinality(pts)>>
  ELSE <<Intercept(pts), Max({Slope(pts), 0}), Denom(pts)>>

projected_total_bytes(pts, t) ==
  LET l == linreg(pts) IN Max({0, (l[1] + l[2] * t) \div l[3]})

-----------------------------------------------------------------------------
(* disk.rs: writing.                                                       *)

Key == [text |-> "network"]
Name(n) == [text |-> "name", net |-> n]
Comment == [text |-> "#"]
Num(v) == [text |-> "number", val |-> v]

\* A number written right behind another one makes one number of both.
Digits(v) == CHOOSE d \in 1..20 : v < 10^d /\ (d > 1 => v >= 10^(d - 1))
Joined(a, b) == IF a > BytesMax THEN a ELSE a * 10^Digits(b) + b

IsNumber(w) == \A i \in DOMAIN w : w[i].text = "number"

Value(w) ==
  LET upto[i \in 1..Len(w)] == IF i = 1 THEN w[1].val ELSE Joined(upto[i - 1], w[i].val)
  IN  IF Len(w) = 1 THEN w[1].val ELSE upto[Len(w)]

\* A line of read_checkpoints, from its words; the last of them is empty after a
\* space.
Line(words) ==
  LET n == IF words[Len(words)] = <<>> THEN Len(words) - 1 ELSE Len(words)
  IN  IF n # 2 THEN Other
      ELSE IF words[1] = <<Key>> THEN Section({m \in Net : words[2] = <<Name(m)>>})
      ELSE IF /\ IsNumber(words[1]) /\ Value(words[1]) \in 0..HeightMax
              /\ IsNumber(words[2]) /\ Value(words[2]) \in 0..BytesMax
        THEN Point(Value(words[1]), Value(words[2]))
        ELSE Other

\* The words of the line without end once a text is appended, or a space.
Put(text) == IF open = <<>> THEN <<<<text>>>>
             ELSE [open EXCEPT ![Len(open)] = Append(@, text)]
Gap(words) == IF words = <<>> \/ words[Len(words)] = <<>> THEN words ELSE Append(words, <<>>)

\* The line without end now has these words.
Rewrite(words) ==
  /\ open' = words
  /\ file' = IF words = <<>> THEN file
             ELSE IF open = <<>> THEN Append(file, Line(words))
             ELSE [file EXCEPT ![Len(file)] = Line(words)]

-----------------------------------------------------------------------------
(* diskguard.rs.                                                           *)

SaturatingSub(a, b) == Max({0, a - b})

\* The size of the tracked directories, which applying a block again does not
\* shrink, and what they leave free.
current_total_bytes(n) == Size[n][grown[n]]
free_space_bytes(n) == SaturatingSub(Disk, current_total_bytes(n))

\* run_pre_flight returns an error.
Refuses(n) ==
  LET pts == read_checkpoints(n)
      needed == SaturatingSub(projected_total_bytes(pts, Tip[n] * Step), current_total_bytes(n))
  IN  pts # {} /\ SaturatingSub(free_space_bytes(n), needed) < MinFree

\* A start with the check passed, or skipped: --skip-disk-check, or parse without
\* --rpc-url.  DiskRecorder::new takes the last height from the file.
Start(n) ==
  /\ pc[n] = "down" /\ starts < MaxStarts
  /\ \E checked \in BOOLEAN : checked => ~Refuses(n)
  /\ pc' = [pc EXCEPT ![n] = "up"]
  /\ last' = [last EXCEPT ![n] = Max({0} \cup Heights(read_checkpoints(n)))]
  /\ starts' = starts + 1
  /\ UNCHANGED <<file, open, exists, at, grown, recorded, users, crossed, tears>>

Stop(n) ==
  /\ pc[n] = "up"
  /\ pc' = [pc EXCEPT ![n] = "down"]
  /\ UNCHANGED <<file, open, exists, at, grown, last, recorded, users, crossed, tears, starts>>

\* A height above the last one recorded.
Fresh(n, h) == h * Step > last[n]

\* The first piece append_checkpoint writes.
FirstPiece(n) == IF ~exists THEN "header" ELSE IF has_section(n) THEN "height" ELSE "key"

\* on_block_applied(h), up to the first write of append_checkpoint: the next
\* block, or one applied again by a reorganisation or another parse.
Applied(n, h) ==
  /\ pc[n] = "up" /\ h <= grown[n] + 1
  /\ grown' = [grown EXCEPT ![n] = Max({@, h})]
  /\ IF ~Fresh(n, h) THEN UNCHANGED <<exists, pc, at, last, recorded, users>>
     ELSE IF h * Step \in Heights(read_checkpoints(n))
       THEN /\ last' = [last EXCEPT ![n] = h * Step]
            /\ recorded' = [recorded EXCEPT ![n] = @ \cup {h}]
            /\ UNCHANGED <<exists, pc, at, users>>
       ELSE /\ pc' = [pc EXCEPT ![n] = FirstPiece(n)]
            /\ at' = [at EXCEPT ![n] = h]
            /\ exists' = TRUE
            /\ users' = users \cup {n}
            /\ UNCHANGED <<last, recorded>>
  /\ UNCHANGED <<file, open, crossed, tears, starts>>

\* The pieces in the order of the code; a header of one line stands for its two.
After(piece) == CASE piece = "header" -> "key"
                  [] piece = "key" -> "name"
                  [] piece = "name" -> "name_end"
                  [] piece = "name_end" -> "height"
                  [] piece = "height" -> "space"
                  [] piece = "space" -> "bytes"
                  [] piece = "bytes" -> "end"
                  [] piece = "end" -> "up"

Writing == {"header", "key", "name", "name_end", "height", "space", "bytes", "end"}
LineStart == {"header", "key", "height"}

\* The text of a piece that has one.
Text(n) == CASE pc[n] = "header" -> Comment
             [] pc[n] = "key" -> Key
             [] pc[n] = "name" -> Name(n)
             [] pc[n] = "height" -> Num(at[n] * Step)
             [] pc[n] = "bytes" -> Num(current_total_bytes(n))

\* One write; after the last on_block_applied returns true.  The header comes with
\* its end, and makes a line of many words of whatever it is glued to.
Write(n) ==
  /\ pc[n] \in Writing
  /\ CASE pc[n] \in {"name", "height", "bytes"} -> Rewrite(Put(Text(n)))
       [] pc[n] = "key" -> Rewrite(Gap(Put(Key)))
       [] pc[n] = "space" -> Rewrite(Gap(open))
       [] pc[n] \in {"name_end", "end"} -> open' = <<>> /\ file' = file
       [] pc[n] = "header" ->
            /\ open' = <<>>
            /\ file' = IF open = <<>> THEN Append(file, Other) ELSE [file EXCEPT ![Len(file)] = Other]
  /\ crossed' = (crossed \/ (pc[n] \in LineStart /\ open # <<>>))
  /\ pc' = [pc EXCEPT ![n] = After(@)]
  /\ IF pc[n] = "end"
       THEN /\ last' = [last EXCEPT ![n] = at[n] * Step]
            /\ recorded' = [recorded EXCEPT ![n] = @ \cup {at[n]}]
       ELSE UNCHANGED <<last, recorded>>
  /\ UNCHANGED <<exists, at, grown, users, tears, starts>>

\* What is left of a text that is cut off: the first digits of a number, a word
\* that says nothing.
Torn == [text |-> "cut"]
Cut(text) ==
  IF text.text = "number"
    THEN {Num(v) : v \in {v \in 0..text.val :
                            \E d \in 1..Digits(text.val) - 1 : v = text.val \div 10^d}}
    ELSE {Torn}

\* A write that is cut off, before its first byte or within: the disk is full,
\* which live mode survives, or the process is killed.
Tear(n) ==
  /\ pc[n] \in Writing
  /\ tears < MaxTears /\ tears' = tears + 1
  /\ \/ UNCHANGED <<file, open>>
     \/ /\ pc[n] \in {"header", "key", "name", "height", "bytes"}
        /\ \E text \in Cut(Text(n)) : Rewrite(Put(text))
  /\ \E state \in {"up", "down"} : pc' = [pc EXCEPT ![n] = state]
  /\ UNCHANGED <<exists, at, grown, last, recorded, users, crossed, starts>>

Next == \E n \in Net : \/ Start(n) \/ Stop(n) \/ Write(n) \/ Tear(n)
                       \/ \E h \in 1..Tip[n] : Applied(n, h)

Spec == Init /\ [][Next]_vars

-----------------------------------------------------------------------------
(* Properties.                                                             *)

Lost(n) == {h \in recorded[n] : h * Step \notin Heights(read_checkpoints(n))}

\* A network that has the file to itself reads back every checkpoint it
\* recorded, through restarts and blocks applied again; each write that was cut
\* off, wherever it was, costs it two of them at most.
LossBounded == \A n \in Net : users \subseteq {n} => Cardinality(Lost(n)) <= 2 * tears

\* With several networks in one file, no write cut off and no line begun inside
\* another process's line, some network reads back every checkpoint recorded.
\* The comments of append_checkpoint and the README promise more, "a checkpoint
\* under the section `network <name>`": the code appends to the end of the file,
\* under whichever section is last, and it may be another network that reads it.
KeptBySomeone ==
  tears = 0 /\ ~crossed =>
    \A n \in Net : \A h \in recorded[n] :
      \E m \in Net : h * Step \in Heights(read_checkpoints(m))

\* Sizes that grow by the same amount in each step, on a disk that has room for
\* the whole chain; no other network in the file, and no write cut off.
SteadyWithRoom(n) == /\ users \subseteq {n} /\ tears = 0
                     /\ \A h \in 0..Tip[n] : Size[n][h] = h * Size[n][1]
                     /\ Disk - Size[n][Tip[n]] >= MinFree

\* Such an index is never refused its start ...
SteadyGrowthStarts == \A n \in Net : SteadyWithRoom(n) => ~Refuses(n)

\* ... once there are two checkpoints to draw a line through.
SteadyGrowthStartsFromTwo ==
  \A n \in Net : SteadyWithRoom(n) /\ Cardinality(read_checkpoints(n)) # 1 => ~Refuses(n)

\* When no point read back is above the tip of the network's own node, the
\* projection is not below the mean of the sizes, rounded down: sizes that shrink
\* with compaction do not let a small disk pass.  A point of another network, or
\* one with a height glued from two, may be above it, and then it may be.
ProjectsAtLeastMean ==
  \A n \in Net :
    LET pts == read_checkpoints(n)
    IN  pts # {} /\ (\A h \in Heights(pts) : h <= Tip[n] * Step)
          => projected_total_bytes(pts, Tip[n] * Step) * Cardinality(pts)
               + Cardinality(pts) > sy(pts)

=============================================================================
