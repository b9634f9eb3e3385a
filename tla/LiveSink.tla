------------------------------ MODULE LiveSink ------------------------------
(***************************************************************************)
(* `bidx live --out': the live tracker together with the Parquet sink its  *)
(* events feed (crates/bidx-cli/src/live.rs).  The callback runs in the    *)
(* tracker's thread, after set_tip: while an event is being handled only   *)
(* the node moves, and a process that dies then has the block in its index *)
(* and not in its files.                                                   *)
(*                                                                         *)
(* A part file is the set of blocks whose rows it has.  It can be read     *)
(* only once it is finished (a Parquet file ends in its footer); creating  *)
(* it again truncates it.  One part stands for the five entity files that  *)
(* are created, filled and finished together.                              *)
(*                                                                         *)
(* "sink_error" in Env: any call of the sink may fail.  The callback logs  *)
(* it and the tracker goes on.                                             *)
(***************************************************************************)
EXTENDS LiveTracker

CONSTANTS BlocksPerPart,  \* LIVE_BLOCKS_PER_PART
          NoBlock         \* no event to handle; no sink to write to

ASSUME SinkAssumption == BlocksPerPart \in Nat \ {0} /\ NoBlock \notin Block

VARIABLES event,  \* the block of TrackerEvent::Applied, or NoBlock
          part,   \* LiveSink.part
          open,   \* LiveSink.sink is Some
          rows,   \* blocks whose rows the open part has
          files   \* part -> the blocks in it, for the parts that can be read

sinkVars == <<event, part, open, rows, files>>
allVars == <<vars, sinkVars>>

PartOf(b) == Height[b] \div BlocksPerPart

SinkInit ==
  /\ Init
  /\ event = NoBlock
  /\ part = 0 /\ open = FALSE /\ rows = {}
  /\ files = [p \in {} |-> {}]

\* Part p with the rows of bs in it, and part p without its footer.
Finished(fs, p, bs) == [q \in DOMAIN fs \cup {p} |-> IF q = p THEN bs ELSE fs[q]]
Truncated(fs, p) == [q \in DOMAIN fs \ {p} |-> fs[q]]

-----------------------------------------------------------------------------
\* The part of the block after the stored tip, and 0 without one.
StartPart == IF tip = NoTip THEN 0 ELSE (Height[tip] + 1) \div BlocksPerPart

\* run_live up to tracker.run.
StartLive ==
  /\ Start
  /\ part' = StartPart /\ open' = TRUE /\ rows' = {}
  /\ files' = Truncated(files, StartPart)
  /\ UNCHANGED event

\* Mutant: the event names the block before.
AdvanceEmitsTip ==
  /\ Advance
  /\ event' = local
  /\ UNCHANGED <<part, open, rows, files>>

\* set_tip, and the event that follows it.
AdvanceEmits ==
  /\ Advance
  /\ event' = fetched
  /\ UNCHANGED <<part, open, rows, files>>

\* Mutant: a part is only ever left for a later one.
RotatesForward == PartOf(event) > part

\* rotate_if_needed has something to do.
Rotates == PartOf(event) # part

\* What is readable once rotate_if_needed is over.
Rotated == Truncated(IF open THEN Finished(files, part, rows) ELSE files, PartOf(event))

\* write_block, without an error: rotate, then the rows of the block.
WriteBlock ==
  /\ event # NoBlock
  /\ IF Rotates THEN /\ part' = PartOf(event) /\ open' = TRUE /\ rows' = {event}
                     /\ files' = Rotated
     ELSE open /\ rows' = rows \cup {event} /\ UNCHANGED <<part, open, files>>
  /\ event' = NoBlock
  /\ UNCHANGED vars

\* write_block fails: before the old part is finished, after it, before the new
\* one is created, or at the rows.  A row group that cannot be written takes the
\* buffered rows of earlier blocks with it, and one written before the error
\* leaves rows of this block.
WriteFails ==
  /\ "sink_error" \in Env
  /\ event # NoBlock
  /\ \/ /\ Rotates
        /\ files' \in {files, IF open THEN Finished(files, part, rows) ELSE files, Rotated}
        /\ open' = FALSE /\ rows' = {} /\ UNCHANGED part
     \/ /\ Rotates
        /\ files' = Rotated
        /\ part' = PartOf(event) /\ open' = TRUE /\ rows' \in SUBSET {event}
     \/ /\ ~Rotates /\ open
        /\ rows' \in SUBSET (rows \cup {event})
        /\ UNCHANGED <<part, open, files>>
  /\ event' = NoBlock
  /\ UNCHANGED vars

\* The process is gone: what the open part had is never finished.
SinkGone == event' = NoBlock /\ part' = 0 /\ open' = FALSE /\ rows' = {} /\ UNCHANGED files

\* expect("sink present after rotate"): a rotation failed, and the block is of
\* the part it was leaving.
SinkPanics ==
  /\ event # NoBlock
  /\ ~Rotates /\ ~open
  /\ Exit
  /\ SinkGone
  /\ UNCHANGED <<storeVars, nodeTip>>

\* The other steps of the tracker; one that ends the process drops the sink.
OtherStep ==
  /\ event = NoBlock
  /\ Wake \/ Count \/ Seed \/ Probe \/ Disconnect \/ ParentHash \/ StepBack
          \/ Forward \/ Fetch \/ Apply
  /\ IF pc' = "down" THEN SinkGone ELSE UNCHANGED sinkVars

LiveNext ==
  \/ StartLive
  \/ event = NoBlock /\ AdvanceEmits
  \/ OtherStep
  \/ WriteBlock \/ WriteFails \/ SinkPanics
  \/ Crash /\ SinkGone
  \/ NodeMove /\ UNCHANGED sinkVars

LiveThread == \/ StartLive \/ (event = NoBlock /\ AdvanceEmits) \/ OtherStep
              \/ WriteBlock \/ WriteFails \/ SinkPanics

LiveSpec == SinkInit /\ [][LiveNext]_allVars

\* The tracker's thread runs, and a dead process is started again.
FairLiveSpec == LiveSpec /\ WF_allVars(LiveThread)

-----------------------------------------------------------------------------
(* Properties.                                                             *)

\* The parts with what is in them, the open one included.
Parts == IF open THEN Finished(files, part, rows) ELSE files

\* Rows are only ever in the part file of their height, whichever way a
\* reorganisation or a restart crosses a boundary.
RowsInTheirPart == \A p \in DOMAIN Parts : \A b \in Parts[p] : PartOf(b) = p

\* The indexed blocks whose event has been handled.
Handled == Branch[Indexed] \ {event}

\* A part that a restart at its last block c does not create again.
LastOfPart(c) == (Height[c] + 1) \div BlocksPerPart # PartOf(c)

\* c was in the index and its rows were not written when the process died: no
\* later process writes them, unless it has to create the part again.
LostInCrash(c) == "crash" \in Env /\ (LastOfPart(c) \/ (pc = "down" /\ c = tip))

\* From the first height a part has rows at, whatever block they are of, every
\* indexed block of that part has its rows in it: a restart or a
\* reorganisation takes the beginning of a part and leaves no hole.  The one
\* exception is a block that takes the place of another in a part that was
\* finished before: a crash between set_tip and write_block leaves the rows of
\* the block it replaced, for good if it is the last of its part.
NoHoles ==
  \A p \in DOMAIN Parts : \A b \in Parts[p], c \in Handled :
    PartOf(c) = p /\ Height[c] >= Height[b] =>
      c \in Parts[p] \/ (LostInCrash(c) /\ \E d \in Parts[p] : Height[d] = Height[c])

=============================================================================
