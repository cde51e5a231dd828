------------------------------ MODULE ChatText ------------------------------
(***************************************************************************)
(* The tagged text of a build turn, as the browser reads it while it is    *)
(* still arriving: where each block ends, the events it stands for, the    *)
(* files of the turn and the checklist that counts up beside them.  A text *)
(* is a sequence of tags and words; `wrote' is what the model meant by it. *)
(***************************************************************************)
EXTENDS Naturals, Sequences, SequencesExt, KeptElements

CONSTANTS
  TurnPaths,          \* paths the turn may name
  MaxBlocks,          \* bound: blocks of a turn
  MaxBody,            \* bound: words and tags inside a block
  MaxChecklistSteps

VARIABLES
  turnText,           \* what has arrived
  writing,            \* the block the model is writing
  wrote               \* the blocks it has finished

turnVars == <<turnText, writing, wrote>>

NoPath == "nopath"
Tags == {"message", "file", "edit", "delete", "todo"}
IsOpaque(tag) == tag \in {"file", "edit"}
Open(tag, path) == [kind |-> "open", tag |-> tag, path |-> path]
Close(tag) == [kind |-> "close", tag |-> tag, path |-> NoPath]
Word == [kind |-> "word", tag |-> "none", path |-> NoPath]
Tokens == {Open(t, p) : t \in Tags, p \in TurnPaths \cup {NoPath}} \cup {Close(t) : t \in Tags} \cup {Word}

Block(tag, path, body) == [tag |-> tag, path |-> path, body |-> body]
NotWriting == Block("none", NoPath, <<>>)

TextInit == turnText = <<>> /\ writing = NotWriting /\ wrote = <<>>

-----------------------------------------------------------------------------
(* Where blocks are.  A file, edit or delete is a tag only with a path. *)
IsOpenTag(token) == token.kind = "open" /\ (token.tag \in {"file", "edit", "delete"} => token.path # NoPath)
Opens(text) == {i \in DOMAIN text : IsOpenTag(text[i])}
Closes(text, tag, from, to) == {i \in from..to : text[i] = Close(tag)}
Least(S) == CHOOSE i \in S : \A j \in S : i <= j
Greatest(S) == CHOOSE i \in S : \A j \in S : j <= i
FirstOf(S, otherwise) == IF S = {} THEN otherwise ELSE Least(S)
LastOf(S, otherwise) == IF S = {} THEN otherwise ELSE Greatest(S)

NextOpaqueStart(text, i) == FirstOf({j \in Opens(text) : j > i /\ IsOpaque(text[j].tag)}, Len(text) + 1)
IsUnbounded(text, i) ==
  IF IsOpaque(text[i].tag) THEN NextOpaqueStart(text, i) > Len(text) ELSE i = Greatest(Opens(text))
(* A block's close, 0 for none: the last one before the next opening tag. *)
PlainClose(text, i) ==
  LastOf(Closes(text, text[i].tag, i + 1, FirstOf({j \in Opens(text) : j > i}, Len(text) + 1) - 1), 0)
HasOpenBetween(text, from, to) == \E k \in Opens(text) : from <= k /\ k < to
\* Mutant: a file ends at the last closing tag, whatever follows the others.
OpaqueCloseLast(text, i) == LastOf(Closes(text, text[i].tag, i + 1, NextOpaqueStart(text, i) - 1), 0)
(* A file's or an edit's: the first that an opening tag follows before the next one, or the last before the next opaque block. *)
OpaqueClose(text, i) ==
  LET candidates == Closes(text, text[i].tag, i + 1, NextOpaqueStart(text, i) - 1)
      followed == {c \in candidates : \E d \in candidates :
                     /\ d > c /\ \A e \in candidates : e <= c \/ e >= d
                     /\ HasOpenBetween(text, c + 1, d)}
  IN FirstOf(followed, LastOf(candidates, 0))

NoDangling == [at |-> 0, block |-> NotWriting]
NothingScanned == [cursor |-> 0, blocks |-> <<>>, dangling |-> NoDangling]
CloseOf(text, i) == IF IsOpaque(text[i].tag) THEN OpaqueClose(text, i) ELSE PlainClose(text, i)
BlockAt(text, i, last) == Block(text[i].tag, text[i].path, SubSeq(text, i + 1, last))
(* An opening tag past the blocks already found begins the next one, or is what the text stops inside of. *)
ScanTag(text, scan, i) ==
  LET close == CloseOf(text, i)
  IN IF i \notin Opens(text) \/ i < scan.cursor THEN scan
     ELSE IF close > 0
     THEN [scan EXCEPT !.cursor = close + 1,
                       !.blocks = Append(@, [at |-> i, end |-> close, block |-> BlockAt(text, i, close - 1)])]
     ELSE IF scan.dangling = NoDangling /\ IsUnbounded(text, i)
     THEN [scan EXCEPT !.dangling = [at |-> i, block |-> BlockAt(text, i, Len(text))]]
     ELSE scan
ScanProtocol(text) ==
  LET scanned[i \in 0..Len(text)] == IF i = 0 THEN NothingScanned ELSE ScanTag(text, scanned[i - 1], i)
  IN scanned[Len(text)]
(* Blocks after the one the text has stopped inside of are still its body. *)
BlocksBefore(scan) ==
  Kept(scan.blocks, {b \in Range(scan.blocks) : scan.dangling = NoDangling \/ b.at < scan.dangling.at})

-----------------------------------------------------------------------------
(* What a block means: nothing if it is blank, or past the limit of checklist steps. *)
IsBlank(body) == body = <<>>
Event(block, complete) == [type |-> block.tag, path |-> block.path, body |-> block.body, complete |-> complete]
ToEvent(reading, block, complete) ==
  LET isStep == block.tag = "todo" /\ ~IsBlank(block.body)
      steps == IF isStep THEN reading.steps + 1 ELSE reading.steps
      isEvent == CASE block.tag = "todo" -> isStep /\ steps <= MaxChecklistSteps
                   [] block.tag = "message" -> ~IsBlank(block.body)
                   [] OTHER -> TRUE
  IN [steps |-> steps, events |-> IF isEvent THEN Append(reading.events, Event(block, complete)) ELSE reading.events]
ReplacesTheFile(event) == event.type \in {"file", "delete"}
IsFileChange(event) == ReplacesTheFile(event) \/ event.type = "edit"
KeepCurrentChangesPerPath(events) ==
  LET lastWhole(p) == LastOf({i \in DOMAIN events : ReplacesTheFile(events[i]) /\ events[i].path = p}, 0)
      kept == SelectSeq([i \in 1..Len(events) |-> i], LAMBDA i : IsFileChange(events[i]) => i >= lastWhole(events[i].path))
  IN [k \in 1..Len(kept) |-> events[kept[k]]]
Reading(blocks) == FoldLeft(LAMBDA reading, block : ToEvent(reading, block, TRUE), [steps |-> 0, events |-> <<>>], blocks)

Arriving(text, streaming) == IF streaming THEN ScanProtocol(text).dangling ELSE NoDangling
ReadSoFar(text, streaming) ==
  LET scan == ScanProtocol(text)
      blocks == IF streaming THEN BlocksBefore(scan) ELSE scan.blocks
  IN Reading([b \in 1..Len(blocks) |-> blocks[b].block])
ArrivingEvents(read, arriving) ==
  IF arriving = NoDangling THEN <<>>
  ELSE LET events == ToEvent(read, arriving.block, FALSE).events
       IN IF Len(events) > Len(read.events) THEN <<Last(events)>> ELSE <<>>
\* Mutant: the block still arriving takes the place of an earlier change to its file.
ParseGenerationTextEagerly(text, streaming) ==
  KeepCurrentChangesPerPath(ReadSoFar(text, streaming).events \o ArrivingEvents(ReadSoFar(text, streaming), Arriving(text, streaming)))
ParseGenerationText(text, streaming) ==
  KeepCurrentChangesPerPath(ReadSoFar(text, streaming).events) \o ArrivingEvents(ReadSoFar(text, streaming), Arriving(text, streaming))

PathsOf(chosen) == {e.path : e \in {d \in chosen : d.path # NoPath}}
TurnFiles(events) ==
  [written |-> PathsOf({e \in Range(events) : e.type = "file" /\ e.complete}),
   deleted |-> PathsOf({e \in Range(events) : e.type = "delete" /\ e.complete}),
   arriving |-> PathsOf({e \in Range(events) : e.type = "file" /\ ~e.complete}),
   edited |-> PathsOf({e \in Range(events) : e.type = "edit" /\ e.complete}),
   planned |-> PathsOf({e \in Range(events) : e.type = "todo"})]

-----------------------------------------------------------------------------
(* The checklist: the planned steps of a turn, and a row for each file no step named. *)
Step(path, extra) == [path |-> path, extra |-> extra, files |-> <<>>]
NoBuilds == [builds |-> <<>>, isOpen |-> FALSE, isLast |-> FALSE, current |-> 0, seen |-> {}]
OpenBuild(all, planned) ==
  [all EXCEPT !.builds = Append(@, [planned |-> planned, steps |-> <<>>]), !.isOpen = TRUE, !.isLast = TRUE, !.current = 0]
Building(all) == all.builds[Len(all.builds)]
PlannedCount(build) == Len(SelectSeq(build.steps, LAMBDA s : ~s.extra))
HasPlannedStepsLeft(all) ==
  \E i \in DOMAIN Building(all).steps :
    LET s == Building(all).steps[i] IN ~s.extra /\ s.path # NoPath /\ s.path \notin all.seen
StepFor(all, path) ==
  LET steps == Building(all).steps
      holding == {i \in DOMAIN steps : \E f \in DOMAIN steps[i].files : steps[i].files[f].path = path}
  IN FirstOf({i \in DOMAIN steps : steps[i].path = path},
       FirstOf(holding,
         IF Building(all).planned /\ all.current > 0 /\ HasPlannedStepsLeft(all) THEN all.current ELSE Len(steps) + 1))
FileOf(event) == [path |-> event.path, active |-> ~event.complete, edited |-> event.type = "edit", deleted |-> event.type = "delete"]
WithFile(files, file) ==
  LET shown == {f \in DOMAIN files : files[f].path = file.path /\ files[f].edited}
  IN IF file.edited /\ shown # {} THEN [files EXCEPT ![Least(shown)].active = file.active] ELSE Append(files, file)

AddStep(all, event) ==
  LET plan == IF all.isOpen /\ Building(all).planned /\ all.isLast THEN all ELSE OpenBuild(all, TRUE)
  IN IF PlannedCount(Building(plan)) < MaxChecklistSteps
     THEN [plan EXCEPT !.builds[Len(plan.builds)].steps = Append(@, Step(event.path, FALSE))] ELSE plan
AddFile(all, event) ==
  LET building == IF all.isOpen THEN all ELSE OpenBuild(all, FALSE)
      n == Len(building.builds)
      i == StepFor(building, event.path)
      steps == IF i > Len(Building(building).steps) THEN Append(Building(building).steps, Step(event.path, TRUE)) ELSE Building(building).steps
  IN [building EXCEPT !.builds[n].steps = [steps EXCEPT ![i].files = WithFile(@, FileOf(event))],
                      !.seen = @ \cup {event.path},
                      !.current = IF steps[i].path = event.path THEN i ELSE @]
(* A build that was not planned ends at the next sentence of the turn. *)
AddMessage(all) ==
  [all EXCEPT !.isLast = FALSE,
              !.isOpen = @ /\ Building(all).planned,
              !.current = IF all.isOpen /\ ~Building(all).planned THEN 0 ELSE @]
BuildBlocks(events) ==
  FoldLeft(LAMBDA all, e : CASE e.type = "todo" -> AddStep(all, e)
                             [] e.type = "message" -> AddMessage(all)
                             [] OTHER -> AddFile(all, e), NoBuilds, events).builds

(* A step is done once its file is written, or the step after it is; one that names no file, once the turn is over. *)
WrittenPaths(events) == PathsOf({e \in Range(events) : IsFileChange(e) /\ e.complete})
Ticks(build, events, streaming) ==
  LET steps == build.steps
      byFile == {i \in DOMAIN steps : steps[i].path \in WrittenPaths(events)}
      before == {i \in DOMAIN steps : \E j \in byFile : /\ i < j
                                                        /\ \A k \in i..j : ~steps[k].extra}
      ended == {i \in DOMAIN steps : ~streaming /\ steps[i].path = NoPath}
  IN byFile \cup before \cup ended
ActiveStep(build, events, streaming) ==
  IF streaming THEN FirstOf(DOMAIN build.steps \ Ticks(build, events, streaming), 0) ELSE 0
IsRunning(build, events, streaming) == ActiveStep(build, events, streaming) # 0
HasStarted(build) == \E i \in DOMAIN build.steps : build.steps[i].files # <<>>
BuildTitle(build, events, streaming) ==
  IF ~build.planned THEN IF IsRunning(build, events, streaming) THEN "Editing" ELSE "Edited"
  ELSE IF streaming /\ ~HasStarted(build) THEN "Plan"
  ELSE IF IsRunning(build, events, streaming) THEN "Building" ELSE "Build steps"
(* While the turn runs a run of files is one line, whose verb is that of the file arriving; the card comes last, afterwards. *)
ActivityRuns(events) ==
  FoldLeft(LAMBDA runs, e :
             IF e.type = "todo" THEN runs
             ELSE IF ~IsFileChange(e) THEN [runs EXCEPT !.isOpen = FALSE]
             ELSE IF e.path \in runs.shown THEN runs
             ELSE [isOpen |-> TRUE, shown |-> runs.shown \cup {e.path},
                   lines |-> IF runs.isOpen THEN [runs.lines EXCEPT ![Len(runs.lines)] = @ \cup {e.path}]
                             ELSE Append(runs.lines, {e.path})],
           [isOpen |-> FALSE, shown |-> {}, lines |-> <<>>], events).lines
CardIsShown(events, streaming) == ~streaming /\ BuildBlocks(events) # <<>>

-----------------------------------------------------------------------------
(* What the model writes: the plan first, then files and sentences.  In a file, edit or sentence a closing tag of a
   file may be quoted, and in a file or an edit a checklist tag, before any closing tag; nothing else is quoted. *)
IsWriting == writing # NotWriting
MayOpen(tag) ==
  CASE tag = "todo" -> \A b \in DOMAIN wrote : wrote[b].tag \in {"todo", "message"}
    [] tag = "delete" -> \E b \in DOMAIN wrote : wrote[b].tag = "todo"
    [] OTHER -> TRUE
MayWrite(token) ==
  CASE token = Word -> TRUE
    [] token = Close("file") -> writing.tag \in {"file", "message"}
    [] token = Open("todo", NoPath) -> IsOpaque(writing.tag) /\ Close(writing.tag) \notin ToSet(writing.body)
    [] OTHER -> FALSE
PathChoices(tag) == CASE tag = "message" -> {NoPath} [] tag = "todo" -> TurnPaths \cup {NoPath} [] OTHER -> TurnPaths
OpenBlock ==
  \E tag \in Tags : \E path \in PathChoices(tag) :
    /\ ~IsWriting /\ Len(wrote) < MaxBlocks /\ MayOpen(tag)
    /\ writing' = Block(tag, path, <<>>)
    /\ turnText' = Append(turnText, Open(tag, path))
    /\ UNCHANGED wrote
WriteBody ==
  \E token \in {Word, Close("file"), Open("todo", NoPath)} :
    /\ IsWriting /\ Len(writing.body) < MaxBody /\ MayWrite(token)
    /\ writing' = [writing EXCEPT !.body = Append(@, token)]
    /\ turnText' = Append(turnText, token)
    /\ UNCHANGED wrote
CloseBlock ==
  /\ IsWriting
  /\ turnText' = Append(turnText, Close(writing.tag))
  /\ wrote' = Append(wrote, writing)
  /\ writing' = NotWriting

TextNext == OpenBlock \/ WriteBody \/ CloseBlock
TextSpec == TextInit /\ [][TextNext]_turnVars

-----------------------------------------------------------------------------
(* The text is tags and words, and what is being written is a block of the turn. *)
TextTypeOK ==
  /\ turnText \in Seq(Tokens)
  /\ writing = NotWriting \/ writing.tag \in Tags
  /\ \A i \in DOMAIN wrote : wrote[i].tag \in Tags /\ wrote[i].path \in TurnPaths \cup {NoPath}

(* Whatever a file, an edit or a sentence quotes - a closing tag of its own, a checklist tag of the code it holds - and
   whatever follows it, between two blocks the text is read as exactly the blocks the model wrote, each with its whole
   body, and a turn that ends there is read the same way it was shown.  The lines that tell what is being done, the card
   that stays and the turn's list of files name the same files. *)
CardFiles(events) ==
  LET builds == BuildBlocks(events)
  IN UNION {UNION {{f.path : f \in ToSet(s.files)} : s \in ToSet(build.steps)} : build \in ToSet(builds)}
ReadsAs(text, blocks) ==
  LET events == ParseGenerationText(text, TRUE)
      files == TurnFiles(events)
  IN /\ events = KeepCurrentChangesPerPath(Reading(blocks).events)
     /\ ParseGenerationText(text, FALSE) = events
     /\ CardFiles(events) = UNION ToSet(ActivityRuns(events))
     /\ CardFiles(events) = files.written \cup files.deleted \cup files.edited
ReadsAsWritten == writing' = NotWriting => ReadsAs(turnText', wrote')

(* While a turn arrives, a planned step that was ticked is never unticked: not by a file that is written again, nor by
   what a file turns out to hold, nor when the turn ends. *)
Ticked(text, streaming) ==
  LET events == ParseGenerationText(text, streaming)
      builds == BuildBlocks(events)
  IN UNION {{builds[b].steps[i].path : i \in {j \in Ticks(builds[b], events, streaming) : ~builds[b].steps[j].extra}} : b \in DOMAIN builds} \ {NoPath}
TickedStaysTicked == Ticked(turnText, TRUE) \subseteq Ticked(turnText', TRUE) \cap Ticked(turnText', FALSE)

=============================================================================
