------------------------------ MODULE Capture ------------------------------
(***************************************************************************)
(* How a build that goes online reads the project (PublishSourceReader):   *)
(* the current revision, every file from the live layout, and the revision *)
(* again, up to three times, beside the publishes of Revisions.            *)
(***************************************************************************)
EXTENDS Revisions

VARIABLE capture

captureVars == <<capture, vars>>

\* "got" holds the files read; "unsettled", a history field, tells whether a
\* publish was applying or undoing when the revision was read again.
Capturing ==
    [pc : {"idle", "listing", "reading", "captured", "failed"}, attempt : 0..3, before : RevId,
     listed : SUBSET Path, got : [Path -> Object], unsettled : BOOLEAN]

NotCapturing ==
    [pc |-> "idle", attempt |-> 0, before |-> 0, listed |-> {},
     got |-> [x \in Path |-> Absent], unsettled |-> FALSE]

CaptureTypeOK == capture \in Capturing

CaptureInit == Init /\ capture = NotCapturing

\* The current revision, at the start of an attempt.
ReadRevision(attempt) == [NotCapturing EXCEPT !.pc = "listing", !.attempt = attempt,
                                              !.before = current]

StartCapture ==
    /\ capture.pc \in {"idle", "captured", "failed"}
    /\ capture' = ReadRevision(1)
    /\ UNCHANGED vars

\* Which files the project has; the ones a build leaves out are not in Path.
ListFiles ==
    /\ capture.pc = "listing"
    /\ capture' = [capture EXCEPT !.pc = "reading", !.listed = {x \in Path : files[x] # Absent}]
    /\ UNCHANGED vars

\* One file's bytes; a file that storage does not have fails the capture.
ReadFile(x) ==
    /\ capture.pc = "reading" /\ x \in capture.listed
    /\ capture' = IF live[x] = Absent THEN [NotCapturing EXCEPT !.pc = "failed"]
                  ELSE [capture EXCEPT !.listed = @ \ {x}, !.got[x] = live[x]]
    /\ UNCHANGED vars

Settled == \A a \in Actor : ~InFlight(a)

\* Mutant: the revision is not read again.
SameRevisionAssumed == TRUE

\* The files count as the revision's only if it did not move.
SameRevision == capture.before = current

\* Mutant: one attempt too many.
AttemptsLeftInclusive == capture.attempt <= 3

AttemptsLeft == capture.attempt < 3

\* The second read of the revision: done, again, or given up.
ReadRevisionAgain ==
    /\ capture.pc = "reading" /\ capture.listed = {}
    /\ capture' =
          IF SameRevision THEN [capture EXCEPT !.pc = "captured", !.unsettled = ~Settled]
          ELSE IF AttemptsLeft THEN ReadRevision(capture.attempt + 1)
          ELSE [NotCapturing EXCEPT !.pc = "failed"]
    /\ UNCHANGED vars

CaptureStep ==
    StartCapture \/ ListFiles \/ (\E x \in Path : ReadFile(x)) \/ ReadRevisionAgain

CaptureNext == CaptureStep \/ (Next /\ UNCHANGED capture)

CaptureSpec == CaptureInit /\ [][CaptureNext]_captureVars

----------------------------------------------------------------------------
(* Properties *)

\* What the project held at the revision the capture is recorded under.
HeldAt(r) ==
    LET i == CHOOSE j \in DOMAIN history : history[j].rev = r
    IN [x \in Path |-> Denotes(x, history[i].tree[x])]

\* "From a mixture of two revisions" nothing is built: what was read is the
\* recorded revision, whole, though publishes may land between any two reads, as
\* long as none was half applied when the revision was read again.
CaptureIsOneRevision ==
    capture.pc = "captured" /\ ~capture.unsettled => capture.got = HeldAt(capture.before)

\* "The live layout always matches the current revision, which is what the second
\* read of the revision proves."
CaptureIsTheRevision ==
    capture.pc = "captured" => capture.got = HeldAt(capture.before)

----------------------------------------------------------------------------
(* The invariant the theorem about CaptureIsOneRevision rests on *)

\* A publish works on the revision that is current, and none is undone.
PublishesGoOn ==
    \A a \in Actor :
        /\ ~At(a, "undoing")
        /\ pub[a].pc \in {"chosen", "begun", "staging", "applying"} => pub[a].parent = current

\* x is being replaced.
Replacing(x) == \E a \in Actor : InFlight(a) /\ x \in pub[a].undo

\* An attempt whose revision is still current has read what the rows say, but for
\* the files that are being replaced and whose publish will move the pointer.
CaptureFollows ==
    /\ capture.before \in {history[i].rev : i \in DOMAIN history}
    /\ capture.pc = "listing" => capture.got = NotCapturing.got
    /\ capture.pc = "reading" /\ capture.before = current =>
          \A x \in Path :
              IF x \in capture.listed THEN files[x] # Absent
              ELSE capture.got[x] = Denotes(x, HashOf(files[x])) \/ Replacing(x)
=============================================================================
