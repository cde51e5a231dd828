----------------------------- MODULE ChatReveal -----------------------------
(***************************************************************************)
(* The pace at which a reply is shown while it arrives: a cursor that      *)
(* types out the sentences, skips what is not readable and stops short of  *)
(* a tag of which only half has come.  Positions count half tokens, so an  *)
(* odd number of them ends in the middle of a tag.                         *)
(***************************************************************************)
EXTENDS ChatText

CONSTANTS
  RevealLength,       \* bound: tokens of the reply
  MaxRestarts         \* bound: replays, replacements and remounts

VARIABLES
  sent,               \* the reply as the server has it
  got,                \* how much of it has arrived
  isArriving,         \* the turn is under way
  instantUpTo,        \* what had been written before this page followed it
  awaitingBacklog,    \* the next chunk is a replay
  reveal,             \* the cursor and what its hook keeps
  revealKept,               \* the progress kept for a remount
  rewound,            \* the text was replayed or replaced under a cursor that stayed
  restarts            \* bound

revealVars == <<sent, got, isArriving, instantUpTo, awaitingBacklog, reveal, revealKept, rewound, restarts>>

Sentence == {Open("message", NoPath), Close("message"), Word}
FileOpens == {Open("file", p) : p \in TurnPaths}
Beginnings == FileOpens \cup {Open("message", NoPath)}
RevealReplies ==
  {t \in [1..RevealLength -> Sentence \cup FileOpens \cup {Close("file")}] :
     /\ t[1] \in Beginnings /\ t[2] \notin Beginnings
     /\ \A i \in 3..RevealLength : t[i] = t[i - 1] => t[i] = Word}
Positions == 0..(2 * RevealLength)
NotKept == 2 * RevealLength + 1
IsTag(token) == token # Word
Unmounted == [mounted |-> FALSE, cursor |-> 0, animated |-> FALSE, ticking |-> FALSE]
AtMost(a, b) == IF a < b THEN a ELSE b
AtLeast(a, b) == IF a < b THEN b ELSE a

-----------------------------------------------------------------------------
Arrived(n) == SubSeq(sent, 1, n \div 2)
(* Where the cursor has to stop, and the ranges of the text that are prose. *)
FindSafeEnd(n) == 2 * (n \div 2)
FindVisibleRanges(n) ==
  LET scan == ScanProtocol(Arrived(n))
      blocks == BlocksBefore(scan)
      prose == Kept(blocks, {b \in Range(blocks) : b.block.tag = "message"})
      ends == [i \in 1..Len(prose) |-> <<2 * prose[i].at, 2 * (prose[i].end - 1)>>]
  IN IF scan.dangling.block.tag = "message" THEN Append(ends, <<2 * scan.dangling.at, n>>) ELSE ends
(* The cursor after a budget of readable text: what lies between two ranges is passed at once. *)
PassRange(at, range, end) ==
  LET stop == AtMost(range[2], end)
      from == AtLeast(at.cursor, AtMost(range[1], end))
      take == AtMost(at.budget, stop - from)
  IN IF at.stopped \/ stop <= at.cursor THEN at
     ELSE IF from >= end THEN [at EXCEPT !.cursor = end, !.stopped = TRUE]
     ELSE [cursor |-> from + take, budget |-> at.budget - take, stopped |-> from + take < stop]
SetOut(cursor, budget) == [cursor |-> cursor, budget |-> budget, stopped |-> FALSE]
AdvanceCursor(ranges, cursor, end, budget) ==
  LET moved[i \in 0..Len(ranges)] == IF i = 0 THEN SetOut(cursor, budget) ELSE PassRange(moved[i - 1], ranges[i], end)
      last == moved[Len(ranges)]
  IN IF last.stopped THEN last.cursor ELSE end

\* Mutant: what was already written is shown to its very end.
AlreadySeenWhole(n, instant, streaming) == AtMost(instant, n)
AlreadySeen(n, instant, streaming) == AtMost(instant, IF streaming THEN FindSafeEnd(n) ELSE n)
(* The hook's effect, at every render with a new text or a turn that ended; kept is forgotten when the turn ends. *)
Effect(r, n, instant, streaming) ==
  LET animated == r.animated \/ streaming
      cursor == IF n < r.cursor THEN 0 ELSE r.cursor
  IN IF ~r.mounted THEN r
     ELSE IF ~animated THEN [r EXCEPT !.cursor = n]
     ELSE [r EXCEPT !.animated = animated, !.ticking = TRUE,
                    !.cursor = AtLeast(cursor, AlreadySeen(n, instant, streaming))]
KeptAfter(r, k, streaming) == IF ~r.mounted THEN k ELSE IF streaming THEN r.cursor ELSE NotKept
IsAhead(r, k, n) == IF r.mounted THEN r.cursor > FindSafeEnd(n) ELSE k # NotKept
Rendered(n, instant, streaming, isRewound) ==
  /\ reveal' = Effect(reveal, n, instant, streaming)
  /\ revealKept' = KeptAfter(reveal', revealKept, streaming)
  /\ rewound' = (isRewound /\ IsAhead(reveal', revealKept', n))

RevealInit ==
  /\ sent \in RevealReplies
  /\ got = 0 /\ isArriving = TRUE /\ instantUpTo = 0 /\ awaitingBacklog \in BOOLEAN
  /\ reveal = Unmounted /\ revealKept = NotKept /\ rewound = FALSE /\ restarts = 0

Chunk ==
  \E n \in Positions :
    /\ isArriving /\ n > got
    /\ n % 2 = 1 => IsTag(sent[(n + 1) \div 2])
    /\ got' = n
    /\ instantUpTo' = IF awaitingBacklog THEN n ELSE instantUpTo
    /\ awaitingBacklog' = FALSE
    /\ Rendered(n, instantUpTo', TRUE, rewound)
    /\ UNCHANGED <<sent, isArriving, restarts>>
(* A connection that was lost: the text is read again from its beginning; the empty text may not be rendered before the replay comes. *)
Reconnect ==
  \E rendered \in BOOLEAN :
    /\ isArriving /\ restarts < MaxRestarts
    /\ restarts' = restarts + 1
    /\ got' = 0 /\ instantUpTo' = 0 /\ awaitingBacklog' = TRUE
    /\ IF rendered THEN Rendered(0, 0, TRUE, TRUE) ELSE UNCHANGED <<reveal, revealKept>> /\ rewound' = TRUE
    /\ UNCHANGED <<sent, isArriving>>
(* The server puts another text in the place of its reply. *)
Replace ==
  \E token \in {Word, Close("message")}, n \in 2..(2 * RevealLength) :
    /\ isArriving /\ restarts < MaxRestarts
    /\ restarts' = restarts + 1
    /\ sent' = [sent EXCEPT ![2] = token]
    /\ n % 2 = 1 => IsTag(sent'[(n + 1) \div 2])
    /\ got' = n /\ instantUpTo' = n /\ awaitingBacklog' = FALSE
    /\ Rendered(n, n, TRUE, TRUE)
    /\ UNCHANGED isArriving
TurnOver ==
  /\ isArriving
  /\ isArriving' = FALSE
  /\ Rendered(got, instantUpTo, FALSE, FALSE)
  /\ UNCHANGED <<sent, got, instantUpTo, awaitingBacklog, restarts>>
(* A frame: some readable text is due, at least none. *)
Tick ==
  \E budget \in {0, 2, 2 * RevealLength} :
    LET end == IF isArriving THEN FindSafeEnd(got) ELSE got
        next == AtLeast(reveal.cursor, AdvanceCursor(FindVisibleRanges(got), reveal.cursor, end, budget))
    IN /\ reveal.mounted /\ reveal.ticking
       /\ reveal' = [reveal EXCEPT !.cursor = next, !.ticking = next < end]
       /\ revealKept' = IF next # reveal.cursor THEN next ELSE revealKept
       /\ rewound' = (rewound /\ next > FindSafeEnd(got))
       /\ UNCHANGED <<sent, got, isArriving, instantUpTo, awaitingBacklog, restarts>>
(* The chat is opened, or left for another project and opened again, while the reply arrives. *)
InitialCursor ==
  IF isArriving /\ revealKept # NotKept THEN AtMost(revealKept, got) ELSE IF isArriving THEN 0 ELSE got
Mount ==
  LET r == [Unmounted EXCEPT !.mounted = TRUE, !.cursor = InitialCursor, !.animated = isArriving]
  IN /\ ~reveal.mounted
     /\ reveal' = Effect(r, got, instantUpTo, isArriving)
     /\ revealKept' = KeptAfter(reveal', revealKept, isArriving)
     /\ rewound' = (rewound /\ isArriving /\ IsAhead(reveal', revealKept', got))
     /\ UNCHANGED <<sent, got, isArriving, instantUpTo, awaitingBacklog, restarts>>
Unmount ==
  /\ reveal.mounted /\ restarts < MaxRestarts
  /\ restarts' = restarts + 1
  /\ reveal' = Unmounted
  /\ UNCHANGED <<sent, got, isArriving, instantUpTo, awaitingBacklog, revealKept, rewound>>

RevealNext == Chunk \/ Reconnect \/ Replace \/ TurnOver \/ Tick \/ Mount \/ Unmount
RevealSpec == RevealInit /\ [][RevealNext]_revealVars

-----------------------------------------------------------------------------
(* The cursor is a position of the reply, and what is kept one too. *)
RevealTypeOK ==
  /\ sent \in [1..RevealLength -> Tokens] /\ got \in Positions /\ instantUpTo \in Positions
  /\ reveal.cursor \in Positions /\ revealKept \in Positions \cup {NotKept}

(* Where the cursor stands is kept for a remount; without a replay under it, it is not past what may be shown. *)
RevealInvariant ==
  /\ RevealTypeOK
  /\ isArriving \in BOOLEAN /\ rewound \in BOOLEAN
  /\ reveal \in [mounted : BOOLEAN, cursor : Positions, animated : BOOLEAN, ticking : BOOLEAN]
  /\ isArriving /\ reveal.mounted => revealKept = reveal.cursor
  /\ isArriving /\ ~rewound =>
       /\ reveal.mounted => reveal.cursor <= FindSafeEnd(got)
       /\ revealKept # NotKept => revealKept <= FindSafeEnd(got)

(* While a reply arrives, nothing of a tag of which only half has come is shown - whatever order chunks, replays of a
   lost connection, replaced texts and frames come in - except while a position kept from before a replay is past what
   the replay has reached. *)
ShownTo == AtMost(reveal.cursor, got)
NothingHalfShown == isArriving /\ reveal.mounted /\ ~rewound => ShownTo <= FindSafeEnd(got)

=============================================================================
