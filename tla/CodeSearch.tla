------------------------------ MODULE CodeSearch ------------------------------
(* Find-in-files beside a project's code (components/CodeSearchPanel): the    *)
(* box, the wait before a search is sent, and the answers that come back.     *)
(* A search reads every file, so one typed over is called off, and what is    *)
(* listed once the box is at rest was found for what the box says.  A text is *)
(* one of a few; those of Short are not long enough to search for, and ""     *)
(* stands for an empty box.                                                   *)
EXTENDS Naturals, Sequences, SequencesExt

CONSTANTS
  Texts,             \* what may be typed and is long enough to search for
  Short,             \* what may be typed and is not
  MaxTyped           \* bound: how often the box changes

VARIABLES
  boxText,           \* what the box holds
  waiting,           \* the debounce timer of the search for boxText runs
  searches,          \* the searches the server still answers, oldest first
  hits,              \* the answer listed: [for, hit] (hit: it found anything)
  searchError,       \* the last search failed
  searching,         \* the comet turns in the box
  openedHit,         \* the hit last opened in the editor
  typed              \* how often the box has changed, for the bound

searchVars ==
  <<boxText, waiting, searches, hits, searchError, searching, openedHit, typed>>

NoText == ""
NothingFound == [for |-> NoText, hit |-> FALSE]
LongEnough(text) == text \in Texts

SearchTypeOK ==
  /\ boxText \in Texts \cup Short \cup {NoText}
  /\ waiting \in BOOLEAN /\ searching \in BOOLEAN /\ searchError \in BOOLEAN
  /\ \A i \in DOMAIN searches : searches[i] \in Texts
  /\ {hits, openedHit} \subseteq [for : Texts \cup {NoText}, hit : BOOLEAN]
  /\ typed \in 0..MaxTyped

SearchInit ==
  /\ boxText = NoText /\ waiting = FALSE /\ searches = <<>>
  /\ hits = NothingFound /\ searchError = FALSE /\ searching = FALSE
  /\ openedHit = NothingFound /\ typed = 0

-------------------------------------------------------------------------------

\* Mutant: the search typed over is not called off.
AbortedNot(pending) == pending

(* What is left of the searches under way when the box changes: none.         *)
Aborted(pending) == <<>>

(* A change of the box starts its effect over: the last search is aborted and *)
(* its timer cleared, a short text empties the list, and a long one waits.    *)
TypeSearch(text) ==
  /\ typed < MaxTyped /\ text # boxText
  /\ typed' = typed + 1
  /\ boxText' = text
  /\ searches' = Aborted(searches)
  /\ waiting' = LongEnough(text)
  /\ searching' = LongEnough(text)
  /\ hits' = IF LongEnough(text) THEN hits ELSE NothingFound
  /\ searchError' = (LongEnough(text) /\ searchError)
  /\ UNCHANGED openedHit

(* The cross and Escape, offered while there is something to clear.           *)
ClearSearch == boxText # NoText /\ TypeSearch(NoText)

SearchSent ==
  /\ waiting
  /\ waiting' = FALSE
  /\ searches' = Append(searches, boxText)
  /\ UNCHANGED <<boxText, hits, searchError, searching, openedHit, typed>>

(* An answer replaces the list, whichever search it is of: the answers of     *)
(* searches called off are never heard.                                       *)
SearchFound(i, hit) ==
  /\ hits' = [for |-> searches[i], hit |-> hit]
  /\ searchError' = FALSE /\ searching' = FALSE
  /\ searches' = RemoveAt(searches, i)
  /\ UNCHANGED <<boxText, waiting, openedHit, typed>>

SearchFailed(i) ==
  /\ hits' = NothingFound /\ searchError' = TRUE /\ searching' = FALSE
  /\ searches' = RemoveAt(searches, i)
  /\ UNCHANGED <<boxText, waiting, openedHit, typed>>

(* The hits are listed while the box is not empty, those of the text before   *)
(* included while the next search is under way.                               *)
HitsListed == boxText # NoText /\ hits.hit

OpenHit ==
  /\ HitsListed
  /\ openedHit' = hits
  /\ UNCHANGED <<boxText, waiting, searches, hits, searchError, searching, typed>>

SearchNext ==
  \/ \E text \in Texts \cup Short : TypeSearch(text)
  \/ ClearSearch
  \/ SearchSent
  \/ \E i \in DOMAIN searches : \/ \E hit \in BOOLEAN : SearchFound(i, hit)
                               \/ SearchFailed(i)
  \/ OpenHit

SearchSpec == SearchInit /\ [][SearchNext]_searchVars

-------------------------------------------------------------------------------

(* Once the box is at rest, what is listed below it was found for what it     *)
(* says, in whatever order the answers came (CodeSearchPanel's AbortController*)
(* and its dependency on the trimmed text).                                   *)
HitsAreForTheText ==
  ~searching /\ hits # NothingFound => hits.for = boxText

-------------------------------------------------------------------------------

(* Why it does: every search under way is for what the box says.              *)
SearchInvariant ==
  /\ searches \in Seq({boxText})
  /\ HitsAreForTheText
===============================================================================
