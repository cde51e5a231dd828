------------------------------ MODULE UsagePage ------------------------------
(***************************************************************************)
(* What a person has used: the day's allowance as the chat's meter and the *)
(* billing page show it, and the list of every request on the usage page,  *)
(* read a page at a time while requests go on being made.  A request is    *)
(* its number; each uses one unit of the allowance.                        *)
(***************************************************************************)
EXTENDS Naturals, Sequences, SequencesExt, KeptElements

CONSTANTS
  DayLimit,           \* units a day
  BuildMinimum,       \* units a build has to have left
  UnitsPerBuild,      \* what a build takes, about
  PageSize,
  MaxMade             \* bound: requests made

VARIABLES
  made,               \* the server: the requests so far
  today,              \* the server: those of the day
  meterRead,          \* the figures the meter shows, and whether they are being read
  cachedPages,        \* the pages of the list the browser keeps, from earlier visits too
  cachedRanges,       \* the totals of the ranges, as they were last read
  usageList           \* the usage page

usageVars == <<made, today, meterRead, cachedPages, cachedRanges, usageList>>

Ranges == {"today", "7d"}
NoFigures == [known |-> FALSE, used |-> 0]
PagesMade == 0..MaxMade
NoListPage == [known |-> FALSE, ids |-> <<>>, more |-> FALSE]
Unopened == [open |-> FALSE, page |-> 0, reading |-> FALSE, shown |-> <<>>, range |-> "7d", exporting |-> FALSE]

UsageInit ==
  /\ made = 0 /\ today = 0
  /\ meterRead = [figures |-> NoFigures, reading |-> FALSE, replying |-> FALSE]
  /\ cachedPages = [p \in PagesMade |-> NoListPage]
  /\ cachedRanges = [r \in Ranges |-> NoFigures]
  /\ usageList = Unopened

-----------------------------------------------------------------------------
(* The figures as a quota.  A build is admitted by the minimum it needs, not by what it will use. *)
ToQuota(figures) ==
  [used |-> figures.used,
   remaining |-> IF figures.used > DayLimit THEN 0 ELSE DayLimit - figures.used,
   isExhausted |-> figures.used >= DayLimit,
   isLow |-> figures.used < DayLimit /\ 100 * figures.used >= 85 * DayLimit,
   canBuild |-> figures.used < DayLimit /\ figures.used + BuildMinimum <= DayLimit]
Percent(used, limit) == IF limit = 0 \/ used > limit THEN 100 ELSE (200 * used + limit) \div (2 * limit)
MeterIsShown == meterRead.figures.known /\ ~ToQuota(meterRead.figures).isExhausted
MeterTone == IF ToQuota(meterRead.figures).isLow THEN "warning" ELSE "default"
SidebarMeter ==
  IF ~meterRead.figures.known THEN "none"
  ELSE IF ToQuota(meterRead.figures).isExhausted THEN "out of tokens"
  ELSE IF ToQuota(meterRead.figures).isLow THEN "running low" ELSE "none"
BuildsFor(units) == LET builds == units \div UnitsPerBuild IN IF builds >= 20 THEN 5 * (builds \div 5) ELSE builds
BuildsLeftLabel(units) == IF BuildsFor(units) = 0 THEN "not enough" ELSE BuildsFor(units)
UpgradeIsOffered(isFree) == MeterIsShown /\ (isFree \/ ToQuota(meterRead.figures).isLow)

(* A request is made in the chat or elsewhere; a reply in progress has the meter read again every few seconds. *)
UsesAI ==
  /\ made < MaxMade /\ today < DayLimit
  /\ made' = made + 1 /\ today' = today + 1
  /\ meterRead' = [meterRead EXCEPT !.replying = ~@]
  /\ UNCHANGED <<cachedPages, cachedRanges, usageList>>

DayEnds ==
  /\ today > 0 /\ ~meterRead.replying
  /\ today' = 0
  /\ UNCHANGED <<made, meterRead, cachedPages, cachedRanges, usageList>>

ReadMeter ==
  /\ ~meterRead.reading
  /\ meterRead' = [meterRead EXCEPT !.reading = TRUE]
  /\ UNCHANGED <<made, today, cachedPages, cachedRanges, usageList>>
GetUsageToday ==
  /\ meterRead.reading
  /\ meterRead' = [meterRead EXCEPT !.figures = [known |-> TRUE, used |-> today], !.reading = FALSE]
  /\ UNCHANGED <<made, today, cachedPages, cachedRanges, usageList>>

-----------------------------------------------------------------------------
(* A page of the list, newest first, as it is when it is read. *)
NewestFirst(n) == [i \in 1..n |-> n + 1 - i]
PageOf(p) ==
  [known |-> TRUE, more |-> made > (p + 1) * PageSize,
   ids |-> SubSeq(NewestFirst(made), p * PageSize + 1, IF made < (p + 1) * PageSize THEN made ELSE (p + 1) * PageSize)]

(* The first page begins the list anew; a further one adds what is not there yet. *)
\* Mutant: a page is added as it is.
PageAddedAsIs(shown, p, ids) == IF p = 0 THEN ids ELSE shown \o ids
NewOnes(shown, ids) == Kept(ids, ToSet(ids) \ ToSet(shown))
PageAdded(shown, p, ids) == IF p = 0 THEN ids ELSE shown \o NewOnes(shown, ids)

(* A page the browser has is shown at once, and is read again. *)
GoesTo(p, shown) ==
  usageList' = [usageList EXCEPT !.open = TRUE, !.page = p, !.reading = TRUE,
                                 !.shown = IF cachedPages[p].known THEN PageAdded(shown, p, cachedPages[p].ids) ELSE shown]
OpenUsage ==
  /\ ~usageList.open
  /\ GoesTo(0, <<>>)
  /\ UNCHANGED <<made, today, meterRead, cachedPages, cachedRanges>>

LeaveUsage ==
  /\ usageList.open
  /\ usageList' = [Unopened EXCEPT !.range = usageList.range]
  /\ UNCHANGED <<made, today, meterRead, cachedPages, cachedRanges>>

LoadMoreIsOffered == usageList.open /\ ~usageList.reading /\ cachedPages[usageList.page].more
LoadMore ==
  /\ LoadMoreIsOffered
  /\ GoesTo(usageList.page + 1, usageList.shown)
  /\ UNCHANGED <<made, today, meterRead, cachedPages, cachedRanges>>

LookAtUsageAgain ==
  /\ usageList.open /\ ~usageList.reading
  /\ usageList' = [usageList EXCEPT !.reading = TRUE]
  /\ UNCHANGED <<made, today, meterRead, cachedPages, cachedRanges>>

GetUsageEvents ==
  /\ usageList.open /\ usageList.reading
  /\ LET page == PageOf(usageList.page)
     IN /\ cachedPages' = [cachedPages EXCEPT ![usageList.page] = page]
        /\ usageList' = [usageList EXCEPT !.reading = FALSE, !.shown = PageAdded(@, usageList.page, page.ids)]
  /\ UNCHANGED <<made, today, meterRead, cachedRanges>>

ReadingFails ==
  /\ usageList.reading
  /\ usageList' = [usageList EXCEPT !.reading = FALSE]
  /\ UNCHANGED <<made, today, meterRead, cachedPages, cachedRanges>>

(* The chart and the tiles are of a range, which is remembered, and of the totals read for that range; what is exported is
   of the range as it is when the button is pressed. *)
Totals(range) == [known |-> TRUE, used |-> IF range = "today" THEN today ELSE made]
ChartShows == cachedRanges[usageList.range]
NothingUsed == ChartShows.known /\ ChartShows.used = 0
SetRange == \E range \in Ranges \ {usageList.range} :
  /\ usageList.open
  /\ usageList' = [usageList EXCEPT !.range = range]
  /\ UNCHANGED <<made, today, meterRead, cachedPages, cachedRanges>>

GetUsageInsights ==
  /\ usageList.open
  /\ cachedRanges' = [cachedRanges EXCEPT ![usageList.range] = Totals(usageList.range)]
  /\ UNCHANGED <<made, today, meterRead, cachedPages, usageList>>

ExportCsv ==
  /\ usageList.open /\ ~NothingUsed /\ ~usageList.exporting
  /\ usageList' = [usageList EXCEPT !.exporting = TRUE]
  /\ UNCHANGED <<made, today, meterRead, cachedPages, cachedRanges>>
Exported ==
  /\ usageList.exporting
  /\ usageList' = [usageList EXCEPT !.exporting = FALSE]
  /\ UNCHANGED <<made, today, meterRead, cachedPages, cachedRanges>>

UsageNext ==
  \/ UsesAI \/ DayEnds \/ ReadMeter \/ GetUsageToday
  \/ OpenUsage \/ LeaveUsage \/ LoadMore \/ LookAtUsageAgain \/ GetUsageEvents \/ ReadingFails \/ SetRange \/ GetUsageInsights \/ ExportCsv \/ Exported

UsageSpec == UsageInit /\ [][UsageNext]_usageVars

-----------------------------------------------------------------------------
UsageTypeOK ==
  /\ made <= MaxMade /\ today <= DayLimit
  /\ meterRead.figures.used <= DayLimit
  /\ usageList.page \in PagesMade /\ usageList.range \in Ranges
  /\ ToSet(usageList.shown) \subseteq 1..MaxMade

(* No request is listed twice, however far the list moved between the pages that were read, and whatever earlier visits
   left in the cache (UsageInsights, the effect that adds a page). *)
ListedOnce == IsInjective(usageList.shown)

-----------------------------------------------------------------------------
(* Why it is so. *)

Listing == {ids \in Seq(Nat) : \A i, j \in 1..Len(ids) : ids[i] = ids[j] => i = j}

(* A page that says there are more is followed by one, since requests are  *)
(* only added. *)
PageFits(p) ==
  LET page == cachedPages[p]
  IN  /\ page = [known |-> page.known, ids |-> page.ids, more |-> page.more]
      /\ page.ids \in Listing
      /\ page.more => (p + 1) * PageSize < made

UsageInvariant ==
  /\ made \in 0..MaxMade
  /\ usageList = [open |-> usageList.open, page |-> usageList.page, reading |-> usageList.reading,
                  shown |-> usageList.shown, range |-> usageList.range, exporting |-> usageList.exporting]
  /\ usageList.page \in PagesMade /\ usageList.shown \in Listing
  /\ cachedPages = [p \in PagesMade |-> cachedPages[p]]
  /\ \A p \in PagesMade : PageFits(p)
=============================================================================
