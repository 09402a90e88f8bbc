------------------------------- MODULE Pages -------------------------------
(***************************************************************************)
(* What the public pages and the agent's calculations say of the tastings  *)
(* (lib/views/read.ts, lib/domain/profile.ts, lib/domain/stats.ts).  Each  *)
(* page reads the table for itself and works the rating out for itself.    *)
(* A tasting is listed by the date it was created with: patchItem          *)
(* (lib/db/repository.ts) leaves the index key of an item as it was put.   *)
(***************************************************************************)
EXTENDS Integers, Sequences, FiniteSets, Functions

CONSTANTS MaxRecords,                   \* tastings
          Bottles,                      \* the wines' ids
          Dates,                        \* tastedAt
          MaxEdits,                     \* bound: ratings, dates, wines changed
          ProfileMin,                   \* PROFILE_MIN_TASTINGS
          ReferenceBelow                \* PROFILE_REFERENCE_SAMPLE_THRESHOLD

ASSUME PagesAssumption == /\ {MaxRecords, MaxEdits, ProfileMin, ReferenceBelow} \subseteq Nat
                          /\ Dates \subseteq Nat

Ids == 1 .. MaxRecords                  \* in the order of the table's index
NoBottle == "no bottle"
Unrated == 0
Scores == {2, 4}                        \* one that counts as disliked, one as liked

VARIABLES shelf,                        \* the tastings of the table, with their analyses
          edits                         \* history: changes made, a bound

pagesVars == <<shelf, edits>>

Blank == [there |-> FALSE, bottle |-> NoBottle, life |-> "collecting", date |-> 0, slot |-> 0,
          manual |-> Unrated, ai |-> Unrated, heard |-> FALSE, job |-> "none"]

ShelfItem == [there : BOOLEAN, bottle : Bottles \cup {NoBottle},
              life : {"none", "collecting", "awaiting_audio", "polishing", "ready"},
              date : Dates \cup {0}, slot : Dates \cup {0},
              manual : Scores \cup {Unrated}, ai : Scores \cup {Unrated},
              heard : BOOLEAN, job : {"none", "open", "failed", "completed"}]

PagesTypeOK == shelf \in [Ids -> ShelfItem] /\ edits \in 0 .. MaxEdits

PagesInit == /\ shelf = [i \in Ids |-> Blank]
             /\ edits = 0

-----------------------------------------------------------------------------
(* What changes the table.                                                 *)

Edit == edits < MaxEdits /\ edits' = edits + 1
Present(i) == shelf[i].there

\* POST /api/tastings, with the label scanned or without a wine.
StartItem(i, b, d) ==
    /\ ~Present(i)
    /\ shelf' = [shelf EXCEPT ![i].there = TRUE, ![i].bottle = b, ![i].date = d, ![i].slot = d,
                              ![i].life = IF b = NoBottle THEN "collecting" ELSE "awaiting_audio"]
    /\ UNCHANGED edits

\* A tasting stored before there was a lifecycle, which the schema lets a row leave out:
\* at that time a tasting had its wine from the start.
OlderItem(i, b, d) ==
    /\ ~Present(i)
    /\ shelf' = [shelf EXCEPT ![i].there = TRUE, ![i].bottle = b, ![i].date = d, ![i].slot = d,
                              ![i].life = "none"]
    /\ UNCHANGED edits

\* A recording is registered and uploaded; its job is queued.
HearItem(i) == /\ Present(i) /\ ~shelf[i].heard
               /\ shelf' = [shelf EXCEPT ![i].heard = TRUE, ![i].job = "open"]
               /\ UNCHANGED edits

AttachBottle(i, b) ==
    /\ Present(i) /\ Edit
    /\ shelf' = [shelf EXCEPT ![i].bottle = b,
                              ![i].life = IF shelf[i].heard THEN "polishing" ELSE "awaiting_audio"]

\* persistAndPublish: the analysis, the job, the lifecycle.  A recording without speech gets
\* no rating (r is Unrated), and the patch of an analysis that has one leaves it there.
PublishItem(i, r) ==
    /\ Present(i) /\ shelf[i].job = "open"
    /\ shelf' = [shelf EXCEPT ![i].ai = IF r = Unrated THEN @ ELSE r, ![i].job = "completed", ![i].life = "ready"]
    /\ UNCHANGED edits

FailItem(i) == /\ Present(i) /\ shelf[i].job = "open"
               /\ shelf' = [shelf EXCEPT ![i].job = "failed"]
               /\ UNCHANGED edits

ReanalyzeItem(i) == /\ Present(i) /\ shelf[i].job \in {"failed", "completed"}
                    /\ Edit
                    /\ shelf' = [shelf EXCEPT ![i].job = "open"]

\* PATCH /api/tastings/[id]: a rating cannot be taken back; the index keeps the first date.
RateItem(i, r) == Present(i) /\ Edit /\ shelf' = [shelf EXCEPT ![i].manual = r]
RedateItem(i, d) == Present(i) /\ Edit /\ shelf' = [shelf EXCEPT ![i].date = d]

EraseItem(i) == /\ Present(i) /\ Edit
                /\ shelf' = [shelf EXCEPT ![i] = Blank]

PagesNext == \E i \in Ids :
    \/ \E b \in Bottles \cup {NoBottle}, d \in Dates : StartItem(i, b, d)
    \/ \E b \in Bottles, d \in Dates : OlderItem(i, b, d)
    \/ HearItem(i)
    \/ \E b \in Bottles : AttachBottle(i, b)
    \/ \E r \in Scores \cup {Unrated} : PublishItem(i, r)
    \/ FailItem(i)
    \/ ReanalyzeItem(i)
    \/ \E r \in Scores : RateItem(i, r)
    \/ \E d \in Dates : RedateItem(i, d)
    \/ EraseItem(i)

PagesSpec == PagesInit /\ [][PagesNext]_pagesVars

-----------------------------------------------------------------------------
(* The pages.                                                              *)

Listed == {i \in Ids : Present(i)}
\* A row without a lifecycle counts as ready.
IsPublished(i) == Present(i) /\ shelf[i].bottle # NoBottle /\ shelf[i].life \in {"none", "ready"}

\* toTastingSummary: the editor's rating before the model's.
DisplayRating(i) == IF shelf[i].manual # Unrated THEN shelf[i].manual ELSE shelf[i].ai
DisplayAiFirst(i) == IF shelf[i].ai # Unrated THEN shelf[i].ai ELSE shelf[i].manual  \* mutant
SummaryRating(i) == DisplayRating(i)

\* An order says of each tasting which ones come after it.  listByType: the index orders
\* by the date of creation, then the id.
OldestFirst == [i \in Ids |-> {j \in Ids :
                   \/ shelf[i].slot < shelf[j].slot
                   \/ shelf[i].slot = shelf[j].slot /\ i < j}]
NewestFirst == [i \in Ids |-> {j \in Ids : i \in OldestFirst[j]}]

\* A list in an order; a stable sort leaves what compares equal in the order it had.
InOrder(list, order) == \A m, n \in DOMAIN list : m < n => list[n] \in order[list[m]]
Sorted(S, order) == CHOOSE list \in [1 .. Cardinality(S) -> S] : InOrder(list, order)
Stable(by, order) == [i \in Ids |-> {j \in Ids : j \in by[i] \/ (i \notin by[j] /\ j \in order[i])}]

\* getTimelineView; the dashboard, the feed and the site map cut it.
OnTimeline == {i \in Ids : IsPublished(i)}
Timeline == Sorted(OnTimeline, NewestFirst)

ByRating == [i \in Ids |-> {j \in Ids :
                \/ SummaryRating(i) > SummaryRating(j)
                \/ SummaryRating(i) = SummaryRating(j) /\ shelf[i].date > shelf[j].date}]
Rated(S) == {i \in S : SummaryRating(i) # Unrated}
Ranking == Sorted(Rated(OnTimeline), Stable(ByRating, NewestFirst))

\* listTastingsForWine: sorted by the present date, oldest first.
ByDate == [i \in Ids |-> {j \in Ids : shelf[i].date < shelf[j].date}]
HistoryOf(b) == {i \in OnTimeline : shelf[i].bottle = b}
WineHistory(b) == Sorted(HistoryOf(b), Stable(ByDate, OldestFirst))
RatingTrend(b) == Sorted(Rated(HistoryOf(b)), Stable(ByDate, OldestFirst))

\* getTastingDetailView.
DetailRating(i) == DisplayRating(i)

\* getWineListView: of every tasting of the wine, published or not.
WineTastings(b) == {i \in Listed : shelf[i].bottle = b}
WineRatings(b) == {i \in WineTastings(b) : DisplayRating(i) # Unrated}

\* getIncompleteTastingCaptureView.
NeedsWine == {i \in Listed : shelf[i].bottle = NoBottle /\ shelf[i].heard}
NeedsAudio == {i \in Listed : shelf[i].bottle # NoBottle /\ ~shelf[i].heard}

-----------------------------------------------------------------------------
(* The calculations.  A wine's attributes are its grape and its country,   *)
(* which all the wines here share.                                         *)

Keys(i) == IF shelf[i].bottle = NoBottle THEN {} ELSE {shelf[i].bottle, "country"}
RatingOf(i) == IF shelf[i].manual # Unrated THEN shelf[i].manual ELSE shelf[i].ai

\* computeStats over every tasting, for the metric ratioAtOrAbove4.
Group(key) == {i \in Listed : RatingOf(i) # Unrated /\ key \in Keys(i)}
HitsOf(group) == {i \in group : RatingOf(i) >= 4}

\* collectAttributes: the attributes of the tastings with one of the scores.
Attributes(scores) ==
    LET met == {i \in Listed : RatingOf(i) \in scores}
        having(key) == {i \in met : key \in Keys(i)}
    IN  [key \in UNION {Keys(i) : i \in met} |->
            [n |-> Cardinality(having(key)), sum |-> SumFunction([i \in having(key) |-> RatingOf(i)]),
             grade |-> IF Cardinality(having(key)) < ReferenceBelow THEN "reference" ELSE "solid"]]

\* buildTasteProfile over every tasting, as refreshProfile would run it now.
ProfileActive == Cardinality(Listed) >= ProfileMin
Liked == IF ProfileActive THEN Attributes({r \in Scores : r >= 4}) ELSE <<>>
Disliked == IF ProfileActive THEN Attributes({r \in Scores : r <= 2}) ELSE <<>>

\* assessFit of a wine with these attributes.
Fit(keys) ==
    LET likes == keys \cap DOMAIN Liked # {}
        dislikes == keys \cap DOMAIN Disliked # {}
    IN  CASE ~ProfileActive \/ ~(likes \/ dislikes) -> "unknown"
          [] likes /\ dislikes -> "challenging"
          [] likes /\ ~dislikes -> "perfect"
          [] OTHER -> "dislike"

-----------------------------------------------------------------------------
(* A tasting has one rating wherever it is shown.  The ranking lists the   *)
(* rated tastings of the timeline once each, best first, and so do the     *)
(* trends of the wines, in the order of their dates.                       *)
RatingsAgree ==
    /\ \A i \in Range(Timeline) : DetailRating(i) = SummaryRating(i)
    /\ IsInjective(Ranking)
    /\ Range(Ranking) = {i \in Range(Timeline) : DetailRating(i) # Unrated}
    /\ \A m, n \in DOMAIN Ranking : m < n => DetailRating(Ranking[m]) >= DetailRating(Ranking[n])
    /\ Range(Ranking) = UNION {Range(RatingTrend(b)) : b \in Bottles}
    /\ \A b \in Bottles : LET trend == RatingTrend(b)
                          IN  \A m, n \in DOMAIN trend :
                                  m < n => shelf[trend[m]].date <= shelf[trend[n]].date

(* A wine all of whose tastings are published has the mean of its trend on *)
(* the list of wines, although the list counts the others too.             *)
MeansAgree ==
    \A b \in Bottles :
        (\A i \in WineTastings(b) : IsPublished(i)) =>
            /\ Cardinality(WineTastings(b)) = Len(WineHistory(b))
            /\ SumFunction([i \in WineRatings(b) |-> DetailRating(i)])
                = SumFunction([i \in Range(RatingTrend(b)) |-> SummaryRating(i)])

(* A capture is offered for completion for one missing input at most, and  *)
(* no public page shows it, save a row from before the lifecycle: without  *)
(* a recording it is both published and offered for one.                   *)
OfferedApart == /\ NeedsWine \cap NeedsAudio = {}
                /\ \A i \in Range(Timeline) \cap (NeedsWine \cup NeedsAudio) :
                       i \in NeedsAudio /\ shelf[i].life = "none"

(* The profile's evidence for an attribute is what the statistics count,   *)
(* and the fit shown for a wine contradicts no rating: a wine with an      *)
(* attribute rated 4 is never disliked, one with an attribute rated 2      *)
(* never perfect.                                                          *)
FitAsRated ==
    ProfileActive =>
        /\ \A key \in DOMAIN Liked : Liked[key].n = Cardinality(HitsOf(Group(key)))
        /\ \A i \in Listed : Keys(i) # {} /\ DetailRating(i) # Unrated =>
               Fit(Keys(i)) \notin {"unknown", IF DetailRating(i) >= 4 THEN "dislike" ELSE "perfect"}

(* The pages and the calculations, each of which reads the table and works *)
(* a tasting's rating out for itself, agree (read.ts, profile.ts and       *)
(* stats.ts repeat the rule in five places).                               *)
PagesAgree == RatingsAgree /\ MeansAgree /\ OfferedApart /\ FitAsRated
=============================================================================
