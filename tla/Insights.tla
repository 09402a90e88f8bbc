------------------------------ MODULE Insights ------------------------------
(***************************************************************************)
(* What all tastings together yield: the discovery cards and the taste     *)
(* profile.  Runs of session B refresh the profile and look for patterns,  *)
(* calls of the discovery service store a candidate or hide a card; every  *)
(* await on the table is an action.                                        *)
(***************************************************************************)
EXTENDS Integers, FiniteSets, Sequences

CONSTANTS Patterns,        \* (groupBy, key) pairs a candidate may have
          Runs,            \* runs of session B and service calls that may overlap
          MaxTastings,     \* tastings altogether
          MaxRuns,         \* runs and calls altogether
          MaxCards,        \* cards altogether
          ProfileEvery,    \* PROFILE_MIN_TASTINGS
          DiscoveryMin,    \* DISCOVERY_MIN_TASTINGS
          DiscoveryStep,   \* DISCOVERY_MIN_INCREMENT
          MinSample        \* DISCOVERY_THRESHOLDS.minSampleSize

ASSUME InsightsAssumption ==
    /\ {MaxTastings, MaxRuns, MaxCards, DiscoveryMin, DiscoveryStep} \subseteq Nat
    /\ {ProfileEvery, MinSample} \subseteq Nat \ {0}

VARIABLES tastingCount,   \* TASTING items, with or without an analysis
          cards,          \* the DISCOVERY items, in the order of their creation
          profile,        \* the PROFILE item
          job,            \* what each run or call is doing
          runsLeft

insightsVars == <<tastingCount, cards, profile, job, runsLeft>>

Card == [pattern : Patterns, n : Nat, hidden : BOOLEAN, rev : Nat]
NoProfile == [exists |-> FALSE, tastings |-> 0, rev |-> 0]

\* known: what a run has listed of the cards; k, had, rev: the card it means to patch.
\* settled (history): when it read the profile no run was about to put a first one.
NoJob == [pc |-> "idle", known |-> {}, pattern |-> "none", n |-> 0, k |-> 0, had |-> 0, rev |-> 0,
          tastings |-> 0, saw |-> NoProfile, settled |-> FALSE]

Cards == 1..Len(cards)
Listing == {[pattern |-> cards[k].pattern, hidden |-> cards[k].hidden] : k \in Cards}

InsightsInit ==
    /\ tastingCount = 0 /\ cards = <<>> /\ profile = NoProfile
    /\ job = [r \in Runs |-> NoJob] /\ runsLeft = MaxRuns

-----------------------------------------------------------------------------
(* Judgements                                                              *)

\* shouldRefreshProfile: the number of tastings is a multiple.
ShouldRefreshProfile(n) == n > 0 /\ n % ProfileEvery = 0

\* lastDiscoveryRunCount is the largest sample of any card.
LastRunCount == IF cards = <<>> THEN 0
                ELSE CHOOSE m \in {cards[k].n : k \in Cards} : \A k \in Cards : cards[k].n <= m

ShouldRunDiscovery(n, last) == n >= DiscoveryMin /\ n - last >= DiscoveryStep

\* A hidden card counts as well.
IsDuplicate(p, known) == \E card \in known : card.pattern = p

-----------------------------------------------------------------------------
(* Runs of session B                                                       *)

Set(r, j) == job' = [job EXCEPT ![r] = j]
Only(r, j) == Set(r, j) /\ UNCHANGED <<tastingCount, cards, profile, runsLeft>>
Starts(r, j) ==
    /\ job[r].pc = "idle" /\ runsLeft > 0 /\ runsLeft' = runsLeft - 1
    /\ Set(r, j) /\ UNCHANGED <<tastingCount, cards, profile>>

\* A tasting is created.
AddTasting ==
    /\ tastingCount < MaxTastings /\ tastingCount' = tastingCount + 1
    /\ UNCHANGED <<cards, profile, job, runsLeft>>

\* refresh_taste_profile is reached: the tastings are counted ...
RefreshBegins(r) ==
    /\ tastingCount > 0
    /\ Starts(r, [NoJob EXCEPT !.pc = IF ShouldRefreshProfile(tastingCount) THEN "load" ELSE "judge"])

\* ... and, if it runs, loaded once more.
RefreshLoads(r) ==
    /\ job[r].pc = "load"
    /\ Only(r, [job[r] EXCEPT !.pc = "narrate", !.tastings = tastingCount])

\* After the agent has written the narrative the profile is read.
RefreshRead(r) ==
    /\ job[r].pc = "narrate"
    /\ Only(r, [job[r] EXCEPT !.pc = "profile", !.saw = profile,
                   !.settled = \A q \in Runs : job[q].pc = "profile" => job[q].saw.exists])

ProfileOf(r) == [exists |-> TRUE, tastings |-> job[r].tastings,
                 rev |-> IF job[r].saw.exists THEN job[r].saw.rev + 1 ELSE 0]

RefreshWriteBlind(r) ==          \* mutant: the patch does not ask for the rev
    /\ job[r].pc = "profile" /\ profile' = ProfileOf(r)
    /\ Set(r, [NoJob EXCEPT !.pc = "judge"])
    /\ UNCHANGED <<tastingCount, cards, runsLeft>>

\* putProfile over nothing, patchProfile with the rev read; a conflict ends the run.
RefreshWrite(r) ==
    /\ job[r].pc = "profile"
    /\ IF job[r].saw.exists /\ profile.rev # job[r].saw.rev THEN Only(r, NoJob) ELSE
       /\ profile' = ProfileOf(r) /\ Set(r, [NoJob EXCEPT !.pc = "judge"])
       /\ UNCHANGED <<tastingCount, cards, runsLeft>>

\* run_discovery is reached: the two counts, read side by side, decide ...
DiscoveryBegins(r) ==
    /\ job[r].pc = "judge"
    /\ Only(r, IF ShouldRunDiscovery(tastingCount, LastRunCount)
               THEN [NoJob EXCEPT !.pc = "list"] ELSE NoJob)

\* ... and the node lists the cards, once.
DiscoveryLists(r) ==
    /\ job[r].pc = "list" /\ Only(r, [job[r] EXCEPT !.pc = "propose", !.known = Listing])

NewCard(p, n) == [pattern |-> p, n |-> n, hidden |-> FALSE, rev |-> 0]

\* The agent's next candidate: dropped below the sample threshold and where the
\* list of the beginning has its pattern, else stored.  n counts those stored.
Propose(r) ==
    /\ job[r].pc = "propose"
    /\ \E p \in Patterns, n \in 1..tastingCount :
          /\ Len(cards) < MaxCards
          /\ n >= MinSample /\ ~IsDuplicate(p, job[r].known)
          /\ cards' = Append(cards, NewCard(p, n))
          /\ Set(r, [job[r] EXCEPT !.n = @ + 1])
          /\ UNCHANGED <<tastingCount, profile, runsLeft>>

\* No further candidate; what the agent answered may also not parse at all.
DiscoveryEnds(r) == job[r].pc = "propose" /\ Only(r, NoJob)

-----------------------------------------------------------------------------
(* The discovery service                                                   *)

\* upsertDiscovery lists the cards and looks for the newest one of the pattern.
UpsertBegins(r) ==
    \E p \in Patterns, n \in MinSample..tastingCount :
        LET same == {k \in Cards : cards[k].pattern = p}
            k    == IF same = {} THEN 0 ELSE CHOOSE x \in same : \A y \in same : y <= x
        IN  Starts(r, [NoJob EXCEPT !.pc = "upsert", !.pattern = p, !.n = n, !.k = k,
                          !.had = IF k = 0 THEN 0 ELSE cards[k].n,
                          !.rev = IF k = 0 THEN 0 ELSE cards[k].rev])

UpsertWriteUnhides(r) ==         \* mutant: the card is written as a new one
    LET j == job[r] IN
    /\ j.pc = "upsert"
    /\ IF j.k # 0 /\ (j.n <= j.had \/ cards[j.k].rev # j.rev) THEN Only(r, NoJob) ELSE
       /\ cards' = IF j.k = 0 THEN Append(cards, NewCard(j.pattern, j.n))
                   ELSE [cards EXCEPT ![j.k] = [NewCard(j.pattern, j.n) EXCEPT !.rev = j.rev + 1]]
       /\ Set(r, NoJob) /\ UNCHANGED <<tastingCount, profile, runsLeft>>

\* It creates the card, or patches it with the rev listed if the sample has grown.
UpsertWrite(r) ==
    LET j == job[r] IN
    /\ j.pc = "upsert" /\ (j.k = 0 => Len(cards) < MaxCards)
    /\ IF j.k # 0 /\ (j.n <= j.had \/ cards[j.k].rev # j.rev) THEN Only(r, NoJob) ELSE
       /\ cards' = IF j.k = 0 THEN Append(cards, NewCard(j.pattern, j.n))
                   ELSE [cards EXCEPT ![j.k].n = j.n, ![j.k].rev = @ + 1]
       /\ Set(r, NoJob) /\ UNCHANGED <<tastingCount, profile, runsLeft>>

\* hideDiscovery: one get, then the patch with the rev of the page.
HideBegins(r) ==
    /\ \E k \in Cards : Starts(r, [NoJob EXCEPT !.pc = "hide", !.k = k, !.rev = cards[k].rev])
HideWriteBlind(r) ==             \* mutant: the patch does not ask for the rev
    LET j == job[r] IN
    /\ j.pc = "hide"
    /\ cards' = [cards EXCEPT ![j.k].hidden = TRUE, ![j.k].rev = @ + 1]
    /\ Set(r, NoJob) /\ UNCHANGED <<tastingCount, profile, runsLeft>>
HideWrite(r) ==
    LET j == job[r] IN
    /\ j.pc = "hide"
    /\ IF cards[j.k].rev # j.rev THEN Only(r, NoJob) ELSE
       /\ cards' = [cards EXCEPT ![j.k].hidden = TRUE, ![j.k].rev = @ + 1]
       /\ Set(r, NoJob) /\ UNCHANGED <<tastingCount, profile, runsLeft>>

\* listVisibleDiscoveries: what the profile page shows.
Visible == {k \in Cards : ~cards[k].hidden}

InsightsNext ==
    \/ AddTasting
    \/ \E r \in Runs :
          \/ RefreshBegins(r) \/ RefreshLoads(r) \/ RefreshRead(r) \/ RefreshWrite(r)
          \/ DiscoveryBegins(r) \/ DiscoveryLists(r) \/ Propose(r) \/ DiscoveryEnds(r)
          \/ UpsertBegins(r) \/ UpsertWrite(r) \/ HideBegins(r) \/ HideWrite(r)

InsightsSpec == InsightsInit /\ [][InsightsNext]_insightsVars

-----------------------------------------------------------------------------
(* The cards as the rows of a store.                                       *)

CardKeys == 1..MaxCards
CardData == [pattern : Patterns \union {"none"}, n : Nat, hidden : BOOLEAN]
NoCard == [pattern |-> "none", n |-> 0, hidden |-> FALSE]
CardRow(k) ==
    IF k \in Cards
    THEN [state |-> "stored", data |-> [pattern |-> cards[k].pattern, n |-> cards[k].n,
                                        hidden |-> cards[k].hidden]]
    ELSE [state |-> "fresh", data |-> NoCard]

\* The calls that mean to patch a card with the rev they have read.
Intends(j) == j.pc \in {"upsert", "hide"} /\ j.k # 0
CardIntent(j) == [key     |-> IF Intends(j) THEN j.k ELSE 0,
                  current |-> Intends(j) /\ cards[j.k].rev = j.rev]

CardRows == [k \in CardKeys |-> CardRow(k)]
CardIntents == [r \in Runs |-> CardIntent(job[r])]

CardStore == INSTANCE RevStore WITH Keys <- CardKeys, Clients <- Runs, Data <- CardData,
                                    NoKey <- 0, row <- CardRows, intent <- CardIntents

-----------------------------------------------------------------------------
(* Properties                                                              *)

InsightsTypeOK ==
    /\ tastingCount \in Nat /\ runsLeft \in Nat
    /\ \A k \in Cards : cards[k] \in Card
    /\ profile \in [exists : BOOLEAN, tastings : Nat, rev : Nat]
    /\ \A r \in Runs : job[r].k \in 0..Len(cards) /\ job[r].rev \in Nat

\* A card an editor has hidden is not shown again, whatever sample grows meanwhile, and
\* the sample of a card only grows, however upserts overlap.
CardsKept == [][\A k \in Cards : /\ k \notin Visible => k \notin Visible'
                                 /\ cards'[k].n >= cards[k].n]_insightsVars

\* A run of run_discovery shows no pattern of which it found a card when it began,
\* be it one that an editor had hidden.
NotProposedAgain ==
    [][\A r \in Runs : job[r].pc = "propose" /\ job'[r].n > job[r].n
          => \A card \in job[r].known : card.pattern # cards'[Len(cards')].pattern]_insightsVars

\* Once the profile exists and nobody is about to put a first one, no refresh is
\* lost: of two runs that have read the same profile the second fails.
ProfileAsRead ==
    [][\A r \in Runs : /\ job[r].pc = "profile" /\ job'[r].pc = "judge"
                       /\ job[r].saw.exists /\ job[r].settled
          => profile = job[r].saw]_insightsVars

\* Of the upserts and hidings that have read the same card the first to write wins,
\* and a card changes in no other way; candidates and upserts only add to the cards.
CardsFirstWin == CardStore!StoreSpec
=============================================================================
