-------------------------------- MODULE Diary --------------------------------
(***************************************************************************)
(* The service calls on ONE tasting and the items of its partition: the    *)
(* wine attachment, edits, recordings, speaker corrections, food photos    *)
(* and the deletion, beside a run of session B.  Every await on the table  *)
(* is an action.  An editor's call carries the rev its page showed when    *)
(* the call began; other calls finish before it writes.                    *)
(***************************************************************************)
EXTENDS Integers, FiniteSets

CONSTANTS Takes,           \* recordings that may be registered
          Photos,          \* keys of uploaded food photos
          Callers,         \* service calls that may overlap
          MaxTakes,        \* MAX_RECORDINGS_PER_TASTING
          MaxPhotos,       \* MAX_FOOD_PHOTOS_PER_TASTING
          MaxDiaryCalls,   \* calls altogether
          MaxDrops         \* calls that stop between two awaits

ASSUME DiaryAssumption ==
    /\ MaxTakes \in Nat /\ MaxPhotos \in Nat /\ MaxDiaryCalls \in Nat \ {0} /\ MaxDrops \in Nat
    /\ IsFiniteSet(Takes) /\ IsFiniteSet(Photos) /\ IsFiniteSet(Callers) /\ Callers # {}
    /\ MaxTakes <= Cardinality(Takes) /\ MaxPhotos <= Cardinality(Photos)

SessionB == "session B"
ASSUME SessionBAssumption == SessionB \notin Callers

VARIABLES meta,      \* the META item
          take,      \* the REC# items
          review,    \* the ANALYSIS item
          queued,    \* whether the JOB item is there
          act,       \* what each caller is doing
          agent,     \* the run of session B
          answered,  \* the last answer each caller got
          budget     \* what is left of the bounds

diaryVars == <<meta, take, review, queued, act, agent, answered, budget>>
partition == <<meta, take, review, queued>>

Life == {"none", "collecting", "awaiting_audio", "polishing", "ready"}
Mapping == {"none", "auto", "manual"}

NoMeta == [life |-> "none", photos |-> {}, rev |-> 0]
NoTake == [exists |-> FALSE, mapping |-> "none", rev |-> 0]
\* used is history: what rev of META the pages of the text's editors showed.
NoReview == [exists |-> FALSE, used |-> {}, rev |-> 0]

\* calm is history: nobody else has written since the call began.
NoAct == [pc |-> "idle", op |-> "none", rev |-> 0, seen |-> "none", of |-> {}, text |-> FALSE,
          had |-> {}, todo |-> {}, calm |-> TRUE]
NoRun == [pc |-> "off", of |-> {}, rev |-> 0, saw |-> "none"]

Exists == meta.life # "none"
Taken == {r \in Takes : take[r].exists}
Speaking == {r \in Takes : take[r].exists /\ take[r].mapping # "none"}

DiaryInit ==
    /\ meta = NoMeta /\ take = [r \in Takes |-> NoTake] /\ review = NoReview
    /\ queued = FALSE /\ agent = NoRun
    /\ act = [c \in Callers |-> NoAct] /\ answered = [c \in Callers |-> "none"]
    /\ budget = [calls |-> MaxDiaryCalls, drops |-> MaxDrops]

-----------------------------------------------------------------------------
(* Steps of a call                                                         *)

At(c, op, pc) == act[c].op = op /\ act[c].pc = pc

\* The caller goes on without having written.
Goes(c, a) == act' = [act EXCEPT ![c] = a]

\* The caller has written and goes on, or is done: nobody else is calm any more.
Wrote(c, a) ==
    /\ act' = [d \in Callers |-> IF d = c THEN a
                                 ELSE [act[d] EXCEPT !.calm = act[d].pc = "idle"]]

Answer(c, what) == answered' = [answered EXCEPT ![c] = what]

\* The call ends without a further write.
Refuse(c, what) == Goes(c, NoAct) /\ Answer(c, what) /\ UNCHANGED <<partition, agent, budget>>

Reads(c, pc) ==
    /\ Goes(c, [act[c] EXCEPT !.pc = pc])
    /\ UNCHANGED <<partition, agent, answered, budget>>

\* createTasting, with or without a wine.
CreateTasting ==
    /\ ~Exists /\ budget.calls = MaxDiaryCalls
    /\ \E wine \in BOOLEAN :
          meta' = [NoMeta EXCEPT !.life = IF wine THEN "awaiting_audio" ELSE "collecting"]
    /\ budget' = [budget EXCEPT !.calls = @ - 1]
    /\ UNCHANGED <<take, review, queued, act, agent, answered>>

\* Ids and keys are new for every recording and photo, and all alike.
Some(n, S) == CHOOSE T \in SUBSET S : Cardinality(T) = n
NextId == LET free == {r \in Takes \ Taken : \A d \in Callers : act[d].of # {r}}
          IN  IF free = {} THEN {} ELSE Some(1, free)

\* Or the tasting is there already, as calls one after the other and a finished
\* analysis have left it.
Established ==
    /\ ~Exists /\ budget.calls = MaxDiaryCalls
    /\ \E takes \in 1..MaxTakes, photos \in 0..MaxPhotos :
          LET done == Some(takes, Takes)
              ps   == Some(photos, Photos) IN
          /\ meta' = [life |-> "ready", photos |-> ps, rev |-> 0]
          /\ take' = [r \in Takes |-> IF r \in done
                                      THEN [exists |-> TRUE, mapping |-> "auto", rev |-> 0] ELSE NoTake]
    /\ review' = [NoReview EXCEPT !.exists = TRUE] /\ queued' = TRUE
    /\ budget' = [budget EXCEPT !.calls = @ - 1]
    /\ UNCHANGED <<act, agent, answered>>

Calls(c, a) ==
    /\ act[c].pc = "idle" /\ budget.calls > 0 /\ Exists
    /\ act' = [act EXCEPT ![c] = a]
    /\ answered' = [answered EXCEPT ![c] = "none"]
    /\ budget' = [budget EXCEPT !.calls = @ - 1]
    /\ UNCHANGED <<partition, agent>>

CallAttach(c) == Calls(c, [NoAct EXCEPT !.pc = "read", !.op = "attach"])
CallUpdate(c) ==
    \E text \in BOOLEAN :
        Calls(c, [NoAct EXCEPT !.pc = "patch", !.op = "update", !.rev = meta.rev, !.text = text])
CallRecord(c) == \E r \in NextId :
    Calls(c, [NoAct EXCEPT !.pc = "read", !.op = "record", !.of = {r}])
CallOverride(c) == \E r \in Speaking :
    Calls(c, [NoAct EXCEPT !.pc = "read", !.op = "override", !.of = {r}, !.rev = take[r].rev,
                           !.seen = take[r].mapping])
CallPhoto(c) == \E op \in {"add", "remove"}, p \in Photos :
    /\ op = "remove" => p \in meta.photos
    /\ Calls(c, [NoAct EXCEPT !.pc = "read", !.op = op, !.of = {p}, !.rev = meta.rev])
CallDelete(c) == Calls(c, [NoAct EXCEPT !.pc = "read", !.op = "delete"])

\* patchTasting with the rev the caller has: refused unless it is META's.
Current(c) == Exists /\ meta.rev = act[c].rev
PatchMeta(c, m, a) ==
    /\ meta' = [m EXCEPT !.rev = @ + 1]
    /\ Wrote(c, a)
    /\ UNCHANGED <<take, review, queued, agent, budget>>

\* attachWineToTasting: the tasting, the wine, the bundle, then the patch with
\* the rev of the first read.
AttachRead(c) ==
    /\ At(c, "attach", "read")
    /\ \/ ~Exists /\ Refuse(c, "not_found")
       \/ Exists /\ Refuse(c, "no_wine")
       \/ /\ Exists /\ Goes(c, [act[c] EXCEPT !.pc = "bundle", !.rev = meta.rev])
          /\ UNCHANGED <<partition, agent, answered, budget>>
AttachBundle(c) ==
    /\ At(c, "attach", "bundle")
    /\ Goes(c, [act[c] EXCEPT !.pc = "patch", !.had = Taken])
    /\ UNCHANGED <<partition, agent, answered, budget>>
AttachPatch(c) ==
    /\ At(c, "attach", "patch")
    /\ \/ ~Current(c) /\ Refuse(c, "conflict")
       \/ /\ Current(c) /\ Answer(c, "ok")
          /\ PatchMeta(c, [meta EXCEPT !.life = IF act[c].had # {} THEN "polishing"
                                                ELSE "awaiting_audio"], NoAct)

\* updateTasting patches META, and only then reads and patches the analysis.
UpdateMetaLenient(c) ==         \* mutant: a stale rev refuses only META's own fields
    /\ At(c, "update", "patch")
    /\ \/ ~Current(c) /\ ~act[c].text /\ Refuse(c, "conflict")
       \/ ~Current(c) /\ act[c].text /\ Reads(c, "analysis")
       \/ /\ Current(c) /\ ~act[c].text /\ Answer(c, "ok") /\ PatchMeta(c, meta, NoAct)
       \/ /\ Current(c) /\ act[c].text
          /\ PatchMeta(c, meta, [act[c] EXCEPT !.pc = "analysis"]) /\ UNCHANGED answered
UpdateMeta(c) ==
    /\ At(c, "update", "patch")
    /\ \/ ~Current(c) /\ Refuse(c, "conflict")
       \/ /\ Current(c) /\ ~act[c].text /\ Answer(c, "ok") /\ PatchMeta(c, meta, NoAct)
       \/ /\ Current(c) /\ act[c].text
          /\ PatchMeta(c, meta, [act[c] EXCEPT !.pc = "analysis"]) /\ UNCHANGED answered
UpdateRead(c) ==
    /\ At(c, "update", "analysis")
    /\ \/ ~review.exists /\ Refuse(c, "not_found")
       \/ /\ review.exists
          /\ Goes(c, [act[c] EXCEPT !.pc = "text", !.todo = {review.rev}])
          /\ UNCHANGED <<partition, agent, answered, budget>>
UpdateText(c) ==
    /\ At(c, "update", "text")
    /\ \/ ~(review.exists /\ act[c].todo = {review.rev}) /\ Refuse(c, "conflict")
       \/ /\ review.exists /\ act[c].todo = {review.rev}
          /\ review' = [review EXCEPT !.used = @ \union {act[c].rev}, !.rev = @ + 1]
          /\ Wrote(c, NoAct) /\ Answer(c, "ok")
          /\ UNCHANGED <<meta, take, queued, agent, budget>>

\* createRecording: the tasting, the count, then the put.
RecordRead(c) ==
    /\ At(c, "record", "read")
    /\ IF Exists THEN Reads(c, "count") ELSE Refuse(c, "not_found")
RecordCountLoose(c) ==          \* mutant: > for >=
    /\ At(c, "record", "count")
    /\ IF Cardinality(Taken) > MaxTakes THEN Refuse(c, "limit") ELSE Reads(c, "put")
RecordCount(c) ==
    /\ At(c, "record", "count")
    /\ IF Cardinality(Taken) >= MaxTakes THEN Refuse(c, "limit") ELSE Reads(c, "put")
RecordPut(c) ==
    /\ At(c, "record", "put")
    /\ take' = [r \in Takes |-> IF r \in act[c].of THEN [NoTake EXCEPT !.exists = TRUE] ELSE take[r]]
    /\ Wrote(c, NoAct) /\ Answer(c, "ok")
    /\ UNCHANGED <<meta, review, queued, agent, budget>>

\* overrideSpeakerMapping reads the recording but patches with the page's rev.
OverrideRead(c) ==
    /\ At(c, "override", "read")
    /\ \E r \in act[c].of : IF r \in Speaking THEN Reads(c, "patch") ELSE Refuse(c, "not_found")
OverridePatch(c) ==
    /\ At(c, "override", "patch")
    /\ \E r \in act[c].of :
          \/ ~(take[r].exists /\ take[r].rev = act[c].rev) /\ Refuse(c, "conflict")
          \/ /\ take[r].exists /\ take[r].rev = act[c].rev
             /\ take' = [take EXCEPT ![r].mapping = "manual", ![r].rev = @ + 1]
             /\ Wrote(c, NoAct) /\ Answer(c, "ok")
             /\ UNCHANGED <<meta, review, queued, agent, budget>>

\* addFoodPhoto and removeFoodPhoto read META's photos and write the new list with
\* the page's rev; an empty list is undefined, which patchItem leaves alone.
PhotoRead(c) ==
    /\ act[c].op \in {"add", "remove"} /\ act[c].pc = "read"
    /\ \/ ~Exists /\ Refuse(c, "not_found")
       \/ Exists /\ act[c].op = "add" /\ Cardinality(meta.photos) >= MaxPhotos /\ Refuse(c, "limit")
       \/ /\ Exists /\ act[c].op = "add" /\ Cardinality(meta.photos) < MaxPhotos
          /\ act[c].of \subseteq meta.photos /\ Refuse(c, "ok")
       \/ /\ Exists
          /\ act[c].op = "add" => Cardinality(meta.photos) < MaxPhotos /\ ~(act[c].of \subseteq meta.photos)
          /\ Goes(c, [act[c] EXCEPT !.pc = "patch", !.had = meta.photos])
          /\ UNCHANGED <<partition, agent, answered, budget>>
NewPhotosKeep(c) ==             \* mutant: the filter keeps the photo
    IF act[c].op = "add" THEN act[c].had \union act[c].of ELSE act[c].had
NewPhotos(c) ==
    IF act[c].op = "add" THEN act[c].had \union act[c].of ELSE act[c].had \ act[c].of
PhotoPatch(c) ==
    /\ act[c].op \in {"add", "remove"} /\ act[c].pc = "patch"
    /\ \/ ~Current(c) /\ Refuse(c, "conflict")
       \/ /\ Current(c) /\ Answer(c, "ok")
          /\ PatchMeta(c, [meta EXCEPT !.photos = IF NewPhotos(c) = {} THEN @ ELSE NewPhotos(c)], NoAct)

\* deleteTasting: the bundle, then its recordings, the analysis, the job, META last.
DeleteRead(c) ==
    /\ At(c, "delete", "read")
    /\ IF ~Exists THEN Refuse(c, "not_found") ELSE
       /\ Goes(c, [act[c] EXCEPT !.pc = "child",
                      !.todo = {<<"rec", r>> : r \in Taken}
                               \union (IF review.exists THEN {<<"analysis">>} ELSE {})
                               \union (IF queued THEN {<<"job">>} ELSE {})])
       /\ UNCHANGED <<partition, agent, answered, budget>>
DeleteMeta(c) ==
    /\ meta' = NoMeta /\ Wrote(c, NoAct) /\ Answer(c, "ok")
    /\ UNCHANGED <<take, review, queued, agent, budget>>
DeleteChildMetaFirst(c) ==      \* mutant: META goes first
    /\ At(c, "delete", "child")
    /\ \/ /\ Exists /\ meta' = NoMeta /\ Wrote(c, act[c])
          /\ UNCHANGED <<take, review, queued, agent, answered, budget>>
       \/ ~Exists /\ act[c].todo = {} /\ Refuse(c, "ok")
       \/ ~Exists /\ \E x \in act[c].todo :
          /\ take' = [r \in Takes |-> IF x = <<"rec", r>> THEN NoTake ELSE take[r]]
          /\ review' = IF x = <<"analysis">> THEN NoReview ELSE review
          /\ queued' = (queued /\ x # <<"job">>)
          /\ Wrote(c, [act[c] EXCEPT !.todo = @ \ {x}])
          /\ UNCHANGED <<meta, agent, answered, budget>>
DeleteChild(c) ==
    /\ At(c, "delete", "child")
    /\ \/ act[c].todo = {} /\ DeleteMeta(c)
       \/ \E x \in act[c].todo :
          /\ x[1] # "rec" => \A y \in act[c].todo : y[1] # "rec"
          /\ x[1] = "job" => act[c].todo = {x}
          /\ take' = [r \in Takes |-> IF x = <<"rec", r>> THEN NoTake ELSE take[r]]
          /\ review' = IF x = <<"analysis">> THEN NoReview ELSE review
          /\ queued' = (queued /\ x # <<"job">>)
          /\ Wrote(c, [act[c] EXCEPT !.todo = @ \ {x}])
          /\ UNCHANGED <<meta, agent, answered, budget>>

\* A call stops between two awaits: the function ran out of time.
Dropped(c) ==
    /\ act[c].pc # "idle" /\ budget.drops > 0
    /\ budget' = [budget EXCEPT !.drops = @ - 1]
    /\ Goes(c, NoAct) /\ UNCHANGED <<partition, agent, answered>>

-----------------------------------------------------------------------------
(* Session B beside the calls: map_speakers of one recording, the analysis *)
(* and persist_and_publish (its job patch is left to Pipeline).            *)

AgentGoes(a) == agent' = a /\ UNCHANGED <<partition, act, answered, budget>>
AgentWrote(pc) ==
    /\ agent' = [NoRun EXCEPT !.pc = pc]
    /\ act' = [d \in Callers |-> [act[d] EXCEPT !.calm = act[d].pc = "idle"]]
    /\ UNCHANGED <<queued, answered, budget>>

SpeakersRead == \E r \in Taken :
    /\ agent.pc = "off" /\ Exists
    /\ AgentGoes([pc |-> "speakers", of |-> {r}, rev |-> take[r].rev, saw |-> take[r].mapping])
SpeakersWriteBlind == \E r \in agent.of :    \* mutant: writes whatever the rev is
    /\ agent.pc = "speakers" /\ take[r].exists
    /\ take' = [take EXCEPT ![r].mapping = "auto", ![r].rev = @ + 1]
    /\ AgentWrote("analysis") /\ UNCHANGED <<meta, review>>
SpeakersWrite == \E r \in agent.of :
    /\ agent.pc = "speakers" /\ take[r].exists /\ take[r].rev = agent.rev
    /\ take' = [take EXCEPT ![r].mapping = "auto", ![r].rev = @ + 1]
    /\ AgentWrote("analysis") /\ UNCHANGED <<meta, review>>
ReviewRead ==
    /\ agent.pc = "analysis"
    /\ AgentGoes([NoRun EXCEPT !.pc = IF review.exists THEN "patch" ELSE "put", !.rev = review.rev])
ReviewWrite ==
    /\ \/ agent.pc = "put" /\ review' = [NoReview EXCEPT !.exists = TRUE]
       \/ /\ agent.pc = "patch" /\ review.exists /\ review.rev = agent.rev
          /\ review' = [review EXCEPT !.rev = @ + 1]
    /\ AgentWrote("tasting") /\ UNCHANGED <<meta, take>>
ReadyRead ==
    /\ agent.pc = "tasting"
    /\ AgentGoes([NoRun EXCEPT !.pc = IF Exists THEN "ready" ELSE "over", !.rev = meta.rev])
ReadyWriteBlind ==         \* mutant: writes whatever the rev is
    /\ agent.pc = "ready" /\ Exists
    /\ meta' = [meta EXCEPT !.life = "ready", !.rev = @ + 1]
    /\ AgentWrote("over") /\ UNCHANGED <<take, review>>
ReadyWrite ==
    /\ agent.pc = "ready" /\ Exists /\ meta.rev = agent.rev
    /\ meta' = [meta EXCEPT !.life = "ready", !.rev = @ + 1]
    /\ AgentWrote("over") /\ UNCHANGED <<take, review>>
\* A write that finds another rev throws, and the graph stops.
AgentConflict ==
    /\ \/ agent.pc = "speakers" /\ \E r \in agent.of : ~(take[r].exists /\ take[r].rev = agent.rev)
       \/ agent.pc = "patch" /\ ~(review.exists /\ review.rev = agent.rev)
       \/ agent.pc = "ready" /\ ~(Exists /\ meta.rev = agent.rev)
    /\ AgentGoes([NoRun EXCEPT !.pc = "over"])

DiaryNext ==
    \/ CreateTasting \/ Established
    \/ \E c \in Callers :
          \/ CallAttach(c) \/ CallUpdate(c) \/ CallRecord(c) \/ CallOverride(c)
          \/ CallPhoto(c) \/ CallDelete(c)
          \/ AttachRead(c) \/ AttachBundle(c) \/ AttachPatch(c)
          \/ UpdateMeta(c) \/ UpdateRead(c) \/ UpdateText(c)
          \/ RecordRead(c) \/ RecordCount(c) \/ RecordPut(c)
          \/ OverrideRead(c) \/ OverridePatch(c)
          \/ PhotoRead(c) \/ PhotoPatch(c)
          \/ DeleteRead(c) \/ DeleteChild(c) \/ Dropped(c)
    \/ SpeakersRead \/ SpeakersWrite \/ ReviewRead \/ ReviewWrite
    \/ ReadyRead \/ ReadyWrite \/ AgentConflict

DiarySpec == DiaryInit /\ [][DiaryNext]_diaryVars

-----------------------------------------------------------------------------
(* META as the row of a store.                                             *)

MetaKeys == {"META"}
MetaData == [life : Life, photos : SUBSET Photos]
MetaRow == [k \in MetaKeys |->
               [state |-> IF Exists THEN "stored"
                          ELSE IF budget.calls = MaxDiaryCalls THEN "fresh" ELSE "deleted",
                data  |-> [life |-> meta.life, photos |-> meta.photos]]]

\* The calls that will patch META with the rev they have or their page showed.
Patches(a) == \/ a.op = "attach" /\ a.pc \in {"bundle", "patch"}
              \/ a.op = "update" /\ a.pc = "patch"
              \/ a.op \in {"add", "remove"} /\ a.pc \in {"read", "patch"}

Patchers == Callers \union {SessionB}
Wish(x) == IF x = SessionB THEN [will |-> agent.pc = "ready", rev |-> agent.rev]
                           ELSE [will |-> Patches(act[x]), rev |-> act[x].rev]
IntentOf(x) == [key     |-> IF Wish(x).will THEN "META" ELSE "none",
                current |-> Wish(x).will /\ Exists /\ meta.rev = Wish(x).rev]

MetaStore == INSTANCE RevStore WITH Keys <- MetaKeys, Clients <- Patchers, Data <- MetaData,
                 NoKey <- "none", row <- MetaRow, intent <- [x \in Patchers |-> IntentOf(x)]

-----------------------------------------------------------------------------
(* Properties                                                              *)

DiaryTypeOK ==
    /\ meta \in [life : Life, photos : SUBSET Photos, rev : Nat]
    /\ take \in [Takes -> [exists : BOOLEAN, mapping : Mapping, rev : Nat]]
    /\ review \in [exists : BOOLEAN, used : SUBSET Nat, rev : Nat]
    /\ queued \in BOOLEAN
    /\ \A c \in Callers :
          /\ act[c].op \in {"none", "attach", "update", "record", "override", "add", "remove", "delete"}
          /\ act[c].rev \in Nat /\ act[c].calm \in BOOLEAN
          /\ answered[c] \in {"none", "ok", "not_found", "no_wine", "conflict", "limit"}
    /\ budget \in [calls : Nat, drops : Nat]

Ends(c, what) == act[c].pc # "idle" /\ act'[c].pc = "idle" /\ answered'[c] = what

\* Of the editors whose pages showed the same version of the tasting at most one
\* gets the edited summary saved: META's rev stands guard over the analysis.
OneTextPerVersion ==
    [][\A c \in Callers : act[c].op = "update" /\ act[c].text /\ Ends(c, "ok")
          => act[c].rev \notin review.used]_diaryVars

\* Parallel registrations may pass the limit of recordings, by one for each call
\* beyond the first and no more.
TakesBounded == Cardinality(Taken) <= MaxTakes + Cardinality(Callers) - 1

\* A correction of the speakers is of the mapping that the editor's page showed, and one
\* saved while map_speakers runs survives it: only a correction that was there when the
\* node read the recording is replaced.
CorrectionsKept ==
    [][/\ \A c \in Callers : act[c].op = "override" /\ Ends(c, "ok")
             => \A r \in act[c].of : take[r].mapping = act[c].seen
       /\ \A r \in Takes : take[r].mapping = "manual" /\ take'[r].mapping = "auto"
             => agent.saw = "manual"]_diaryVars

\* A registration that is answered leaves the photo there, and from then on it disappears
\* only with the tasting or by a removal of that photo, however the calls overlap.  A
\* removal that is answered takes the photo away, but not the last one: that one stays,
\* against what is promised (the empty list is patched as undefined, which patchItem skips).
PhotosAsAnswered ==
    [][/\ \A c \in Callers, p \in Photos :
             act[c].of = {p} /\ Ends(c, "ok") =>
                /\ act[c].op = "add" => p \in meta'.photos
                /\ act[c].op = "remove" => p \notin meta'.photos \/ meta'.photos = {p}
       /\ \A p \in meta.photos : meta'.life # "none" /\ p \notin meta'.photos =>
             \E c \in Callers : act[c].op = "remove" /\ act[c].of = {p} /\ Ends(c, "ok")]_diaryVars

\* Calls that no other write disturbed: an attachment tells from the recordings whether
\* an analysis is still to come, and when META goes nothing else of the tasting is left,
\* so that a deletion that stops halfway leaves META to be deleted again.
CalmCalls ==
    [][/\ \A c \in Callers : act[c].op = "attach" /\ act[c].calm /\ Ends(c, "ok")
             => (meta'.life = "polishing" <=> Taken' # {})
       /\ Exists /\ ~Exists' /\ (\A c \in Callers : At(c, "delete", "child") => act[c].calm)
             => Taken' = {} /\ ~review'.exists /\ ~queued']_diaryVars

\* Edits, wine attachments, photo calls and session B write META over what they, or
\* the pages they came from, have read of it, and over nothing else: of those that saw
\* the same version the first wins, and none brings a deleted tasting back.
MetaFirstWins == MetaStore!StoreSpec
=============================================================================
