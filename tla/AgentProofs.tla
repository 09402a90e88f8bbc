---------------------------- MODULE AgentProofs ----------------------------
(***************************************************************************)
(* Theorems about what the agent and the calculations make of tastings:    *)
(* the analysis run in the web process (Local), the label that is read and *)
(* filled in (Labels), the cards and the profile drawn from all tastings   *)
(* (Insights), and what is heard in a recording (Voice).  Components that  *)
(* share nothing, one section each, for any numbers of runs, replies,      *)
(* cards and tastings and any sound.                                       *)
(***************************************************************************)
EXTENDS Insights, Local, Labels, Voice, FiniteSetTheorems, SequenceTheorems, WellFoundedInduction, TLAPS

-----------------------------------------------------------------------------
(* Local: runs overlap and write blindly, and a tasting whose job is       *)
(* completed still has what completed it.  A run past PutHeard has left    *)
(* the heard recording in the table, one past PutAnalysis an analysis, and *)
(* only a deletion takes them away; a deletion that is over took META too. *)

NotTranscribed == {"uploaded", "waiting", "gave up", "broke"}
HeardPut == {"mapped", "analyzing", "ok", "refused", "stored", "done"}

LocalInv ==
    /\ step \in [LocalRuns -> Stages] /\ voice \in LocalRuns \cup {NoItem}
    /\ erased # {} => "meta" \in erased
    /\ metaItem /\ erased = {} =>
          \A r \in LocalRuns : /\ step[r] \in HeardPut => takeItem = "heard"
                               /\ step[r] \in {"stored", "done"} => written # NoItem
    /\ LocalRunsSound

LEMMA Moved ==
    ASSUME LocalInv, NEW r \in LocalRuns, NEW from, NEW to \in Stages, Moves(r, from, to)
    PROVE  /\ step' \in [LocalRuns -> Stages] /\ step[r] = from /\ step'[r] = to
           /\ \A q \in LocalRuns : q # r => step'[q] = step[q]
  BY DEF Moves, LocalInv

(* A run that is not there yet, or that only goes on, claims nothing new.  *)
LEMMA RunGoesOn ==
    ASSUME LocalInv, NEW r \in LocalRuns, NEW from \in Stages, NEW to \in Stages, Moves(r, from, to),
           to \in HeardPut => from \in HeardPut, to \in {"stored", "done"} => from \in {"stored", "done"},
           UNCHANGED <<metaItem, erased, written, takeItem>>,
           localJob' = "completed" => from \in {"stored", "done"} \/ localJob = "completed",
           kept \subseteq kept', voice' \in {voice, r, NoItem},
           voice' = r => r \in kept' \/ to \in NotTranscribed \/ (voice = r /\ from \notin NotTranscribed)
    PROVE  LocalInv'
  <1>1. /\ step' \in [LocalRuns -> Stages] /\ step[r] = from /\ step'[r] = to
        /\ \A q \in LocalRuns : q # r => step'[q] = step[q]
    BY Moved
  <1>2. \A q \in LocalRuns : metaItem /\ erased = {} =>
           /\ step'[q] \in HeardPut => takeItem = "heard"
           /\ step'[q] \in {"stored", "done"} => written # NoItem
    BY <1>1 DEF LocalInv
  <1>3. CompletedHasAnalysis'
    BY <1>1 DEF LocalInv, LocalRunsSound, CompletedHasAnalysis, HeardPut
  <1>4. VoiceRemoved'
    BY <1>1 DEF LocalInv, LocalRunsSound, VoiceRemoved, NotTranscribed
  <1> QED BY <1>1, <1>2, <1>3, <1>4 DEF LocalInv, LocalRunsSound

LEMMA LocalStart == LocalInit => LocalInv
  BY DEF LocalInit, LocalInv, LocalRunsSound, CompletedHasAnalysis, VoiceRemoved, Stages, HeardPut, NoItem

LEMMA RunStep ==
    ASSUME LocalInv, NEW r \in LocalRuns,
           \/ AskLocal(r) \/ LoadLocal(r) \/ StartLocal(r) \/ ExtractFails(r)
           \/ UploadVoice(r) \/ StartTranscribe(r) \/ BreaksOff(r) \/ PollCompleted(r)
           \/ PollGivesUp(r) \/ PutAnalyzing(r) \/ PutFailed(r) \/ PutCompleted(r)
    PROVE  LocalInv'
  <1>1. CASE AskLocal(r)
    BY <1>1, RunGoesOn DEF AskLocal, Stages, HeardPut, NotTranscribed
  <1>2. CASE LoadLocal(r)
    BY <1>2, RunGoesOn DEF LoadLocal, Stages, HeardPut, NotTranscribed
  <1>3. CASE StartLocal(r)
    BY <1>3, RunGoesOn DEF StartLocal, Stages, HeardPut, NotTranscribed
  <1>4. CASE ExtractFails(r)
    BY <1>4, RunGoesOn DEF ExtractFails, Stages, HeardPut, NotTranscribed
  <1>5. CASE UploadVoice(r)
    BY <1>5, RunGoesOn DEF UploadVoice, Stages, HeardPut, NotTranscribed
  <1>6. CASE StartTranscribe(r)
    BY <1>6, RunGoesOn DEF StartTranscribe, Stages, HeardPut, NotTranscribed
  <1>b. CASE BreaksOff(r)
    BY <1>b, RunGoesOn DEF BreaksOff, Stages, HeardPut, NotTranscribed
  <1>7. CASE PollCompleted(r)
    <2>1. /\ Moves(r, "waiting", "heard") /\ "waiting" \in Stages /\ "heard" \in Stages
          /\ UNCHANGED <<metaItem, erased, written, takeItem, localJob>>
      BY <1>7 DEF PollCompleted, Stages
    <2>2. \/ voice' = NoItem /\ kept' = kept
          \/ voice' = voice /\ kept' = kept \cup {r}
      BY <1>7 DEF PollCompleted
    <2>3. kept \subseteq kept' /\ voice' \in {voice, NoItem} /\ (voice' = r => r \in kept')
      BY <2>2, LocalAssumption DEF LocalAssumption
    <2> QED BY <2>1, <2>3, RunGoesOn DEF HeardPut
  <1>8. CASE PollGivesUp(r)
    BY <1>8, RunGoesOn DEF PollGivesUp, Stages, HeardPut, NotTranscribed
  <1>9. CASE PutAnalyzing(r)
    BY <1>9, RunGoesOn DEF PutAnalyzing, Stages, HeardPut, NotTranscribed
  <1>10. CASE PutFailed(r)
    BY <1>10, RunGoesOn DEF PutFailed, Stages, HeardPut, NotTranscribed
  <1>11. CASE PutCompleted(r)
    BY <1>11, RunGoesOn DEF PutCompleted, Stages, HeardPut, NotTranscribed
  <1> QED BY <1>1, <1>2, <1>3, <1>4, <1>5, <1>6, <1>b, <1>7, <1>8, <1>9, <1>10, <1>11

(* What a run stores is what it claims from then on.                       *)
LEMMA StoringStep ==
    ASSUME LocalInv, NEW r \in LocalRuns, PutHeard(r) \/ PutAnalysis(r)
    PROVE  LocalInv'
  <1>1. CASE PutHeard(r)
    <2>1. /\ Moves(r, "heard", "mapped") /\ takeItem' = "heard" /\ "mapped" \in Stages
          /\ UNCHANGED <<metaItem, localJob, written, erased, voice, service, replies, kept>>
      BY <1>1 DEF PutHeard, Stages
    <2>2. /\ step' \in [LocalRuns -> Stages] /\ step[r] = "heard" /\ step'[r] = "mapped"
          /\ \A q \in LocalRuns : q # r => step'[q] = step[q]
      BY <2>1, Moved
    <2>3. CompletedHasAnalysis' /\ VoiceRemoved'
      BY <2>1, <2>2 DEF LocalInv, LocalRunsSound, CompletedHasAnalysis, VoiceRemoved
    <2> QED BY <2>1, <2>2, <2>3 DEF LocalInv, LocalRunsSound
  <1>2. CASE PutAnalysis(r)
    <2>1. /\ Moves(r, "ok", "stored") /\ written' = r /\ "stored" \in Stages /\ r # NoItem
          /\ UNCHANGED <<metaItem, localJob, takeItem, erased, voice, service, replies, kept>>
      BY <1>2, LocalAssumption DEF PutAnalysis, Stages, LocalAssumption
    <2>2. /\ step' \in [LocalRuns -> Stages] /\ step[r] = "ok" /\ step'[r] = "stored"
          /\ \A q \in LocalRuns : q # r => step'[q] = step[q]
      BY <2>1, Moved
    <2>3. CompletedHasAnalysis' /\ VoiceRemoved'
      BY <2>1, <2>2 DEF LocalInv, LocalRunsSound, CompletedHasAnalysis, VoiceRemoved
    <2> QED BY <2>1, <2>2, <2>3 DEF LocalInv, LocalRunsSound, HeardPut
  <1> QED BY <1>1, <1>2

(* The model answers: within the loop the run stays where it is.           *)
LEMMA ReplyStep == ASSUME LocalInv, NEW r \in LocalRuns, Reply(r) PROVE LocalInv'
  <1>1. UNCHANGED <<metaItem, localJob, written, takeItem, erased, voice, service, kept>>
    BY DEF Reply
  <1>2. CASE Moves(r, "analyzing", "ok")
    BY <1>1, <1>2, RunGoesOn DEF Stages, HeardPut, NotTranscribed
  <1>3. CASE Moves(r, "analyzing", "refused")
    BY <1>1, <1>3, RunGoesOn DEF Stages, HeardPut, NotTranscribed
  <1>4. CASE UNCHANGED step
    BY <1>1, <1>4 DEF LocalInv, LocalRunsSound, CompletedHasAnalysis, VoiceRemoved
  <1> QED BY <1>2, <1>3, <1>4 DEF Reply

(* A deletion that is under way promises nothing, and one that is over has *)
(* taken META.                                                             *)
LEMMA DeletionStep ==
    ASSUME LocalInv, TranscribeEnds \/ EraseReads \/ \E f \in {"take", "analysis", "job", "meta"} : EraseItemOf(f)
    PROVE  LocalInv'
  <1>0. UNCHANGED <<voice, kept, step>>
    BY DEF TranscribeEnds, EraseReads, EraseItemOf
  <1>1. VoiceRemoved' /\ step' \in [LocalRuns -> Stages] /\ voice' \in LocalRuns \cup {NoItem}
    BY <1>0 DEF LocalInv, LocalRunsSound, VoiceRemoved
  <1>2. CASE TranscribeEnds
    BY <1>1, <1>2 DEF TranscribeEnds, LocalInv, LocalRunsSound, CompletedHasAnalysis
  <1>3. CASE EraseReads
    <2>1. "meta" \in erased' /\ erased' # {}
      BY <1>3 DEF EraseReads
    <2> QED BY <1>1, <2>1 DEF LocalInv, LocalRunsSound, CompletedHasAnalysis
  <1>4. ASSUME NEW f \in {"take", "analysis", "job", "meta"}, EraseItemOf(f) PROVE LocalInv'
    <2>1. (erased' # {} => "meta" \in erased') /\ (erased' = {} => ~metaItem')
      BY <1>4 DEF EraseItemOf, LocalInv
    <2> QED BY <1>1, <2>1 DEF LocalInv, LocalRunsSound, CompletedHasAnalysis
  <1> QED BY <1>2, <1>3, <1>4

LEMMA LocalStep == LocalInv /\ [LocalNext]_localVars => LocalInv'
  <1> SUFFICES ASSUME LocalInv, [LocalNext]_localVars PROVE LocalInv'
    OBVIOUS
  <1>1. CASE UNCHANGED localVars
    BY <1>1 DEF localVars, LocalInv, LocalRunsSound, CompletedHasAnalysis, VoiceRemoved
  <1> QED BY <1>1, RunStep, StoringStep, ReplyStep, DeletionStep DEF LocalNext

(* However many runs of the local pipeline overlap, and wherever a         *)
(* deletion meets them: a completed job has its analysis and the heard     *)
(* recording, and no upload is left behind but for a reason                *)
(* (runLocalPipeline and runTranscribe).                                   *)
THEOREM LocalRunsHold == LocalSpec => []LocalRunsSound
  <1>1. LocalInv => LocalRunsSound
    BY DEF LocalInv
  <1> QED BY <1>1, LocalStart, LocalStep, PTL DEF LocalSpec

(* Types: a run that has not had its last reply may ask for one more.      *)
BeforeAnswer == {"idle", "asked", "loaded", "started", "uploaded", "waiting", "heard", "mapped", "analyzing"}

LocalTyped ==
    /\ LocalTypeOK
    /\ \A r \in LocalRuns : step[r] \in BeforeAnswer => replies[r] < MaxReplies

LEMMA MovesTyped ==
    ASSUME LocalTyped, NEW r \in LocalRuns, NEW from \in Stages, NEW to \in Stages, Moves(r, from, to),
           to \in BeforeAnswer => from \in BeforeAnswer, UNCHANGED replies
    PROVE  /\ step' \in [LocalRuns -> Stages] /\ replies' \in [LocalRuns -> 0 .. MaxReplies]
           /\ \A s \in LocalRuns : step'[s] \in BeforeAnswer => replies'[s] < MaxReplies
  BY DEF LocalTyped, LocalTypeOK, Moves

LEMMA LocalTypesStep == LocalTyped /\ [LocalNext]_localVars => LocalTyped'
  <1> SUFFICES ASSUME LocalTyped, [LocalNext]_localVars PROVE LocalTyped' OBVIOUS
  <1>0. LocalTypeOK /\ MaxReplies \in Nat \ {0} BY LocalAssumption DEF LocalTyped, LocalAssumption
  <1>1. ASSUME UNCHANGED <<step, replies>>, LocalTypeOK' PROVE LocalTyped' BY <1>1 DEF LocalTyped
  <1>2. ASSUME NEW r \in LocalRuns, AskLocal(r) \/ LoadLocal(r) \/ StartLocal(r) \/ ExtractFails(r)
                                     \/ UploadVoice(r) \/ StartTranscribe(r) \/ BreaksOff(r)
        PROVE  LocalTyped'
    <2>1. /\ step' \in [LocalRuns -> Stages] /\ replies' \in [LocalRuns -> 0 .. MaxReplies]
          /\ \A s \in LocalRuns : step'[s] \in BeforeAnswer => replies'[s] < MaxReplies
      BY <1>2, MovesTyped DEF AskLocal, LoadLocal, StartLocal, ExtractFails, UploadVoice, StartTranscribe, BreaksOff,
                              Stages, BeforeAnswer
    <2>2. UNCHANGED <<metaItem, written, takeItem, erased, kept>>
      BY <1>2, Zenon DEF AskLocal, LoadLocal, StartLocal, ExtractFails, UploadVoice, StartTranscribe, BreaksOff
    <2>3. localJob' \in {localJob, "queued", "transcribing"}
      BY <1>2, Zenon DEF AskLocal, LoadLocal, StartLocal, ExtractFails, UploadVoice, StartTranscribe, BreaksOff
    <2>4. voice' \in {voice, r} /\ service' \in {service, "running"}
      <3>1. CASE UploadVoice(r)
        BY <3>1, Zenon DEF UploadVoice
      <3>2. CASE StartTranscribe(r)
        BY <3>2, Zenon DEF StartTranscribe
      <3>3. CASE BreaksOff(r)
        BY <3>3, Zenon DEF BreaksOff
      <3>4. CASE ~(UploadVoice(r) \/ StartTranscribe(r) \/ BreaksOff(r))
        BY <1>2, <3>4, Zenon DEF AskLocal, LoadLocal, StartLocal, ExtractFails
      <3> QED BY <3>1, <3>2, <3>3, <3>4
    <2>5. LocalTypeOK'
      <3>1. /\ metaItem' \in BOOLEAN /\ voice' \in LocalRuns \cup {NoItem} /\ kept' \subseteq LocalRuns
            /\ written' \in LocalRuns \cup {NoItem} /\ takeItem' \in {NoItem, "plain", "heard"}
            /\ erased' \subseteq {"take", "analysis", "job", "meta"}
        BY <1>0, <2>2, <2>4 DEF LocalTypeOK
      <3>2. /\ localJob' \in {NoItem, "queued", "transcribing", "analyzing", "completed", "failed"}
            /\ service' \in {NoItem, "running", "COMPLETED", "FAILED"}
        BY <1>0, <2>3, <2>4 DEF LocalTypeOK
      <3> QED BY <2>1, <3>1, <3>2, Zenon DEF LocalTypeOK
    <2> QED BY <2>1, <2>5, Zenon DEF LocalTyped
  <1>3. ASSUME NEW r \in LocalRuns, PollCompleted(r) \/ PollGivesUp(r) \/ PutHeard(r) \/ PutAnalyzing(r)
                                     \/ PutFailed(r) \/ PutAnalysis(r) \/ PutCompleted(r)
        PROVE  LocalTyped'
    <2>1. /\ step' \in [LocalRuns -> Stages] /\ replies' \in [LocalRuns -> 0 .. MaxReplies]
          /\ \A s \in LocalRuns : step'[s] \in BeforeAnswer => replies'[s] < MaxReplies
      BY <1>3, MovesTyped DEF PollCompleted, PollGivesUp, PutHeard, PutAnalyzing, PutFailed, PutAnalysis,
                              PutCompleted, Stages, BeforeAnswer
    <2>2. UNCHANGED <<metaItem, erased, service>>
      BY <1>3, Zenon DEF PollCompleted, PollGivesUp, PutHeard, PutAnalyzing, PutFailed, PutAnalysis, PutCompleted
    <2>3. localJob' \in {localJob, "analyzing", "failed", "completed"}
      BY <1>3, Zenon DEF PollCompleted, PollGivesUp, PutHeard, PutAnalyzing, PutFailed, PutAnalysis, PutCompleted
    <2>4. written' \in {written, r} /\ takeItem' \in {takeItem, "heard"}
      BY <1>3, Zenon DEF PollCompleted, PollGivesUp, PutHeard, PutAnalyzing, PutFailed, PutAnalysis, PutCompleted
    <2>5. voice' \in {voice, NoItem} /\ kept' \in {kept, kept \cup {r}}
      BY <1>3, Zenon DEF PollCompleted, PollGivesUp, PutHeard, PutAnalyzing, PutFailed, PutAnalysis, PutCompleted
    <2>6. LocalTypeOK'
      <3>1. /\ metaItem' \in BOOLEAN /\ voice' \in LocalRuns \cup {NoItem} /\ kept' \subseteq LocalRuns
            /\ written' \in LocalRuns \cup {NoItem} /\ takeItem' \in {NoItem, "plain", "heard"}
            /\ erased' \subseteq {"take", "analysis", "job", "meta"}
        BY <1>0, <2>2, <2>4, <2>5 DEF LocalTypeOK
      <3>2. /\ localJob' \in {NoItem, "queued", "transcribing", "analyzing", "completed", "failed"}
            /\ service' \in {NoItem, "running", "COMPLETED", "FAILED"}
        BY <1>0, <2>2, <2>3 DEF LocalTypeOK
      <3> QED BY <2>1, <3>1, <3>2, Zenon DEF LocalTypeOK
    <2> QED BY <2>1, <2>6, Zenon DEF LocalTyped
  <1>4. ASSUME NEW r \in LocalRuns, Reply(r) PROVE LocalTyped'
    <2>1. step[r] = "analyzing" /\ replies[r] < MaxReplies /\ replies' = [replies EXCEPT ![r] = @ + 1]
      BY <1>4 DEF Reply, LocalTyped, BeforeAnswer
    <2>2. replies' \in [LocalRuns -> 0 .. MaxReplies] /\ \A s \in LocalRuns \ {r} : replies'[s] = replies[s]
      BY <1>0, <2>1 DEF LocalTypeOK
    <2>3. /\ step' \in [LocalRuns -> Stages] /\ \A s \in LocalRuns \ {r} : step'[s] = step[s]
          /\ replies'[r] < MaxReplies \/ step'[r] \notin BeforeAnswer
      BY <1>0, <1>4, <2>1 DEF LocalTypeOK, Reply, Moves, Stages, BeforeAnswer
    <2> QED BY <1>0, <1>4, <2>2, <2>3 DEF LocalTyped, LocalTypeOK, Reply
  <1>5. CASE TranscribeEnds \/ EraseReads BY <1>0, <1>1, <1>5 DEF TranscribeEnds, EraseReads, LocalTypeOK
  <1>6. ASSUME NEW f \in {"take", "analysis", "job", "meta"}, EraseItemOf(f) PROVE LocalTyped'
    <2>1. metaItem' \in BOOLEAN BY <1>6, Zenon DEF EraseItemOf
    <2> QED BY <1>0, <1>1, <1>6, <2>1 DEF EraseItemOf, LocalTypeOK
  <1>7. CASE UNCHANGED localVars BY <1>0, <1>1, <1>7 DEF localVars, LocalTypeOK
  <1> QED BY <1>2, <1>3, <1>4, <1>5, <1>6, <1>7 DEF LocalNext

LEMMA LocalTypes == LocalSpec => []LocalTypeOK
  <1>1. LocalInit => LocalTyped
    <2> SUFFICES ASSUME LocalInit PROVE LocalTyped OBVIOUS
    <2>1. metaItem \in BOOLEAN /\ voice \in LocalRuns \cup {NoItem} /\ kept \subseteq LocalRuns BY DEF LocalInit
    <2>2. /\ step \in [LocalRuns -> Stages] /\ replies \in [LocalRuns -> 0 .. MaxReplies]
          /\ \A r \in LocalRuns : replies[r] < MaxReplies
      BY LocalAssumption DEF LocalInit, Stages, LocalAssumption
    <2>3. takeItem \in {NoItem, "plain", "heard"} /\ erased \subseteq {"take", "analysis", "job", "meta"}
      BY DEF LocalInit
    <2>4. localJob = NoItem /\ written = NoItem /\ service = NoItem BY DEF LocalInit
    <2> QED BY <2>1, <2>2, <2>3, <2>4 DEF LocalTyped, LocalTypeOK
  <1>2. LocalTyped => LocalTypeOK BY DEF LocalTyped
  <1> QED BY <1>1, <1>2, LocalTypesStep, PTL DEF LocalSpec

-----------------------------------------------------------------------------
(* Labels: a label is filled in at one moment, from one reply, by rules    *)
(* that look at each pair of fields; the rules suffice.                    *)

LabelsInv ==
    /\ scanned \in ReadLabels
    /\ phase \in {"recognized", "searched"} => label = scanned /\ ~sourced
    /\ phase \in {"idle", "reading"} => ~sourced
    /\ FilledConsistent

(* A reply is merged: what it fills in agrees with what was read and, by   *)
(* rule 6, with itself.                                                    *)
LEMMA MergedConsistent ==
    ASSUME LabelsInv, NEW reply \in Replies, EnrichLabel(reply)
    PROVE  FilledConsistent'
  <1> DEFINE filled == Filled(reply)
  <1>1. /\ phase = "searched" /\ label = scanned /\ ~sourced /\ scanned \in ReadLabels
        /\ UNCHANGED <<tries, scanned, named, country, foundAny>>
        /\ label' = [f \in LabelFields |-> IF f \in filled THEN reply[f] ELSE scanned[f]]
        /\ sourced' = (foundAny /\ filled # {})
    BY DEF EnrichLabel, LabelsInv
  <1>2. \A f \in LabelFields : label'[f] = IF f \in filled THEN reply[f] ELSE scanned[f]
    BY <1>1
  <1>3. \A f \in filled : /\ f \in LabelFields /\ f \notin DetectConflicts(reply)
                          /\ scanned[f] = Empty(f) /\ reply[f] # Empty(f)
    BY DEF Filled
  <1>4. /\ label'.type = IF "type" \in filled THEN reply.type ELSE scanned.type
        /\ label'.grapes = IF "grapes" \in filled THEN reply.grapes ELSE scanned.grapes
        /\ label'["note"] = IF "note" \in filled THEN reply.note ELSE scanned.note
        /\ label'["tags"] = IF "tags" \in filled THEN reply.tags ELSE scanned.tags
    BY <1>2 DEF LabelFields
  <1> HIDE DEF filled
  <1>5. ASSUME scanned.grapes = NoBlend, label'.type # Absent
        PROVE  ~GrapesAgainst(label'.type, label'.grapes)
    <2>1. CASE "grapes" \notin filled
      <3>1. label'.grapes = NoBlend
        BY <1>4, <1>5, <2>1
      <3> QED BY <3>1 DEF GrapesAgainst, NoBlend, Blend
    <2>2. CASE "grapes" \in filled /\ "type" \notin filled
      <3>1. "grapes" \notin AgainstRead(reply) /\ label'.type = scanned.type /\ label'.grapes = reply.grapes
        BY <1>3, <1>4, <2>2 DEF DetectConflicts
      <3> QED BY <1>5, <3>1 DEF AgainstRead, LabelFields
    <2>3. CASE "grapes" \in filled /\ "type" \in filled
      <3>1. /\ "grapes" \notin AgainstItself(reply, AgainstRead(reply))
            /\ "type" \notin AgainstRead(reply) /\ reply.type # Absent
            /\ label'.type = reply.type /\ label'.grapes = reply.grapes
        BY <1>3, <1>4, <2>3 DEF DetectConflicts, Empty
      <3> QED BY <3>1 DEF AgainstItself
    <2> QED BY <2>1, <2>2, <2>3
  <1>6. ~TextAgainst(scanned.type, label'["note"])
    <2>1. CASE "note" \notin filled
      <3>1. label'["note"] = Absent
        BY <1>1, <1>4, <2>1 DEF ReadLabels
      <3> QED BY <3>1 DEF TextAgainst, Absent
    <2>2. CASE "note" \in filled
      <3>1. "note" \notin AgainstRead(reply) /\ label'["note"] = reply.note
        BY <1>3, <1>4, <2>2 DEF DetectConflicts
      <3> QED BY <3>1 DEF AgainstRead, LabelFields, TextAgainst, Absent
    <2> QED BY <2>1, <2>2
  <1>7. ~TextAgainst(scanned.type, label'["tags"])
    <2>1. CASE "tags" \notin filled
      <3>1. label'["tags"] = Absent
        BY <1>1, <1>4, <2>1 DEF ReadLabels
      <3> QED BY <3>1 DEF TextAgainst, Absent
    <2>2. CASE "tags" \in filled
      <3>1. "tags" \notin AgainstRead(reply) /\ label'["tags"] = reply.tags
        BY <1>3, <1>4, <2>2 DEF DetectConflicts
      <3> QED BY <3>1 DEF AgainstRead, LabelFields, TextAgainst, Absent
    <2> QED BY <2>1, <2>2
  <1>8. \A f \in LabelFields : scanned[f] # Empty(f) => label'[f] = scanned[f]
    BY <1>2, <1>3
  <1>9. ASSUME sourced' PROVE foundAny /\ label' # scanned
    <2>1. foundAny /\ filled # {}
      BY <1>1, <1>9
    <2>2. PICK f \in filled : TRUE
      BY <2>1
    <2> QED BY <1>2, <1>3, <2>1, <2>2
  <1> QED BY <1>1, <1>5, <1>6, <1>7, <1>8, <1>9 DEF FilledConsistent

LEMMA LabelsStart == LabelsInit => LabelsInv
  <1> SUFFICES ASSUME LabelsInit PROVE LabelsInv
    OBVIOUS
  <1>1. Unread \in ReadLabels
    BY DEF Unread, ReadLabels
  <1> QED BY <1>1 DEF LabelsInit, LabelsInv, FilledConsistent

(* Answered as it was read: nothing of it was filled in.                   *)
LEMMA ReadConsistent ==
    ASSUME scanned \in ReadLabels, label = scanned
    PROVE  /\ scanned.grapes = NoBlend => ~GrapesAgainst(label.type, label.grapes)
           /\ \A f \in {"note", "tags"} : ~TextAgainst(scanned.type, label[f])
  <1>1. ASSUME scanned.grapes = NoBlend PROVE ~GrapesAgainst(label.type, label.grapes)
    BY <1>1 DEF GrapesAgainst, NoBlend, Blend
  <1>2. scanned["note"] = Absent /\ scanned["tags"] = Absent
    BY DEF ReadLabels
  <1>3. ~TextAgainst(scanned.type, Absent)
    BY DEF TextAgainst, Absent
  <1> QED BY <1>1, <1>2, <1>3

LEMMA LabelsStep == LabelsInv /\ [LabelsNext]_labelVars => LabelsInv'
  <1> SUFFICES ASSUME LabelsInv, [LabelsNext]_labelVars PROVE LabelsInv'
    OBVIOUS
  <1>1. CASE PhotoGiven \/ ImageLost \/ ReadWrongly \/ ReadAsNothing
    <2>1. /\ phase' \in {"reading", "error", "unrecognized"} /\ phase \in {"idle", "reading"}
          /\ UNCHANGED <<scanned, label, sourced>>
      BY <1>1 DEF PhotoGiven, ImageLost, ReadWrongly, ReadAsNothing
    <2> QED BY <2>1 DEF LabelsInv, FilledConsistent
  <1>2. CASE ReadRightly
    BY <1>2 DEF ReadRightly, LabelsInv, FilledConsistent
  <1>3. CASE NotEnriched
    <2>1. /\ phase = "recognized" /\ phase' = "answered" /\ UNCHANGED <<scanned, foundAny, label, sourced>>
          /\ label = scanned /\ ~sourced /\ scanned \in ReadLabels
      BY <1>3 DEF NotEnriched, LabelsInv
    <2>2. FilledConsistent'
      BY <2>1, ReadConsistent DEF FilledConsistent
    <2> QED BY <2>1, <2>2 DEF LabelsInv
  <1>4. CASE SearchWine
    BY <1>4 DEF SearchWine, LabelsInv, FilledConsistent
  <1>5. ASSUME NEW reply \in Replies, EnrichLabel(reply) PROVE LabelsInv'
    BY <1>5, MergedConsistent DEF EnrichLabel, LabelsInv
  <1>6. CASE UNCHANGED labelVars
    BY <1>6 DEF labelVars, LabelsInv, FilledConsistent
  <1> QED BY <1>1, <1>2, <1>3, <1>4, <1>5, <1>6 DEF LabelsNext

(* Whatever the model and the search answer, a label that is answered is   *)
(* no mixture of two wines and keeps what was read (detectConflicts and    *)
(* mergeEnrichment), for any number of attempts.                           *)
THEOREM LabelsConsistent == LabelsSpec => []FilledConsistent
  <1>1. LabelsInv => FilledConsistent
    BY DEF LabelsInv
  <1> QED BY <1>1, LabelsStart, LabelsStep, PTL DEF LabelsSpec

(* Types: a photo that is still read may be tried once more, and the merge *)
(* takes over no type that the schema does not know.                       *)
LabelsTyped ==
    /\ LabelsTypeOK
    /\ phase \in {"idle", "reading"} => tries < MaxAttempts
    /\ phase = "idle" => tries = 0

LEMMA MergedTyped ==
    ASSUME LabelsTyped, NEW reply \in Replies, EnrichLabel(reply)
    PROVE  label'.type \in {Absent, "red", "white", "rose", "sparkling"} /\ label'.grapes \in Blends
  <1> DEFINE filled == Filled(reply)
  <1>1. label' = [f \in LabelFields |-> IF f \in filled THEN reply[f] ELSE scanned[f]] BY DEF EnrichLabel
  <1>2. "type" \in filled => reply.type # "orange" BY DEF Filled
  <1>3. /\ scanned.type \in {Absent, "red", "white", "rose", "sparkling"} /\ scanned.grapes \in Blends
        /\ reply.type \in {Absent, "red", "white", "orange"} /\ reply.grapes \in Blends
    BY DEF LabelsTyped, LabelsTypeOK, ReadLabels, Replies, Blends
  <1> HIDE DEF filled
  <1>4. /\ label'.type = IF "type" \in filled THEN reply.type ELSE scanned.type
        /\ label'.grapes = IF "grapes" \in filled THEN reply.grapes ELSE scanned.grapes
    BY <1>1 DEF LabelFields
  <1> QED BY <1>2, <1>3, <1>4

LEMMA LabelsTypesStep == LabelsTyped /\ [LabelsNext]_labelVars => LabelsTyped'
  <1> SUFFICES ASSUME LabelsTyped, [LabelsNext]_labelVars PROVE LabelsTyped' OBVIOUS
  <1>0. LabelsTypeOK /\ MaxAttempts \in Nat \ {0} BY LabelsAssumption DEF LabelsTyped, LabelsAssumption
  <1>1. ASSUME UNCHANGED <<scanned, named, country, foundAny, label, sourced>>,
               PhotoGiven \/ ImageLost \/ ReadWrongly \/ ReadAsNothing \/ NotEnriched
        PROVE  LabelsTyped'
    BY <1>0, <1>1 DEF LabelsTyped, LabelsTypeOK, PhotoGiven, ImageLost, ReadWrongly, ReadAsNothing, NotEnriched
  <1>2. CASE ReadRightly
    <2>1. scanned' \in ReadLabels /\ label' = scanned' /\ {named', country'} \subseteq BOOLEAN
      BY <1>2 DEF ReadRightly
    <2>2. label'.type \in {Absent, "red", "white", "rose", "sparkling"} /\ label'.grapes \in Blends
      BY <2>1 DEF ReadLabels, Blends
    <2> QED BY <1>0, <1>2, <2>1, <2>2 DEF LabelsTyped, LabelsTypeOK, ReadRightly
  <1>3. CASE SearchWine BY <1>0, <1>3 DEF LabelsTyped, LabelsTypeOK, SearchWine
  <1>4. ASSUME NEW reply \in Replies, EnrichLabel(reply) PROVE LabelsTyped'
    <2>1. sourced' \in BOOLEAN BY <1>4, Zenon DEF EnrichLabel
    <2> QED BY <1>0, <1>4, <2>1, MergedTyped DEF LabelsTyped, LabelsTypeOK, EnrichLabel
  <1>5. CASE UNCHANGED labelVars BY <1>0, <1>5 DEF labelVars, LabelsTyped, LabelsTypeOK
  <1> QED BY <1>1, <1>2, <1>3, <1>4, <1>5
          DEF LabelsNext, PhotoGiven, ImageLost, ReadWrongly, ReadAsNothing, NotEnriched

LEMMA LabelsTypes == LabelsSpec => []LabelsTypeOK
  <1>1. LabelsInit => LabelsTyped
    <2> SUFFICES ASSUME LabelsInit PROVE LabelsTyped OBVIOUS
    <2>1. Unread \in ReadLabels /\ Unread.type = Absent /\ Unread.grapes \in Blends
      BY DEF Unread, ReadLabels, Blends
    <2>2. {named, country, foundAny, sourced} \subseteq BOOLEAN BY DEF LabelsInit
    <2>3. phase = "idle" /\ tries = 0 /\ 0 < MaxAttempts /\ tries \in 0 .. MaxAttempts
      BY LabelsAssumption DEF LabelsInit, LabelsAssumption
    <2> QED BY <2>1, <2>2, <2>3 DEF LabelsInit, LabelsTyped, LabelsTypeOK
  <1>2. LabelsTyped => LabelsTypeOK BY DEF LabelsTyped
  <1> QED BY <1>1, <1>2, LabelsTypesStep, PTL DEF LabelsSpec

-----------------------------------------------------------------------------
(* Insights: what a run has read of a card or of the profile is what is    *)
(* there, as long as the rev is the same; and while a run that found a     *)
(* profile means to patch it, nobody means to put a first one over it.     *)

Job == [pc : {"idle", "load", "judge", "narrate", "profile", "list", "propose", "upsert", "hide"},
        known : SUBSET [pattern : Patterns, hidden : BOOLEAN], pattern : Patterns \cup {"none"},
        n : Nat, k : Nat, had : Nat, rev : Nat, tastings : Nat,
        saw : [exists : BOOLEAN, tastings : Nat, rev : Nat], settled : BOOLEAN]

InsightsTyped ==
    /\ tastingCount \in Nat /\ runsLeft \in Nat
    /\ cards \in Seq(Card)
    /\ profile \in [exists : BOOLEAN, tastings : Nat, rev : Nat]
    /\ job \in [Runs -> Job]
    /\ \A r \in Runs : /\ job[r].k <= Len(cards)
                       /\ job[r].pc = "hide" => job[r].k # 0
                       /\ job[r].pc = "upsert" => job[r].pattern \in Patterns

CardAsRead ==
    \A r \in Runs : job[r].pc = "upsert" /\ job[r].k # 0 =>
        /\ job[r].rev <= cards[job[r].k].rev
        /\ job[r].rev = cards[job[r].k].rev => job[r].had = cards[job[r].k].n

NoFirstProfile == \A q \in Runs : job[q].pc = "profile" => job[q].saw.exists

ProfileRead ==
    \A r \in Runs : job[r].pc = "profile" /\ job[r].saw.exists =>
        /\ profile.exists
        /\ job[r].settled => /\ NoFirstProfile
                             /\ job[r].saw.rev <= profile.rev
                             /\ job[r].saw.rev = profile.rev => job[r].saw = profile

InsightsInv == InsightsTyped /\ CardAsRead /\ ProfileRead

LEMMA NoJobTyped ==
    /\ NoJob \in Job /\ NoJob.k = 0 /\ NoJob.pc = "idle" /\ NoJob.n = 0
    /\ \A r \in Runs : InsightsInv => job[r] \in Job
  BY DEF NoJob, NoProfile, Job, InsightsInv, InsightsTyped

LEMMA JobSet ==
    ASSUME InsightsInv, NEW r \in Runs, NEW j \in Job, Set(r, j)
    PROVE  /\ job' \in [Runs -> Job] /\ job'[r] = j
           /\ \A q \in Runs : q # r => job'[q] = job[q]
  BY DEF InsightsInv, InsightsTyped, Set

(* A run goes on without a write; what it has read of a card is that card. *)
LEMMA JobGoesOn ==
    ASSUME InsightsInv, NEW r \in Runs, NEW j \in Job, Set(r, j), j.pc # "profile",
           j.k <= Len(cards), j.pc = "hide" => j.k # 0,
           j.pc = "upsert" => j.pattern \in Patterns,
           j.pc = "upsert" /\ j.k # 0 => j.rev = cards[j.k].rev /\ j.had = cards[j.k].n,
           tastingCount' \in Nat, runsLeft' \in Nat, UNCHANGED <<cards, profile>>
    PROVE  InsightsInv'
  <1>1. /\ job' \in [Runs -> Job] /\ job'[r] = j
        /\ \A q \in Runs : q # r => job'[q] = job[q]
    BY JobSet
  <1>2. InsightsTyped'
    BY <1>1 DEF InsightsInv, InsightsTyped
  <1>3. CardAsRead'
    <2> SUFFICES ASSUME NEW q \in Runs, job'[q].pc = "upsert", job'[q].k # 0
                 PROVE  /\ job'[q].rev <= cards[job'[q].k].rev
                        /\ job'[q].rev = cards[job'[q].k].rev => job'[q].had = cards[job'[q].k].n
      BY DEF CardAsRead
    <2>1. CASE q = r
      <3>1. job'[q].rev = cards[job'[q].k].rev /\ job'[q].rev \in Nat /\ job'[q].had = cards[job'[q].k].n
        BY <1>1, <2>1 DEF Job
      <3> QED BY <3>1
    <2>2. CASE q # r
      BY <1>1, <2>2 DEF InsightsInv, CardAsRead
    <2> QED BY <2>1, <2>2
  <1>4. NoFirstProfile => NoFirstProfile'
    BY <1>1 DEF NoFirstProfile
  <1>5. ProfileRead'
    BY <1>1, <1>4 DEF InsightsInv, ProfileRead
  <1> QED BY <1>2, <1>3, <1>5 DEF InsightsInv

(* A run changes cards: each that it changes gets a new rev.               *)
LEMMA CardsChange ==
    ASSUME InsightsInv, NEW r \in Runs, NEW j \in Job, Set(r, j), j.pc \notin {"profile", "upsert", "hide"},
           j.k <= Len(cards), cards' \in Seq(Card), Len(cards') >= Len(cards),
           \A k \in Cards : cards'[k] = cards[k] \/ cards'[k].rev > cards[k].rev,
           UNCHANGED <<tastingCount, profile, runsLeft>>
    PROVE  InsightsInv'
  <1>1. /\ job' \in [Runs -> Job] /\ job'[r] = j
        /\ \A q \in Runs : q # r => job'[q] = job[q]
    BY JobSet
  <1>2. /\ \A q \in Runs : /\ job[q].k <= Len(cards)
                           /\ job[q].pc = "hide" => job[q].k # 0
                           /\ job[q].pc = "upsert" => job[q].pattern \in Patterns
        /\ Len(cards) \in Nat /\ Len(cards') \in Nat /\ job \in [Runs -> Job]
    BY DEF InsightsInv, InsightsTyped
  <1>3. ASSUME NEW q \in Runs
        PROVE  /\ job'[q].k <= Len(cards')
               /\ job'[q].pc = "hide" => job'[q].k # 0
               /\ job'[q].pc = "upsert" => job'[q].pattern \in Patterns
    <2>1. /\ job'[q].k \in Nat /\ job'[q].k <= Len(cards)
          /\ job'[q].pc = "hide" => job'[q].k # 0
          /\ job'[q].pc = "upsert" => job'[q].pattern \in Patterns
      <3>0. job'[q] \in Job
        BY <1>1
      <3>1. job'[q].k \in Nat
        BY <3>0 DEF Job
      <3>2. CASE q = r
        BY <1>1, <3>1, <3>2
      <3>3. CASE q # r
        BY <1>1, <1>2, <3>1, <3>3
      <3> QED BY <3>2, <3>3
    <2> QED BY <1>2, <2>1
  <1>4. InsightsTyped'
    BY <1>1, <1>3 DEF InsightsInv, InsightsTyped
  <1>5. CardAsRead'
    <2> SUFFICES ASSUME NEW q \in Runs, job'[q].pc = "upsert", job'[q].k # 0
                 PROVE  /\ job'[q].rev <= cards'[job'[q].k].rev
                        /\ job'[q].rev = cards'[job'[q].k].rev => job'[q].had = cards'[job'[q].k].n
      BY DEF CardAsRead
    <2>1. job'[q] = job[q] /\ job[q] \in Job
      BY <1>1, <1>2
    <2>2. job[q].k \in Cards /\ job[q].rev \in Nat
      <3>1. job[q].k \in Nat /\ job[q].rev \in Nat
        BY <2>1 DEF Job
      <3>2. job[q].k # 0
        BY <2>1
      <3>3. job[q].k <= Len(cards) /\ Len(cards) \in Nat
        BY <1>2
      <3> QED BY <3>1, <3>2, <3>3 DEF Cards
    <2>3. /\ job[q].rev <= cards[job[q].k].rev
          /\ job[q].rev = cards[job[q].k].rev => job[q].had = cards[job[q].k].n
      BY <2>1 DEF InsightsInv, CardAsRead
    <2>4. cards[job[q].k].rev \in Nat /\ cards'[job[q].k].rev \in Nat
      <3>1. cards \in Seq(Card) /\ job[q].k \in 1..Len(cards) /\ job[q].k \in 1..Len(cards')
        BY <1>2, <2>2 DEF InsightsInv, InsightsTyped, Cards
      <3>2. cards[job[q].k] \in Card /\ cards'[job[q].k] \in Card
        BY <3>1
      <3> QED BY <3>2 DEF Card
    <2> QED BY <2>1, <2>2, <2>3, <2>4
  <1>6. NoFirstProfile => NoFirstProfile'
    BY <1>1 DEF NoFirstProfile
  <1>7. ProfileRead'
    BY <1>1, <1>6 DEF InsightsInv, ProfileRead
  <1> QED BY <1>4, <1>5, <1>7 DEF InsightsInv

-----------------------------------------------------------------------------
(* The runs of session B.                                                  *)

LEMMA AddTastingStep == ASSUME InsightsInv, AddTasting PROVE InsightsInv'
  <1>1. tastingCount' \in Nat /\ UNCHANGED <<cards, profile, job, runsLeft>>
    BY DEF AddTasting, InsightsInv, InsightsTyped
  <1> QED BY <1>1 DEF InsightsInv, InsightsTyped, CardAsRead, ProfileRead, NoFirstProfile

LEMMA RefreshGoesOn ==
    ASSUME InsightsInv, NEW r \in Runs, RefreshBegins(r) \/ RefreshLoads(r)
    PROVE  InsightsInv'
  <1>0. job[r] \in Job /\ tastingCount \in Nat /\ runsLeft \in Nat /\ job[r].k <= Len(cards)
    BY DEF InsightsInv, InsightsTyped
  <1>1. CASE RefreshBegins(r)
    <2> DEFINE j == [NoJob EXCEPT !.pc = IF ShouldRefreshProfile(tastingCount) THEN "load" ELSE "judge"]
    <2>1. /\ Set(r, j) /\ UNCHANGED <<tastingCount, cards, profile>>
          /\ runsLeft > 0 /\ runsLeft' = runsLeft - 1
      BY <1>1 DEF RefreshBegins, Starts
    <2>2. j \in Job /\ j.pc \in {"load", "judge"} /\ j.k = 0
      BY DEF NoJob, NoProfile, Job
    <2>3. 0 <= Len(cards) /\ tastingCount' \in Nat /\ runsLeft' \in Nat
      BY <1>0, <2>1 DEF InsightsInv, InsightsTyped
    <2> HIDE DEF j
    <2> QED BY <2>1, <2>2, <2>3, JobGoesOn
  <1>2. CASE RefreshLoads(r)
    <2> DEFINE j == [job[r] EXCEPT !.pc = "narrate", !.tastings = tastingCount]
    <2>1. Set(r, j) /\ UNCHANGED <<tastingCount, cards, profile, runsLeft>>
      BY <1>2 DEF RefreshLoads, Only
    <2>2. j \in Job /\ j.pc = "narrate" /\ j.k = job[r].k
      BY <1>0 DEF Job
    <2> HIDE DEF j
    <2> QED BY <1>0, <2>1, <2>2, JobGoesOn
  <1> QED BY <1>1, <1>2

(* The profile is read: what is read is what is there, and if no run that  *)
(* is about to write had found none, then every one had found a profile.   *)
LEMMA RefreshReadStep == ASSUME InsightsInv, NEW r \in Runs, RefreshRead(r) PROVE InsightsInv'
  <1> DEFINE calm == \A q \in Runs : job[q].pc = "profile" => job[q].saw.exists
             j == [job[r] EXCEPT !.pc = "profile", !.saw = profile, !.settled = calm]
  <1>1. /\ job[r].pc = "narrate" /\ Set(r, j) /\ UNCHANGED <<tastingCount, cards, profile, runsLeft>>
    BY DEF RefreshRead, Only
  <1>2. /\ job[r] \in Job /\ job[r].k <= Len(cards) /\ calm \in BOOLEAN
        /\ profile \in [exists : BOOLEAN, tastings : Nat, rev : Nat]
    BY DEF InsightsInv, InsightsTyped
  <1>3. calm = NoFirstProfile
    BY DEF NoFirstProfile
  <1> HIDE DEF calm
  <1>4. j \in Job /\ j.pc = "profile" /\ j.saw = profile /\ j.settled = calm /\ j.k = job[r].k
    BY <1>2 DEF Job
  <1> HIDE DEF j
  <1>5. /\ job' \in [Runs -> Job] /\ job'[r] = j
        /\ \A q \in Runs : q # r => job'[q] = job[q]
    BY <1>1, <1>4, JobSet
  <1>6. InsightsTyped'
    BY <1>1, <1>2, <1>4, <1>5 DEF InsightsInv, InsightsTyped
  <1>7. CardAsRead'
    BY <1>1, <1>4, <1>5 DEF InsightsInv, CardAsRead
  <1>8. NoFirstProfile /\ profile.exists => NoFirstProfile'
    BY <1>4, <1>5 DEF NoFirstProfile
  <1>9. ProfileRead'
    <2> SUFFICES ASSUME NEW q \in Runs, job'[q].pc = "profile", job'[q].saw.exists
                 PROVE  /\ profile.exists
                        /\ job'[q].settled => /\ NoFirstProfile'
                                              /\ job'[q].saw.rev <= profile.rev
                                              /\ job'[q].saw.rev = profile.rev => job'[q].saw = profile
      BY <1>1 DEF ProfileRead
    <2>1. CASE q = r
      BY <1>2, <1>3, <1>4, <1>5, <1>8, <2>1
    <2>2. CASE q # r
      BY <1>5, <1>8, <2>2 DEF InsightsInv, ProfileRead
    <2> QED BY <2>1, <2>2
  <1> QED BY <1>6, <1>7, <1>9 DEF InsightsInv

(* The profile is written over nothing or over what was read; the second   *)
(* outdates whoever else has read that, and the first meets nobody who has *)
(* a profile in hand that was settled.                                     *)
LEMMA RefreshWriteStep == ASSUME InsightsInv, NEW r \in Runs, RefreshWrite(r) PROVE InsightsInv'
  <1>1. /\ job[r].pc = "profile" /\ job[r] \in Job
        /\ profile \in [exists : BOOLEAN, tastings : Nat, rev : Nat]
    BY DEF RefreshWrite, InsightsInv, InsightsTyped
  <1>2. CASE job[r].saw.exists /\ profile.rev # job[r].saw.rev
    <2>1. Set(r, NoJob) /\ UNCHANGED <<tastingCount, cards, profile, runsLeft>>
      BY <1>2 DEF RefreshWrite, Only
    <2>2. 0 <= Len(cards) /\ tastingCount \in Nat /\ runsLeft \in Nat
      BY DEF InsightsInv, InsightsTyped
    <2> QED BY <2>1, <2>2, NoJobTyped, JobGoesOn
  <1>3. CASE ~(job[r].saw.exists /\ profile.rev # job[r].saw.rev)
    <2> DEFINE j == [NoJob EXCEPT !.pc = "judge"]
    <2>1. Set(r, j) /\ profile' = ProfileOf(r) /\ UNCHANGED <<tastingCount, cards, runsLeft>>
      BY <1>3 DEF RefreshWrite
    <2>2. j \in Job /\ j.pc = "judge" /\ j.k = 0
      BY DEF NoJob, NoProfile, Job
    <2> HIDE DEF j
    <2>3. /\ job' \in [Runs -> Job] /\ job'[r] = j
          /\ \A q \in Runs : q # r => job'[q] = job[q]
      BY <2>1, <2>2, JobSet
    <2>4. /\ profile' \in [exists : BOOLEAN, tastings : Nat, rev : Nat] /\ profile'.exists
          /\ job[r].saw.exists => profile'.rev > profile.rev
      <3>1. job[r].saw.rev + 1 \in Nat /\ job[r].tastings \in Nat /\ job[r].saw.rev \in Nat
        BY <1>1 DEF Job
      <3> QED BY <1>1, <1>3, <2>1, <3>1 DEF ProfileOf
    <2>5. InsightsTyped'
      BY <2>1, <2>2, <2>3, <2>4 DEF InsightsInv, InsightsTyped
    <2>6. CardAsRead'
      BY <2>1, <2>2, <2>3 DEF InsightsInv, CardAsRead
    <2>7. NoFirstProfile => NoFirstProfile'
      BY <2>2, <2>3 DEF NoFirstProfile
    <2>8. ProfileRead'
      <3> SUFFICES ASSUME NEW q \in Runs, job'[q].pc = "profile", job'[q].saw.exists
                   PROVE  /\ profile'.exists
                          /\ job'[q].settled => /\ NoFirstProfile'
                                                /\ job'[q].saw.rev <= profile'.rev
                                                /\ job'[q].saw.rev = profile'.rev => job'[q].saw = profile'
        BY DEF ProfileRead
      <3>1. q # r /\ job'[q] = job[q] /\ job[q].saw.rev \in Nat
        BY <2>2, <2>3 DEF Job
      <3>2. job[q].settled => NoFirstProfile /\ job[q].saw.rev <= profile.rev
        BY <3>1 DEF InsightsInv, ProfileRead
      <3>3. job[q].settled => profile'.rev > profile.rev
        BY <1>1, <2>4, <3>2 DEF NoFirstProfile
      <3>4. profile.rev \in Nat /\ profile'.rev \in Nat
        BY <1>1, <2>4
      <3> QED BY <2>4, <2>7, <3>1, <3>2, <3>3, <3>4
    <2> QED BY <2>5, <2>6, <2>8 DEF InsightsInv
  <1> QED BY <1>2, <1>3

-----------------------------------------------------------------------------
(* Cards.                                                                  *)

LEMMA DiscoveryGoesOn ==
    ASSUME InsightsInv, NEW r \in Runs, DiscoveryBegins(r) \/ DiscoveryLists(r) \/ DiscoveryEnds(r)
    PROVE  InsightsInv'
  <1>1. /\ job[r] \in Job /\ tastingCount \in Nat /\ runsLeft \in Nat /\ job[r].k <= Len(cards)
        /\ 0 <= Len(cards) /\ cards \in Seq(Card)
    BY DEF InsightsInv, InsightsTyped
  <1>2. UNCHANGED <<tastingCount, cards, profile, runsLeft>>
    BY DEF DiscoveryBegins, DiscoveryLists, DiscoveryEnds, Only
  <1>3. CASE Set(r, NoJob)
    BY <1>1, <1>2, <1>3, NoJobTyped, JobGoesOn
  <1>4. CASE Set(r, [NoJob EXCEPT !.pc = "list"])
    <2> DEFINE j == [NoJob EXCEPT !.pc = "list"]
    <2>1. j \in Job /\ j.pc = "list" /\ j.k = 0 /\ Set(r, j)
      BY <1>4 DEF NoJob, NoProfile, Job
    <2> HIDE DEF j
    <2> QED BY <1>1, <1>2, <2>1, JobGoesOn
  <1>5. CASE DiscoveryLists(r)
    <2> DEFINE j == [job[r] EXCEPT !.pc = "propose", !.known = Listing]
    <2>1. Listing \in SUBSET [pattern : Patterns, hidden : BOOLEAN]
      <3>1. \A k \in Cards : cards[k] \in Card
        BY <1>1 DEF Cards
      <3> QED BY <3>1 DEF Listing, Card
    <2>2. Set(r, j)
      BY <1>5 DEF DiscoveryLists, Only
    <2>3. j \in Job /\ j.pc = "propose" /\ j.k = job[r].k
      BY <1>1, <2>1 DEF Job
    <2> HIDE DEF j
    <2> QED BY <1>1, <1>2, <2>2, <2>3, JobGoesOn
  <1> QED BY <1>3, <1>4, <1>5 DEF DiscoveryBegins, DiscoveryEnds, Only

(* A set of positions has a last one.                                      *)
LEMMA LargestOf ==
    ASSUME NEW n \in Nat, NEW S \in SUBSET (1..n), S # {}
    PROVE  \E x \in S : \A y \in S : y <= x
  <1> DEFINE above(x) == {y \in S : x < y}
             T == {above(x) : x \in S}
  <1>1. \A x \in S : above(x) \in FiniteSubsetsOf(1..n)
    <2> TAKE x \in S
    <2>1. IsFiniteSet(1..n)
      BY FS_Interval
    <2>2. above(x) \in SUBSET (1..n)
      OBVIOUS
    <2> QED BY <2>1, <2>2, FS_Subset DEF FiniteSubsetsOf
  <1>2. T \subseteq FiniteSubsetsOf(1..n) /\ T # {}
    BY <1>1
  <1>3. IsWellFoundedOn(StrictSubsetOrdering(1..n), FiniteSubsetsOf(1..n))
    BY FS_StrictSubsetOrderingWellFounded
  <1> HIDE DEF T
  <1>4. PICK m \in T : \A t \in T : ~(<<t, m>> \in StrictSubsetOrdering(1..n))
    BY <1>2, <1>3, WFMin
  <1> USE DEF T
  <1>5. PICK x \in S : m = above(x)
    BY <1>4
  <1>6. ASSUME NEW y \in S, x < y PROVE FALSE
    <2>0. x \in Int /\ y \in Int /\ \A z \in S : z \in Int
      OBVIOUS
    <2>1. above(y) \subseteq above(x) /\ y \in above(x) /\ y \notin above(y)
      <3>1. ASSUME NEW z \in above(y) PROVE z \in above(x)
        <4>1. z \in S /\ y < z /\ z \in Int
          BY <2>0
        <4> QED BY <1>6, <2>0, <4>1
      <3>2. y \in above(x)
        BY <1>6
      <3>3. ~(y < y)
        BY <2>0
      <3> QED BY <3>1, <3>2, <3>3
    <2>2. above(y) \in SUBSET (1..n) /\ above(x) \in SUBSET (1..n) /\ above(y) \in T
      OBVIOUS
    <2>3. <<above(y), above(x)>> \in StrictSubsetOrdering(1..n)
      BY <2>1, <2>2 DEF StrictSubsetOrdering
    <2> QED BY <1>4, <1>5, <2>2, <2>3
  <1> QED BY <1>6

LEMMA Appended ==
    ASSUME InsightsInv, NEW p \in Patterns, NEW n \in Nat, cards' = Append(cards, NewCard(p, n))
    PROVE  /\ cards' \in Seq(Card) /\ Len(cards') = Len(cards) + 1
           /\ \A k \in Cards : cards'[k] = cards[k]
           /\ cards'[Len(cards')].pattern = p
  <1>1. NewCard(p, n) \in Card /\ NewCard(p, n).pattern = p
    BY DEF NewCard, Card
  <1> QED BY <1>1 DEF InsightsInv, InsightsTyped, Cards

LEMMA ProposeStep == ASSUME InsightsInv, NEW r \in Runs, Propose(r) PROVE InsightsInv'
  <1>1. /\ job[r].pc = "propose" /\ job[r] \in Job /\ job[r].k <= Len(cards) /\ tastingCount \in Nat
        /\ Len(cards) \in Nat
    BY DEF Propose, InsightsInv, InsightsTyped
  <1>2. PICK p \in Patterns, n \in 1..tastingCount : cards' = Append(cards, NewCard(p, n))
    BY DEF Propose
  <1> DEFINE j == [job[r] EXCEPT !.n = @ + 1]
  <1>3. Set(r, j) /\ UNCHANGED <<tastingCount, profile, runsLeft>>
    BY DEF Propose
  <1>4. job[r].n + 1 \in Nat
    BY <1>1 DEF Job
  <1>5. j \in Job /\ j.pc = "propose" /\ j.k = job[r].k
    BY <1>1, <1>4 DEF Job
  <1> HIDE DEF j
  <1>6. n \in Nat
    BY <1>1
  <1>7. /\ cards' \in Seq(Card) /\ Len(cards') = Len(cards) + 1
        /\ \A k \in Cards : cards'[k] = cards[k]
    BY <1>2, <1>6, Appended
  <1>8. Len(cards') >= Len(cards) /\ \A k \in Cards : cards'[k] = cards[k] \/ cards'[k].rev > cards[k].rev
    BY <1>1, <1>7
  <1> QED BY <1>1, <1>3, <1>5, <1>7, <1>8, CardsChange

(* An upsert lists the cards and remembers the newest of its pattern.      *)
LEMMA UpsertReads ==
    ASSUME InsightsInv, NEW r \in Runs, UpsertBegins(r)
    PROVE  \E j \in Job : /\ Starts(r, j) /\ j.pc = "upsert" /\ j.pattern \in Patterns /\ j.k <= Len(cards)
                          /\ j.k # 0 => /\ j.k \in Cards /\ j.had = cards[j.k].n
                                        /\ j.rev = cards[j.k].rev
  <1>1. /\ tastingCount \in Nat /\ runsLeft \in Nat /\ cards \in Seq(Card) /\ Len(cards) \in Nat
        /\ MinSample \in Nat
    BY InsightsAssumption DEF InsightsInv, InsightsTyped, InsightsAssumption
  <1>2. PICK p \in Patterns, n \in MinSample..tastingCount :
           LET same == {k \in Cards : cards[k].pattern = p}
               k    == IF same = {} THEN 0 ELSE CHOOSE x \in same : \A y \in same : y <= x
           IN  Starts(r, [NoJob EXCEPT !.pc = "upsert", !.pattern = p, !.n = n, !.k = k,
                             !.had = IF k = 0 THEN 0 ELSE cards[k].n,
                             !.rev = IF k = 0 THEN 0 ELSE cards[k].rev])
    BY DEF UpsertBegins
  <1> DEFINE same == {k \in Cards : cards[k].pattern = p}
             best == CHOOSE x \in same : \A y \in same : y <= x
  <1>3. same # {} => best \in Cards
    <2> SUFFICES ASSUME same # {} PROVE best \in Cards
      OBVIOUS
    <2>1. \E x \in same : \A y \in same : y <= x
      <3>1. same \subseteq 1..Len(cards)
        BY DEF Cards
      <3> HIDE DEF same
      <3> QED BY <1>1, <3>1, LargestOf
    <2>2. best \in same
      BY <2>1
    <2> QED BY <2>2
  <1> HIDE DEF best
  <1> DEFINE k == IF same = {} THEN 0 ELSE best
             j == [NoJob EXCEPT !.pc = "upsert", !.pattern = p, !.n = n, !.k = k,
                             !.had = IF k = 0 THEN 0 ELSE cards[k].n,
                             !.rev = IF k = 0 THEN 0 ELSE cards[k].rev]
  <1>4. Starts(r, j)
    BY <1>2 DEF best
  <1>5. k = 0 \/ k \in Cards
    BY <1>3
  <1> HIDE DEF same, k
  <1>6. k # 0 => cards[k].n \in Nat /\ cards[k].rev \in Nat
    <2>1. k # 0 => cards[k] \in Card
      BY <1>1, <1>5 DEF Cards
    <2> QED BY <2>1 DEF Card
  <1>7. k \in Nat /\ k <= Len(cards) /\ n \in Nat
    BY <1>1, <1>5 DEF Cards
  <1>8. j \in Job /\ j.pc = "upsert" /\ j.k = k /\ j.pattern = p /\ (k # 0 => j.had = cards[k].n /\ j.rev = cards[k].rev)
    BY <1>6, <1>7 DEF NoJob, NoProfile, Job
  <1> HIDE DEF j
  <1> QED BY <1>4, <1>5, <1>7, <1>8

LEMMA UpsertBeginsStep == ASSUME InsightsInv, NEW r \in Runs, UpsertBegins(r) PROVE InsightsInv'
  <1>1. tastingCount \in Nat /\ runsLeft \in Nat /\ cards \in Seq(Card) /\ Len(cards) \in Nat
    BY DEF InsightsInv, InsightsTyped
  <1>2. PICK j \in Job : /\ Starts(r, j) /\ j.pc = "upsert" /\ j.pattern \in Patterns /\ j.k <= Len(cards)
                         /\ j.k # 0 => /\ j.k \in Cards /\ j.had = cards[j.k].n
                                       /\ j.rev = cards[j.k].rev
    BY UpsertReads
  <1>3. Set(r, j) /\ UNCHANGED <<tastingCount, cards, profile>> /\ runsLeft' \in Nat
    BY <1>1, <1>2 DEF Starts
  <1> QED BY <1>1, <1>2, <1>3, JobGoesOn

(* A card that a run has in hand, and the same one with a new rev.         *)
LEMMA CardPatched ==
    ASSUME InsightsInv, NEW k \in Cards, NEW e \in Card, e.rev = cards[k].rev + 1,
           cards' = [cards EXCEPT ![k] = e]
    PROVE  /\ cards' \in Seq(Card) /\ Len(cards') = Len(cards) /\ cards'[k] = e
           /\ \A l \in Cards : l # k => cards'[l] = cards[l]
           /\ \A l \in Cards : cards'[l] = cards[l] \/ cards'[l].rev > cards[l].rev
  <1>1. cards \in Seq(Card) /\ k \in 1..Len(cards) /\ cards[k] \in Card
    BY DEF InsightsInv, InsightsTyped, Cards
  <1>2. cards[k].rev \in Nat
    BY <1>1 DEF Card
  <1>3. /\ cards' \in Seq(Card) /\ Len(cards') = Len(cards) /\ cards'[k] = e
        /\ \A l \in 1..Len(cards) : l # k => cards'[l] = cards[l]
    BY <1>1
  <1>4. cards'[k].rev > cards[k].rev
    BY <1>2, <1>3
  <1> QED BY <1>3, <1>4 DEF Cards

(* What an upsert writes: a card of its own, or the same one with a larger *)
(* sample and as hidden as it was.                                         *)
LEMMA UpsertWrites ==
    ASSUME InsightsInv, NEW r \in Runs, UpsertWrite(r),
           ~(job[r].k # 0 /\ (job[r].n <= job[r].had \/ cards[job[r].k].rev # job[r].rev))
    PROVE  /\ cards' \in Seq(Card) /\ Len(cards') >= Len(cards)
           /\ \A k \in Cards : cards'[k] = cards[k] \/ cards'[k].rev > cards[k].rev
           /\ \A k \in Cards : cards'[k].n >= cards[k].n /\ (cards[k].hidden => cards'[k].hidden)
  <1>1. /\ job[r].pc = "upsert" /\ job[r] \in Job /\ job[r].k <= Len(cards) /\ Len(cards) \in Nat
        /\ cards \in Seq(Card) /\ \A k \in Cards : cards[k] \in Card
    BY DEF UpsertWrite, InsightsInv, InsightsTyped, Cards
  <1>2. \A k \in Cards : cards[k].n \in Nat /\ cards[k].rev \in Nat
    BY <1>1 DEF Card
  <1>3. job[r].k \in Nat /\ job[r].n \in Nat /\ job[r].had \in Nat
    BY <1>1 DEF Job
  <1>4. CASE job[r].k = 0
    <2>1. cards' = Append(cards, NewCard(job[r].pattern, job[r].n))
      BY <1>4 DEF UpsertWrite
    <2>2. job[r].pattern \in Patterns
      BY <1>1 DEF InsightsInv, InsightsTyped
    <2>3. /\ cards' \in Seq(Card) /\ Len(cards') = Len(cards) + 1
          /\ \A k \in Cards : cards'[k] = cards[k]
      BY <1>3, <2>1, <2>2, Appended
    <2> QED BY <1>1, <1>2, <2>3
  <1>5. CASE job[r].k # 0
    <2> DEFINE k == job[r].k
               e == [cards[k] EXCEPT !.n = job[r].n, !.rev = @ + 1]
    <2>1. k \in Cards
      BY <1>1, <1>3, <1>5 DEF Cards
    <2>2. cards' = [cards EXCEPT ![k] = e]
      BY <1>1, <1>5, <2>1 DEF UpsertWrite, Cards
    <2>3. cards[k].rev + 1 \in Nat /\ cards[k] \in Card
      BY <1>1, <1>2, <2>1
    <2>4. e \in Card /\ e.rev = cards[k].rev + 1 /\ e.n = job[r].n /\ e.hidden = cards[k].hidden
      BY <1>3, <2>3 DEF Card
    <2> HIDE DEF e
    <2>5. job[r].n > cards[k].n
      BY <1>1, <1>2, <1>3, <1>5, <2>1 DEF InsightsInv, CardAsRead
    <2>6. /\ cards' \in Seq(Card) /\ Len(cards') = Len(cards) /\ cards'[k] = e
          /\ \A l \in Cards : l # k => cards'[l] = cards[l]
          /\ \A l \in Cards : cards'[l] = cards[l] \/ cards'[l].rev > cards[l].rev
      BY <2>1, <2>2, <2>4, CardPatched
    <2>7. ASSUME NEW l \in Cards PROVE cards'[l].n >= cards[l].n /\ (cards[l].hidden => cards'[l].hidden)
      <3>1. CASE l = k
        BY <1>2, <1>3, <2>1, <2>4, <2>5, <2>6, <3>1
      <3>2. CASE l # k
        BY <1>2, <2>6, <3>2
      <3> QED BY <3>1, <3>2
    <2> QED BY <1>1, <2>6, <2>7
  <1> QED BY <1>4, <1>5

LEMMA UpsertWriteStep == ASSUME InsightsInv, NEW r \in Runs, UpsertWrite(r) PROVE InsightsInv'
  <1>1. /\ 0 <= Len(cards) /\ tastingCount \in Nat /\ runsLeft \in Nat
    BY DEF InsightsInv, InsightsTyped
  <1>2. Set(r, NoJob) /\ UNCHANGED <<tastingCount, profile, runsLeft>>
    BY DEF UpsertWrite, Only
  <1>3. CASE job[r].k # 0 /\ (job[r].n <= job[r].had \/ cards[job[r].k].rev # job[r].rev)
    <2>1. UNCHANGED cards
      BY <1>3 DEF UpsertWrite, Only
    <2> QED BY <1>1, <1>2, <2>1, NoJobTyped, JobGoesOn
  <1>4. CASE ~(job[r].k # 0 /\ (job[r].n <= job[r].had \/ cards[job[r].k].rev # job[r].rev))
    <2>1. /\ cards' \in Seq(Card) /\ Len(cards') >= Len(cards)
          /\ \A k \in Cards : cards'[k] = cards[k] \/ cards'[k].rev > cards[k].rev
      BY <1>4, UpsertWrites
    <2> QED BY <1>1, <1>2, <2>1, NoJobTyped, CardsChange
  <1> QED BY <1>3, <1>4

(* A hiding remembers the rev of its page.                                 *)
LEMMA HideReads ==
    ASSUME InsightsInv, NEW r \in Runs, HideBegins(r)
    PROVE  \E j \in Job : /\ Starts(r, j) /\ j.pc = "hide" /\ j.k \in Cards /\ j.k # 0
                          /\ j.k <= Len(cards) /\ j.rev = cards[j.k].rev
  <1>1. cards \in Seq(Card) /\ Len(cards) \in Nat
    BY DEF InsightsInv, InsightsTyped
  <1>2. PICK k \in Cards : Starts(r, [NoJob EXCEPT !.pc = "hide", !.k = k, !.rev = cards[k].rev])
    BY DEF HideBegins
  <1> DEFINE j == [NoJob EXCEPT !.pc = "hide", !.k = k, !.rev = cards[k].rev]
  <1>3. k \in Nat /\ k # 0 /\ k <= Len(cards) /\ cards[k] \in Card
    BY <1>1 DEF Cards
  <1>4. cards[k].rev \in Nat
    BY <1>3 DEF Card
  <1>5. j \in Job /\ j.pc = "hide" /\ j.k = k /\ j.rev = cards[k].rev
    BY <1>3, <1>4 DEF NoJob, NoProfile, Job
  <1>6. Starts(r, j)
    BY <1>2
  <1> HIDE DEF j
  <1> QED BY <1>3, <1>5, <1>6

LEMMA HideBeginsStep == ASSUME InsightsInv, NEW r \in Runs, HideBegins(r) PROVE InsightsInv'
  <1>1. tastingCount \in Nat /\ runsLeft \in Nat /\ cards \in Seq(Card) /\ Len(cards) \in Nat
    BY DEF InsightsInv, InsightsTyped
  <1>2. PICK j \in Job : /\ Starts(r, j) /\ j.pc = "hide" /\ j.k \in Cards /\ j.k # 0
                         /\ j.k <= Len(cards) /\ j.rev = cards[j.k].rev
    BY HideReads
  <1>3. Set(r, j) /\ UNCHANGED <<tastingCount, cards, profile>> /\ runsLeft' \in Nat
    BY <1>1, <1>2 DEF Starts
  <1> QED BY <1>1, <1>2, <1>3, JobGoesOn

(* What hiding writes: the same card, hidden.                              *)
LEMMA HideWrites ==
    ASSUME InsightsInv, NEW r \in Runs, HideWrite(r), cards[job[r].k].rev = job[r].rev
    PROVE  /\ cards' \in Seq(Card) /\ Len(cards') >= Len(cards)
           /\ \A k \in Cards : cards'[k] = cards[k] \/ cards'[k].rev > cards[k].rev
           /\ \A k \in Cards : cards'[k].n >= cards[k].n /\ (cards[k].hidden => cards'[k].hidden)
  <1>1. /\ job[r].pc = "hide" /\ job[r] \in Job /\ job[r].k <= Len(cards) /\ job[r].k # 0
        /\ Len(cards) \in Nat /\ cards \in Seq(Card) /\ \A k \in Cards : cards[k] \in Card
    BY DEF HideWrite, InsightsInv, InsightsTyped, Cards
  <1>2. \A k \in Cards : cards[k].n \in Nat /\ cards[k].rev \in Nat
    BY <1>1 DEF Card
  <1> DEFINE k == job[r].k
             e == [cards[k] EXCEPT !.hidden = TRUE, !.rev = @ + 1]
  <1>3. job[r].k \in Nat
    BY <1>1 DEF Job
  <1>4. k \in Cards
    BY <1>1, <1>3 DEF Cards
  <1>5. cards' = [cards EXCEPT ![k] = e]
    BY <1>1, <1>4 DEF HideWrite, Cards
  <1>6. cards[k].rev + 1 \in Nat /\ cards[k] \in Card
    BY <1>1, <1>2, <1>4
  <1>7. e \in Card /\ e.rev = cards[k].rev + 1 /\ e.n = cards[k].n /\ e.hidden
    BY <1>6 DEF Card
  <1> HIDE DEF e
  <1>8. /\ cards' \in Seq(Card) /\ Len(cards') = Len(cards) /\ cards'[k] = e
        /\ \A l \in Cards : l # k => cards'[l] = cards[l]
        /\ \A l \in Cards : cards'[l] = cards[l] \/ cards'[l].rev > cards[l].rev
    BY <1>4, <1>5, <1>7, CardPatched
  <1>9. ASSUME NEW l \in Cards PROVE cards'[l].n >= cards[l].n /\ (cards[l].hidden => cards'[l].hidden)
    <2>1. CASE l = k
      BY <1>2, <1>4, <1>7, <1>8, <2>1
    <2>2. CASE l # k
      BY <1>2, <1>8, <2>2
    <2> QED BY <2>1, <2>2
  <1> QED BY <1>1, <1>8, <1>9

LEMMA HideWriteStep == ASSUME InsightsInv, NEW r \in Runs, HideWrite(r) PROVE InsightsInv'
  <1>1. /\ 0 <= Len(cards) /\ tastingCount \in Nat /\ runsLeft \in Nat
    BY DEF InsightsInv, InsightsTyped
  <1>2. Set(r, NoJob) /\ UNCHANGED <<tastingCount, profile, runsLeft>>
    BY DEF HideWrite, Only
  <1>3. CASE cards[job[r].k].rev # job[r].rev
    <2>1. UNCHANGED cards
      BY <1>3 DEF HideWrite, Only
    <2> QED BY <1>1, <1>2, <2>1, NoJobTyped, JobGoesOn
  <1>4. CASE cards[job[r].k].rev = job[r].rev
    <2>1. /\ cards' \in Seq(Card) /\ Len(cards') >= Len(cards)
          /\ \A k \in Cards : cards'[k] = cards[k] \/ cards'[k].rev > cards[k].rev
      BY <1>4, HideWrites
    <2> QED BY <1>1, <1>2, <2>1, NoJobTyped, CardsChange
  <1> QED BY <1>3, <1>4

-----------------------------------------------------------------------------
(* The theorems.                                                           *)

LEMMA InsightsStart == InsightsInit => InsightsInv
  <1> SUFFICES ASSUME InsightsInit PROVE InsightsInv
    OBVIOUS
  <1>1. NoJob \in Job /\ NoJob.k = 0 /\ NoJob.pc = "idle" /\ NoProfile.exists = FALSE
        /\ NoProfile \in [exists : BOOLEAN, tastings : Nat, rev : Nat]
    BY NoJobTyped DEF NoProfile
  <1>2. job \in [Runs -> Job] /\ \A r \in Runs : job[r] = NoJob
    BY <1>1 DEF InsightsInit
  <1>3. InsightsTyped
    BY <1>1, <1>2, InsightsAssumption DEF InsightsInit, InsightsTyped, InsightsAssumption
  <1>4. CardAsRead /\ ProfileRead
    BY <1>1, <1>2 DEF CardAsRead, ProfileRead
  <1> QED BY <1>3, <1>4 DEF InsightsInv

LEMMA InsightsStep == InsightsInv /\ [InsightsNext]_insightsVars => InsightsInv'
  <1> SUFFICES ASSUME InsightsInv, [InsightsNext]_insightsVars PROVE InsightsInv'
    OBVIOUS
  <1>1. CASE UNCHANGED insightsVars
    BY <1>1 DEF insightsVars, InsightsInv, InsightsTyped, CardAsRead, ProfileRead, NoFirstProfile
  <1>2. ASSUME NEW r \in Runs,
               \/ RefreshBegins(r) \/ RefreshLoads(r) \/ RefreshRead(r) \/ RefreshWrite(r)
               \/ DiscoveryBegins(r) \/ DiscoveryLists(r) \/ Propose(r) \/ DiscoveryEnds(r)
        PROVE  InsightsInv'
    BY <1>2, RefreshGoesOn, RefreshReadStep, RefreshWriteStep, DiscoveryGoesOn, ProposeStep
  <1>3. ASSUME NEW r \in Runs, UpsertBegins(r) \/ UpsertWrite(r) \/ HideBegins(r) \/ HideWrite(r)
        PROVE  InsightsInv'
    BY <1>3, UpsertBeginsStep, UpsertWriteStep, HideBeginsStep, HideWriteStep
  <1> QED BY <1>1, <1>2, <1>3, AddTastingStep DEF InsightsNext

LEMMA InsightsAlways == InsightsSpec => []InsightsInv
  BY InsightsStart, InsightsStep, PTL DEF InsightsSpec

LEMMA InsightsTypes == InsightsSpec => []InsightsTypeOK
  <1>1. InsightsInv => InsightsTypeOK BY DEF InsightsInv, InsightsTyped, InsightsTypeOK, Job, Cards
  <1> QED BY <1>1, InsightsAlways, PTL

(* The cards that stay as they are, in every action but the three writes.  *)
LEMMA CardsStay ==
    ASSUME InsightsInv, cards' = cards
    PROVE  \A k \in Cards : (k \notin Visible => k \notin Visible') /\ cards'[k].n >= cards[k].n
  <1>1. \A k \in Cards : cards[k] \in Card
    BY DEF InsightsInv, InsightsTyped, Cards
  <1>2. \A k \in Cards : cards[k].n \in Nat
    BY <1>1 DEF Card
  <1> QED BY <1>2 DEF Visible

(* A card keeps its sample or grows it, and stays hidden, however runs and *)
(* calls of the service overlap (upsertDiscovery, hideDiscovery and the    *)
(* rev that patchDiscovery compares).                                      *)
THEOREM CardsStayKept == InsightsSpec => CardsKept
  <1> DEFINE Ok == \A k \in Cards : /\ k \notin Visible => k \notin Visible'
                                    /\ cards'[k].n >= cards[k].n
  <1>1. InsightsInv /\ [InsightsNext]_insightsVars => [Ok]_insightsVars
    <2> SUFFICES ASSUME InsightsInv, InsightsNext PROVE Ok
      OBVIOUS
    <2>1. CASE UNCHANGED cards
      BY <2>1, CardsStay
    <2>2. ASSUME \A k \in Cards : cards'[k].n >= cards[k].n /\ (cards[k].hidden => cards'[k].hidden)
          PROVE  Ok
      BY <2>2 DEF Visible
    <2>3. ASSUME NEW r \in Runs, Propose(r) PROVE Ok
      <3>1. tastingCount \in Nat /\ \A k \in Cards : cards[k] \in Card
        BY DEF InsightsInv, InsightsTyped, Cards
      <3>2. PICK p \in Patterns, n \in 1..tastingCount : cards' = Append(cards, NewCard(p, n))
        BY <2>3 DEF Propose
      <3>3. n \in Nat
        BY <3>1
      <3>4. \A k \in Cards : cards'[k] = cards[k]
        BY <3>2, <3>3, Appended
      <3>5. \A k \in Cards : cards[k].n \in Nat
        BY <3>1 DEF Card
      <3> QED BY <2>2, <3>4, <3>5
    <2>4. ASSUME NEW r \in Runs, UpsertWrite(r) PROVE Ok
      BY <2>1, <2>2, <2>4, UpsertWrites DEF UpsertWrite, Only
    <2>5. ASSUME NEW r \in Runs, HideWrite(r) PROVE Ok
      BY <2>1, <2>2, <2>5, HideWrites DEF HideWrite, Only
    <2>6. ASSUME NEW r \in Runs,
                 \/ RefreshBegins(r) \/ RefreshLoads(r) \/ RefreshRead(r) \/ RefreshWrite(r)
                 \/ DiscoveryBegins(r) \/ DiscoveryLists(r) \/ DiscoveryEnds(r)
                 \/ UpsertBegins(r) \/ HideBegins(r)
          PROVE  UNCHANGED cards
      BY <2>6 DEF RefreshBegins, RefreshLoads, RefreshRead, RefreshWrite, DiscoveryBegins,
                  DiscoveryLists, DiscoveryEnds, UpsertBegins, HideBegins, Starts, Only
    <2>7. CASE AddTasting
      BY <2>1, <2>7 DEF AddTasting
    <2> HIDE DEF Ok
    <2> QED BY <2>1, <2>3, <2>4, <2>5, <2>6, <2>7 DEF InsightsNext
  <1>2. CardsKept <=> [][Ok]_insightsVars
    BY DEF CardsKept
  <1> HIDE DEF Ok
  <1> QED BY <1>1, <1>2, InsightsAlways, PTL DEF InsightsSpec

(* A run's job after a step: its own, or what the step's run makes of it.  *)
LEMMA OtherJobsStay ==
    ASSUME InsightsInv, NEW r \in Runs, NEW q \in Runs, NEW j, job' = [job EXCEPT ![r] = j]
    PROVE  job'[q] = IF q = r THEN j ELSE job[q]
  BY DEF InsightsInv, InsightsTyped

(* Apart from the candidate that is stored, no step counts a card.         *)
LEMMA OnlyProposeCounts ==
    ASSUME InsightsInv, InsightsNext, NEW q \in Runs, job[q].pc = "propose", job'[q].n > job[q].n
    PROVE  Propose(q)
  <1>1. job[q].n \in Nat
    <2>1. job[q] \in Job
      BY NoJobTyped
    <2> QED BY <2>1 DEF Job
  <1>2. job'[q] # job[q] /\ job'[q].n # 0
    BY <1>1
  <1>3. NoJob.n = 0
    BY NoJobTyped
  <1>4. ASSUME NEW r \in Runs, NEW j, Set(r, j), job[r].pc # "propose" \/ j = NoJob PROVE FALSE
    BY <1>2, <1>3, <1>4, OtherJobsStay DEF Set
  <1>5. ASSUME NEW r \in Runs, NEW j, Starts(r, j) PROVE FALSE
    BY <1>4, <1>5 DEF Starts
  <1>6. ~AddTasting
    BY <1>2 DEF AddTasting
  <1>7. ASSUME NEW r \in Runs, RefreshBegins(r) \/ UpsertBegins(r) \/ HideBegins(r) PROVE FALSE
    BY <1>5, <1>7 DEF RefreshBegins, UpsertBegins, HideBegins
  <1>8. ASSUME NEW r \in Runs, RefreshLoads(r) \/ RefreshRead(r) \/ DiscoveryBegins(r) \/ DiscoveryLists(r)
        PROVE  FALSE
    BY <1>4, <1>8 DEF RefreshLoads, RefreshRead, DiscoveryBegins, DiscoveryLists, Only
  <1>9. ASSUME NEW r \in Runs, RefreshWrite(r) \/ UpsertWrite(r) \/ HideWrite(r) \/ DiscoveryEnds(r)
        PROVE  FALSE
    BY <1>4, <1>9 DEF RefreshWrite, UpsertWrite, HideWrite, DiscoveryEnds, Only
  <1>10. ASSUME NEW r \in Runs, Propose(r), r # q PROVE FALSE
    BY <1>2, <1>10, OtherJobsStay DEF Propose, Set
  <1> QED BY <1>6, <1>7, <1>8, <1>9, <1>10 DEF InsightsNext

(* A run of discovery proposes no pattern it found a card of when it       *)
(* began, hidden or not (isDuplicateDiscovery over the list of the node).  *)
THEOREM NoneProposedAgain == InsightsSpec => NotProposedAgain
  <1> DEFINE Ok == \A r \in Runs : job[r].pc = "propose" /\ job'[r].n > job[r].n
                      => \A card \in job[r].known : card.pattern # cards'[Len(cards')].pattern
  <1>1. InsightsInv /\ [InsightsNext]_insightsVars => [Ok]_insightsVars
    <2> SUFFICES ASSUME InsightsInv, InsightsNext, NEW r \in Runs,
                        job[r].pc = "propose", job'[r].n > job[r].n, NEW card \in job[r].known
                 PROVE  card.pattern # cards'[Len(cards')].pattern
      OBVIOUS
    <2>1. Propose(r)
      BY OnlyProposeCounts
    <2>2. PICK p \in Patterns, n \in 1..tastingCount :
             ~IsDuplicate(p, job[r].known) /\ cards' = Append(cards, NewCard(p, n))
      BY <2>1 DEF Propose
    <2>3. n \in Nat
      BY DEF InsightsInv, InsightsTyped
    <2>4. cards'[Len(cards')].pattern = p
      BY <2>2, <2>3, Appended
    <2> QED BY <2>2, <2>4 DEF IsDuplicate
  <1>2. NotProposedAgain <=> [][Ok]_insightsVars
    BY DEF NotProposedAgain
  <1> HIDE DEF Ok
  <1> QED BY <1>1, <1>2, InsightsAlways, PTL DEF InsightsSpec

(* A refresh that found a profile, while nobody was about to put a first   *)
(* one, writes over the very profile it read: no other run's refresh is    *)
(* lost (refreshTasteProfile and the rev that patchProfile compares).      *)
THEOREM ProfileIsAsRead == InsightsSpec => ProfileAsRead
  <1> DEFINE Ok == \A r \in Runs : /\ job[r].pc = "profile" /\ job'[r].pc = "judge"
                                   /\ job[r].saw.exists /\ job[r].settled
                      => profile = job[r].saw
  <1>1. InsightsInv /\ [InsightsNext]_insightsVars => [Ok]_insightsVars
    <2> SUFFICES ASSUME InsightsInv, InsightsNext, NEW q \in Runs,
                        job[q].pc = "profile", job'[q].pc = "judge", job[q].saw.exists, job[q].settled
                 PROVE  profile = job[q].saw
      OBVIOUS
    <2>1. NoJob.pc = "idle"
      BY NoJobTyped
    <2>2. ASSUME NEW r \in Runs, NEW j, Set(r, j), job[r].pc # "profile" \/ j = NoJob \/ r # q PROVE FALSE
      BY <2>1, <2>2, OtherJobsStay DEF Set
    <2>3. ~AddTasting
      BY DEF AddTasting
    <2>4. ASSUME NEW r \in Runs, NEW j, Starts(r, j) PROVE FALSE
      BY <2>2, <2>4 DEF Starts
    <2>5. ASSUME NEW r \in Runs, RefreshBegins(r) \/ UpsertBegins(r) \/ HideBegins(r) PROVE FALSE
      BY <2>4, <2>5 DEF RefreshBegins, UpsertBegins, HideBegins
    <2>6. ASSUME NEW r \in Runs, RefreshLoads(r) \/ RefreshRead(r) \/ DiscoveryBegins(r) \/ DiscoveryLists(r)
          PROVE  FALSE
      BY <2>2, <2>6 DEF RefreshLoads, RefreshRead, DiscoveryBegins, DiscoveryLists, Only
    <2>7. ASSUME NEW r \in Runs, Propose(r) \/ UpsertWrite(r) \/ HideWrite(r) \/ DiscoveryEnds(r)
          PROVE  FALSE
      BY <2>2, <2>7 DEF Propose, UpsertWrite, HideWrite, DiscoveryEnds, Only
    <2>8. ASSUME NEW r \in Runs, RefreshWrite(r) PROVE profile = job[q].saw
      <3>1. r = q
        BY <2>2, <2>8 DEF RefreshWrite, Only
      <3>2. ~(job[q].saw.exists /\ profile.rev # job[q].saw.rev)
        BY <2>2, <2>8, <3>1 DEF RefreshWrite, Only
      <3> QED BY <3>2 DEF InsightsInv, ProfileRead
    <2> QED BY <2>3, <2>5, <2>6, <2>7, <2>8 DEF InsightsNext
  <1>2. ProfileAsRead <=> [][Ok]_insightsVars
    BY DEF ProfileAsRead
  <1> HIDE DEF Ok
  <1> QED BY <1>1, <1>2, InsightsAlways, PTL DEF InsightsSpec

-----------------------------------------------------------------------------
(* The refinement of RevStore: the cards are the rows, the runs and calls  *)
(* its clients.                                                            *)

(* The rev a call will ask for is the card's or one it had before.         *)
CardsBehind ==
    /\ Len(cards) <= MaxCards
    /\ \A r \in Runs : Intends(job[r]) => job[r].rev <= cards[job[r].k].rev

CardsRefined == CardsBehind' /\ (CardStore!StoreNext \/ UNCHANGED CardStore!storeVars)

LEMMA HeldCard ==
    ASSUME InsightsInv, NEW r \in Runs, Intends(job[r])
    PROVE  /\ job[r].k \in Cards /\ cards[job[r].k] \in Card /\ cards[job[r].k].rev \in Nat
           /\ job[r].rev \in Nat
  <1>1. job[r] \in Job /\ job[r].k <= Len(cards) /\ cards \in Seq(Card) /\ job[r].k # 0
    BY DEF InsightsInv, InsightsTyped, Intends
  <1>2. job[r].k \in Nat /\ job[r].rev \in Nat BY <1>1 DEF Job
  <1>3. job[r].k \in 1..Len(cards) BY <1>1, <1>2
  <1>4. cards[job[r].k] \in Card BY <1>1, <1>3
  <1> QED BY <1>2, <1>3, <1>4 DEF Cards, Card

(* The rows and intents, as the store sees them.                           *)
LEMMA RowOfCard ==
    ASSUME NEW c \in Card
    PROVE  [pattern |-> c.pattern, n |-> c.n, hidden |-> c.hidden] \in CardData
  BY DEF Card, CardData

LEMMA CardStoreFacts ==
    ASSUME InsightsInv
    PROVE  /\ \A k \in CardKeys : CardRow(k) \in CardStore!Row
           /\ \A k \in CardKeys : CardRow(k).state = IF k \in Cards THEN "stored" ELSE "fresh"
           /\ \A r \in Runs : ~Intends(job[r]) => CardIntent(job[r]) = CardStore!NoIntent
  <1>1. \A k \in Cards : cards[k] \in Card
    BY DEF InsightsInv, InsightsTyped, Cards
  <1>2. \A k \in Cards : [pattern |-> cards[k].pattern, n |-> cards[k].n, hidden |-> cards[k].hidden] \in CardData
    BY <1>1, RowOfCard
  <1>3. NoCard \in CardData
    BY DEF NoCard, CardData
  <1>4. \A k \in CardKeys : CardRow(k) \in CardStore!Row
    BY <1>2, <1>3 DEF CardRow, CardStore!Row
  <1>5. \A r \in Runs : ~Intends(job[r]) => CardIntent(job[r]) = CardStore!NoIntent
    BY DEF CardIntent, CardStore!NoIntent
  <1> QED BY <1>4, <1>5 DEF CardRow

(* A step that leaves the cards alone.                                     *)
LEMMA QuietRunRefines ==
    ASSUME InsightsInv, CardsBehind, NEW r \in Runs, NEW j \in Job, Set(r, j), cards' = cards,
           Intends(j) => /\ ~Intends(job[r]) /\ j.k \in Cards /\ j.k <= MaxCards
                         /\ j.rev = cards[j.k].rev
    PROVE  CardsRefined
  <1>1. job'[r] = j /\ \A q \in Runs : q # r => job'[q] = job[q]
    BY JobSet
  <1>2. Cards' = Cards BY DEF Cards
  <1>3. CardRows' = CardRows
    BY <1>2 DEF CardRows, CardRow
  <1>4. CardsBehind'
    <2>1. Intends(j) => j.rev <= cards[j.k].rev
      <3>1. j.rev \in Nat BY DEF Job
      <3> QED BY <3>1
    <2> QED BY <1>1, <2>1 DEF CardsBehind
  <1>5. \A q \in Runs : q # r => CardIntents'[q] = CardIntents[q]
    BY <1>1 DEF CardIntents, CardIntent
  <1>6. CardIntents'[r] = [key |-> IF Intends(j) THEN j.k ELSE 0,
                           current |-> Intends(j) /\ cards[j.k].rev = j.rev]
    BY <1>1 DEF CardIntents, CardIntent
  <1>7. CASE Intends(j)
    <2>1. CardIntents'[r] = [key |-> j.k, current |-> TRUE]
      BY <1>6, <1>7
    <2>2. CardIntents' = [CardIntents EXCEPT ![r] = [key |-> j.k, current |-> TRUE]]
      BY <1>5, <2>1 DEF CardIntents
    <2>3. j.k \in CardKeys
      BY <1>7 DEF Job, Intends, CardKeys, CardsBehind, Cards
    <2>4. CardRows[j.k].state = "stored" /\ CardIntents[r] = CardStore!NoIntent
      BY <1>7, <2>3, CardStoreFacts DEF CardRows, CardIntents
    <2>5. CardStore!ReadRow(r, j.k)
      BY <1>3, <2>2, <2>4 DEF CardStore!ReadRow
    <2> QED BY <1>4, <2>3, <2>5 DEF CardsRefined, CardStore!StoreNext
  <1>8. CASE ~Intends(j)
    <2>1. CardIntents'[r] = CardStore!NoIntent
      BY <1>6, <1>8 DEF CardStore!NoIntent
    <2>2. CardIntents' = [CardIntents EXCEPT ![r] = CardStore!NoIntent]
      BY <1>5, <2>1 DEF CardIntents
    <2>3. CardStore!GiveUp(r)
      BY <1>3, <2>2 DEF CardStore!GiveUp
    <2> QED BY <1>4, <2>3 DEF CardsRefined, CardStore!StoreNext
  <1> QED BY <1>7, <1>8

(* Card k is written: no other row changes.                                *)
LEMMA CardBecomes ==
    ASSUME InsightsInv', NEW k \in CardKeys, k \in Cards',
           \A l \in CardKeys : l # k => (l \in Cards' <=> l \in Cards)
           /\ (l \in Cards => cards'[l] = cards[l])
    PROVE  CardStore!Becomes(k, "stored")
  <1>1. \A l \in CardKeys : l # k => CardRows'[l] = CardRows[l]
    BY DEF CardRows, CardRow
  <1>2. cards'[k] \in Card
    BY DEF InsightsInv, InsightsTyped, Cards
  <1>3. CardRows'[k] \in CardStore!Row /\ CardRows'[k].state = "stored"
    <2>1. CardRows'[k] = [state |-> "stored", data |-> [pattern |-> cards'[k].pattern, n |-> cards'[k].n,
                                                       hidden |-> cards'[k].hidden]]
      BY DEF CardRows, CardRow
    <2>2. [pattern |-> cards'[k].pattern, n |-> cards'[k].n, hidden |-> cards'[k].hidden] \in CardData
      BY <1>2, RowOfCard
    <2> QED BY <2>1, <2>2 DEF CardStore!Row
  <1>4. CardRows' = [CardRows EXCEPT ![k] = CardRows'[k]]
    BY <1>1 DEF CardRows
  <1> QED BY <1>3, <1>4 DEF CardStore!Becomes

(* A new card is inserted.                                                 *)
LEMMA NewCardRefines ==
    ASSUME InsightsInv, InsightsInv', CardsBehind, NEW r \in Runs, NEW j \in Job, Set(r, j),
           NEW p \in Patterns, NEW n \in Nat, cards' = Append(cards, NewCard(p, n)),
           Len(cards) < MaxCards, ~Intends(job[r]), ~Intends(j)
    PROVE  CardsRefined
  <1> DEFINE k == Len(cards) + 1
  <1>1. job'[r] = j /\ \A q \in Runs : q # r => job'[q] = job[q]
    BY JobSet
  <1>2. /\ cards' \in Seq(Card) /\ Len(cards') = Len(cards) + 1
        /\ \A l \in Cards : cards'[l] = cards[l]
    BY Appended
  <1>3. Len(cards) \in Nat /\ MaxCards \in Nat
    BY InsightsAssumption DEF InsightsInv, InsightsTyped, InsightsAssumption
  <1>4. Cards = 1..Len(cards) /\ Cards' = 1..k /\ k \in CardKeys /\ k \in Cards' /\ k \notin Cards
    BY <1>2, <1>3 DEF Cards, CardKeys
  <1>5. CardsBehind'
    <2>1. Len(cards') <= MaxCards BY <1>2, <1>3
    <2>2. ASSUME NEW q \in Runs, Intends(job'[q]) PROVE job'[q].rev <= cards'[job'[q].k].rev
      <3>1. q # r /\ job'[q] = job[q] BY <1>1, <2>2
      <3>2. job[q].k \in Cards BY <2>2, <3>1, HeldCard
      <3> QED BY <1>2, <2>2, <3>1, <3>2 DEF CardsBehind
    <2> QED BY <2>1, <2>2 DEF CardsBehind
  <1>6. CardStore!Becomes(k, "stored")
    <2>1. \A l \in CardKeys : l # k => (l \in Cards' <=> l \in Cards) /\ (l \in Cards => cards'[l] = cards[l])
      BY <1>2, <1>3, <1>4 DEF CardKeys
    <2> HIDE DEF k
    <2> QED BY <1>4, <2>1, CardBecomes
  <1>7. CardIntents' = CardIntents
    <2>1. \A q \in Runs : q # r => CardIntent(job[q])' = CardIntent(job[q])
      <3> SUFFICES ASSUME NEW q \in Runs, q # r PROVE CardIntent(job[q])' = CardIntent(job[q])
        OBVIOUS
      <3>1. job'[q] = job[q] BY <1>1
      <3>2. Intends(job[q]) => cards'[job[q].k] = cards[job[q].k]
        BY <1>2, HeldCard
      <3> QED BY <3>1, <3>2 DEF CardIntent
    <2>2. CardIntent(job[r])' = CardIntent(job[r])
      BY <1>1 DEF CardIntent
    <2> QED BY <2>1, <2>2 DEF CardIntents
  <1>8. CardRows[k].state = "fresh" /\ CardIntents[r] = CardStore!NoIntent
    BY <1>4, CardStoreFacts DEF CardRows, CardIntents
  <1>9. CardStore!Insert(r, k)
    BY <1>6, <1>7, <1>8 DEF CardStore!Insert
  <1> QED BY <1>4, <1>5, <1>9 DEF CardsRefined, CardStore!StoreNext

(* A card is patched by a call that has its rev: the other calls that have *)
(* read it will find a later one.                                          *)
LEMMA CardPatchRefines ==
    ASSUME InsightsInv, InsightsInv', CardsBehind, NEW r \in Runs, Set(r, NoJob),
           Intends(job[r]), NEW k \in Cards, job[r].k = k, cards[k].rev = job[r].rev,
           NEW e \in Card, e.rev = cards[k].rev + 1, cards' = [cards EXCEPT ![k] = e]
    PROVE  CardsRefined
  <1>1. job'[r] = NoJob /\ \A q \in Runs : q # r => job'[q] = job[q]
    BY NoJobTyped, JobSet
  <1>2. /\ cards' \in Seq(Card) /\ Len(cards') = Len(cards) /\ cards'[k] = e
        /\ \A l \in Cards : l # k => cards'[l] = cards[l]
    BY CardPatched
  <1>3. Cards' = Cards BY <1>2 DEF Cards
  <1>4. k \in CardKeys
    BY InsightsAssumption DEF Cards, CardKeys, CardsBehind, InsightsInv, InsightsTyped, InsightsAssumption
  <1>5. ~Intends(NoJob) BY DEF Intends, NoJob
  <1>6. ASSUME NEW q \in Runs, q # r, Intends(job[q])
        PROVE  /\ job[q].k \in Cards /\ job[q].rev <= cards'[job[q].k].rev
               /\ job[q].k = k => cards'[k].rev # job[q].rev
    <2>1. /\ job[q].k \in Cards /\ cards[job[q].k].rev \in Nat /\ job[q].rev \in Nat
          /\ job[q].rev <= cards[job[q].k].rev
      BY <1>6, HeldCard DEF CardsBehind
    <2>2. CASE job[q].k = k BY <1>2, <2>1, <2>2
    <2>3. CASE job[q].k # k BY <1>2, <2>1, <2>3
    <2> QED BY <2>2, <2>3
  <1>7. CardsBehind'
    <2>1. \A q \in Runs : Intends(job'[q]) => job'[q].rev <= cards'[job'[q].k].rev
      BY <1>1, <1>5, <1>6
    <2> QED BY <1>2, <2>1 DEF CardsBehind
  <1>8. CardStore!Becomes(k, "stored")
    BY <1>2, <1>3, <1>4, CardBecomes
  <1>9. CardStore!Outdates(r, k)
    <2>1. CardIntent(job[r])' = CardStore!NoIntent
      BY <1>1, <1>5 DEF CardIntent, CardStore!NoIntent
    <2>2. ASSUME NEW q \in Runs, q # r
          PROVE  CardIntent(job[q])' = IF CardIntents[q].key = k THEN [key |-> k, current |-> FALSE]
                                                                 ELSE CardIntents[q]
      <3>1. job'[q] = job[q] /\ CardIntents[q] = CardIntent(job[q])
        BY <1>1, <2>2 DEF CardIntents
      <3>2. CASE ~Intends(job[q])
        <4>1. k # 0 BY DEF Cards
        <4> QED BY <3>1, <3>2, <4>1 DEF CardIntent
      <3>3. CASE Intends(job[q]) /\ job[q].k = k
        <4>1. ~(cards'[k].rev = job[q].rev) BY <1>6, <2>2, <3>3
        <4>2. CardIntent(job[q])' = [key |-> k, current |-> FALSE]
          BY <3>1, <3>3, <4>1 DEF CardIntent
        <4>3. CardIntents[q].key = k
          BY <3>1, <3>3 DEF CardIntent
        <4> QED BY <4>2, <4>3
      <3>4. CASE Intends(job[q]) /\ job[q].k # k
        <4>1. cards'[job[q].k] = cards[job[q].k] BY <1>2, <1>6, <2>2, <3>4
        <4> QED BY <3>1, <3>4, <4>1 DEF CardIntent
      <3> QED BY <3>2, <3>3, <3>4
    <2> QED BY <2>1, <2>2 DEF CardStore!Outdates, CardIntents
  <1>10. CardIntents[r] = [key |-> k, current |-> TRUE]
    BY DEF CardIntents, CardIntent
  <1>11. CardRows[k].state = "stored"
    BY <1>4, CardStoreFacts DEF CardRows
  <1>12. CardStore!Commit(r, k)
    BY <1>8, <1>9, <1>10, <1>11 DEF CardStore!Commit
  <1> QED BY <1>4, <1>7, <1>12 DEF CardsRefined, CardStore!StoreNext

(* The actions.                                                            *)

LEMMA NoIntents ==
    ASSUME NEW j \in Job, j.pc \in {"idle", "load", "judge", "narrate", "profile", "list", "propose"}
    PROVE  ~Intends(j)
  BY DEF Intends

LEMMA RunsRefine ==
    ASSUME InsightsInv, CardsBehind, NEW r \in Runs,
           \/ RefreshBegins(r) \/ RefreshLoads(r) \/ RefreshRead(r) \/ RefreshWrite(r)
           \/ DiscoveryBegins(r) \/ DiscoveryLists(r) \/ DiscoveryEnds(r)
    PROVE  CardsRefined
  <1>1. job[r] \in Job /\ tastingCount \in Nat BY DEF InsightsInv, InsightsTyped
  <1>2. ASSUME NEW j \in Job, Set(r, j), cards' = cards,
               j.pc \in {"idle", "load", "judge", "narrate", "profile", "list", "propose"}
        PROVE  CardsRefined
    BY <1>2, NoIntents, QuietRunRefines
  <1>3. CASE RefreshBegins(r)
    <2>1. PICK pc \in {"load", "judge"} : Set(r, [NoJob EXCEPT !.pc = pc]) /\ cards' = cards
      BY <1>3 DEF RefreshBegins, Starts
    <2>2. [NoJob EXCEPT !.pc = pc] \in Job /\ [NoJob EXCEPT !.pc = pc].pc = pc
      BY NoJobTyped DEF Job
    <2> QED BY <1>2, <2>1, <2>2
  <1>4. CASE RefreshLoads(r)
    <2> DEFINE j == [job[r] EXCEPT !.pc = "narrate", !.tastings = tastingCount]
    <2>1. j \in Job /\ j.pc = "narrate" BY <1>1 DEF Job
    <2>2. Set(r, j) /\ cards' = cards BY <1>4 DEF RefreshLoads, Only
    <2> HIDE DEF j
    <2> QED BY <1>2, <2>1, <2>2
  <1>5. CASE RefreshRead(r)
    <2> DEFINE settled == \A q \in Runs : job[q].pc = "profile" => job[q].saw.exists
               j == [job[r] EXCEPT !.pc = "profile", !.saw = profile, !.settled = settled]
    <2>1. Set(r, j) /\ cards' = cards BY <1>5 DEF RefreshRead, Only
    <2>2. settled \in BOOLEAN /\ profile \in [exists : BOOLEAN, tastings : Nat, rev : Nat]
      BY DEF InsightsInv, InsightsTyped
    <2> HIDE DEF settled
    <2>3. j \in Job /\ j.pc = "profile" BY <1>1, <2>2 DEF Job
    <2> HIDE DEF j
    <2> QED BY <1>2, <2>1, <2>3
  <1>6. CASE RefreshWrite(r)
    <2>1. PICK j \in {NoJob, [NoJob EXCEPT !.pc = "judge"]} : Set(r, j) /\ cards' = cards
      BY <1>6 DEF RefreshWrite, Only
    <2>2. j \in Job /\ j.pc \in {"idle", "judge"}
      BY NoJobTyped DEF Job
    <2> QED BY <1>2, <2>1, <2>2
  <1>7. CASE DiscoveryBegins(r)
    <2>1. PICK j \in {NoJob, [NoJob EXCEPT !.pc = "list"]} : Set(r, j) /\ cards' = cards
      BY <1>7 DEF DiscoveryBegins, Only
    <2>2. j \in Job /\ j.pc \in {"idle", "list"}
      BY NoJobTyped DEF Job
    <2> QED BY <1>2, <2>1, <2>2
  <1>8. CASE DiscoveryLists(r)
    <2> DEFINE j == [job[r] EXCEPT !.pc = "propose", !.known = Listing]
    <2>1. Set(r, j) /\ cards' = cards BY <1>8 DEF DiscoveryLists, Only
    <2>2. Listing \subseteq [pattern : Patterns, hidden : BOOLEAN]
      <3>1. \A k \in Cards : cards[k] \in Card
        BY DEF InsightsInv, InsightsTyped, Cards
      <3> QED BY <3>1 DEF Listing, Card
    <2>3. j \in Job /\ j.pc = "propose" BY <1>1, <2>2 DEF Job
    <2> HIDE DEF j
    <2> QED BY <1>2, <2>1, <2>3
  <1>9. CASE DiscoveryEnds(r)
    BY <1>2, <1>9, NoJobTyped DEF DiscoveryEnds, Only
  <1> QED BY <1>3, <1>4, <1>5, <1>6, <1>7, <1>8, <1>9

LEMMA ProposeRefines ==
    ASSUME InsightsInv, InsightsInv', CardsBehind, NEW r \in Runs, Propose(r)
    PROVE  CardsRefined
  <1>1. job[r] \in Job /\ tastingCount \in Nat /\ job[r].pc = "propose"
    BY DEF InsightsInv, InsightsTyped, Propose
  <1> DEFINE j == [job[r] EXCEPT !.n = @ + 1]
  <1>2. PICK p \in Patterns, n \in 1..tastingCount :
           Len(cards) < MaxCards /\ cards' = Append(cards, NewCard(p, n)) /\ Set(r, j)
    BY DEF Propose
  <1>3. n \in Nat BY <1>1
  <1>4. j \in Job /\ j.pc = "propose" BY <1>1 DEF Job
  <1> HIDE DEF j
  <1>5. ~Intends(job[r]) /\ ~Intends(j) BY <1>1, <1>4, NoIntents
  <1> QED BY <1>2, <1>3, <1>4, <1>5, NewCardRefines

LEMMA CallReadRefines ==
    ASSUME InsightsInv, CardsBehind, NEW r \in Runs, UpsertBegins(r) \/ HideBegins(r)
    PROVE  CardsRefined
  <1>1. PICK j \in Job : /\ Starts(r, j)
                         /\ j.k # 0 => j.k \in Cards /\ j.rev = cards[j.k].rev
    BY UpsertReads, HideReads
  <1>2. Set(r, j) /\ cards' = cards /\ ~Intends(job[r])
    BY <1>1, NoIntents DEF Starts, InsightsInv, InsightsTyped
  <1>3. Intends(j) => j.k \in Cards /\ j.k <= MaxCards /\ j.rev = cards[j.k].rev
    BY <1>1, InsightsAssumption
       DEF Intends, CardsBehind, Cards, InsightsInv, InsightsTyped, InsightsAssumption
  <1> QED BY <1>2, <1>3, QuietRunRefines

LEMMA CallWriteRefines ==
    ASSUME InsightsInv, InsightsInv', CardsBehind, NEW r \in Runs, UpsertWrite(r) \/ HideWrite(r)
    PROVE  CardsRefined
  <1>1. job[r] \in Job /\ NoJob \in Job /\ ~Intends(NoJob) /\ Set(r, NoJob)
    BY NoJobTyped, NoIntents DEF InsightsInv, InsightsTyped, UpsertWrite, HideWrite, Only
  <1>2. CASE cards' = cards
    BY <1>1, <1>2, QuietRunRefines
  <1> DEFINE k == job[r].k
  <1>3. CASE UpsertWrite(r) /\ k = 0
    <2>1. /\ cards' = Append(cards, NewCard(job[r].pattern, job[r].n)) /\ Len(cards) < MaxCards
          /\ job[r].pattern \in Patterns /\ job[r].n \in Nat
      BY <1>1, <1>3 DEF UpsertWrite, InsightsInv, InsightsTyped, Job
    <2>2. ~Intends(job[r]) BY <1>3 DEF Intends
    <2> QED BY <1>1, <2>1, <2>2, NewCardRefines
  <1>4. CASE UpsertWrite(r) /\ k # 0 /\ cards' # cards
    <2> DEFINE e == [cards[k] EXCEPT !.n = job[r].n, !.rev = @ + 1]
    <2>1. Intends(job[r]) BY <1>4 DEF Intends, UpsertWrite
    <2>2. k \in Cards /\ cards[k] \in Card /\ cards[k].rev \in Nat BY <2>1, HeldCard
    <2>3. cards[k].rev = job[r].rev /\ cards' = [cards EXCEPT ![k].n = job[r].n, ![k].rev = @ + 1]
      BY <1>4 DEF UpsertWrite, Only
    <2>4. cards' = [cards EXCEPT ![k] = e]
      BY <2>2, <2>3 DEF Cards, InsightsInv, InsightsTyped
    <2>5. e \in Card /\ e.rev = cards[k].rev + 1
      <3>1. cards[k].rev + 1 \in Nat /\ cards[k] \in Card /\ job[r].n \in Nat
        BY <1>1, <2>2 DEF Job
      <3> HIDE DEF k
      <3> QED BY <3>1 DEF Card
    <2> HIDE DEF e, k
    <2> QED BY <1>1, <2>1, <2>2, <2>3, <2>4, <2>5, CardPatchRefines DEF k
  <1>5. CASE HideWrite(r) /\ cards' # cards
    <2> DEFINE e == [cards[k] EXCEPT !.hidden = TRUE, !.rev = @ + 1]
    <2>1. Intends(job[r]) BY <1>5 DEF Intends, HideWrite, InsightsInv, InsightsTyped
    <2>2. k \in Cards /\ cards[k] \in Card /\ cards[k].rev \in Nat BY <2>1, HeldCard
    <2>3. cards[k].rev = job[r].rev /\ cards' = [cards EXCEPT ![k].hidden = TRUE, ![k].rev = @ + 1]
      BY <1>5 DEF HideWrite, Only
    <2>4. cards' = [cards EXCEPT ![k] = e]
      BY <2>2, <2>3 DEF Cards, InsightsInv, InsightsTyped
    <2>5. e \in Card /\ e.rev = cards[k].rev + 1
      <3>1. cards[k].rev + 1 \in Nat /\ cards[k] \in Card
        BY <2>2
      <3> HIDE DEF k
      <3> QED BY <3>1 DEF Card
    <2> HIDE DEF e, k
    <2> QED BY <1>1, <2>1, <2>2, <2>3, <2>4, <2>5, CardPatchRefines DEF k
  <1> QED BY <1>2, <1>3, <1>4, <1>5

LEMMA InsightsRefine ==
    InsightsInv /\ InsightsInv' /\ CardsBehind /\ [InsightsNext]_insightsVars => CardsRefined
  <1> SUFFICES ASSUME InsightsInv, InsightsInv', CardsBehind, [InsightsNext]_insightsVars PROVE CardsRefined
    OBVIOUS
  <1>1. CASE job' = job /\ cards' = cards
    <2>1. CardRows' = CardRows /\ CardIntents' = CardIntents /\ CardsBehind'
      BY <1>1 DEF CardRows, CardRow, Cards, CardIntents, CardIntent, CardsBehind
    <2> QED BY <2>1 DEF CardsRefined, CardStore!storeVars
  <1>2. UNCHANGED insightsVars \/ AddTasting => job' = job /\ cards' = cards
    BY DEF insightsVars, AddTasting
  <1>3. ASSUME NEW r \in Runs,
               \/ RefreshBegins(r) \/ RefreshLoads(r) \/ RefreshRead(r) \/ RefreshWrite(r)
               \/ DiscoveryBegins(r) \/ DiscoveryLists(r) \/ DiscoveryEnds(r)
        PROVE  CardsRefined
    BY <1>3, RunsRefine
  <1>4. ASSUME NEW r \in Runs,
               \/ Propose(r) \/ UpsertBegins(r) \/ UpsertWrite(r) \/ HideBegins(r) \/ HideWrite(r)
        PROVE  CardsRefined
    BY <1>4, ProposeRefines, CallReadRefines, CallWriteRefines
  <1> QED BY <1>1, <1>2, <1>3, <1>4 DEF InsightsNext

LEMMA CardsStart == InsightsInit => CardsBehind /\ CardStore!StoreInit
  <1> SUFFICES ASSUME InsightsInit PROVE CardsBehind /\ CardStore!StoreInit
    OBVIOUS
  <1>1. InsightsInv BY InsightsStart
  <1>2. cards = <<>> /\ \A r \in Runs : ~Intends(job[r])
    BY DEF InsightsInit, Intends, NoJob
  <1>3. CardsBehind
    BY <1>2, InsightsAssumption DEF CardsBehind, InsightsAssumption
  <1>4. CardRows \in [CardKeys -> CardStore!Row] /\ \A k \in CardKeys : CardRows[k].state # "deleted"
    BY <1>1, CardStoreFacts DEF CardRows
  <1>5. CardIntents = [r \in Runs |-> CardStore!NoIntent]
    BY <1>1, <1>2, CardStoreFacts DEF CardIntents
  <1> QED BY <1>3, <1>4, <1>5 DEF CardStore!StoreInit

(* The rev that patchDiscovery compares makes of upsertDiscovery and       *)
(* hideDiscovery clients of a store where the first writer wins, while     *)
(* runs of session B add cards beside them (CardsFirstWin): no upsert      *)
(* overwrites a hiding it has not seen, and none the other way round.      *)
THEOREM CardsImplementRevStore == InsightsSpec => CardsFirstWin
  <1>1. InsightsInv /\ InsightsInv' /\ CardsBehind /\ [InsightsNext]_insightsVars
           => CardsBehind' /\ [CardStore!StoreNext]_CardStore!storeVars
    BY InsightsRefine DEF CardsRefined
  <1>2. InsightsSpec => []CardsBehind
    BY <1>1, CardsStart, InsightsAlways, PTL DEF InsightsSpec
  <1>3. CardsFirstWin <=> CardStore!StoreInit /\ [][CardStore!StoreNext]_CardStore!storeVars
    BY DEF CardsFirstWin, CardStore!StoreSpec
  <1> QED BY <1>1, <1>2, <1>3, CardsStart, InsightsAlways, PTL DEF InsightsSpec

-----------------------------------------------------------------------------
(* Voice: what is made of a recording's sound.  The loops over frames and  *)
(* words keep a run that goes on and what they collected before it; the    *)
(* invariants say of both, at any frame or word, what the properties say   *)
(* of the end.                                                             *)

(* A sequence whose last element changes, or that gets one more.           *)
LEMMA LastChanged ==
    ASSUME NEW T, NEW s \in Seq(T), s # <<>>, NEW x \in T
    PROVE  LET t == [s EXCEPT ![Len(s)] = x]
           IN  /\ t \in Seq(T) /\ Len(t) = Len(s) /\ Len(s) \in Nat \ {0} /\ t[Len(s)] = x
               /\ \A j \in 1 .. Len(s) : j # Len(s) => t[j] = s[j]
  <1>1. Len(s) \in Nat \ {0}
    BY EmptySeq
  <1>2. Len(s) \in 1 .. Len(s)
    BY <1>1
  <1> QED BY <1>1, <1>2, ExceptSeq

LEMMA OneMore ==
    ASSUME NEW T, NEW s \in Seq(T), NEW x \in T
    PROVE  LET t == Append(s, x)
           IN  /\ t \in Seq(T) /\ Len(t) = Len(s) + 1 /\ Len(s) \in Nat /\ t[Len(s) + 1] = x
               /\ \A j \in 1 .. Len(s) : t[j] = s[j]
  <1>1. Len(s) \in Nat
    BY LenProperties
  <1> QED BY <1>1, AppendProperties

LEMMA LastType ==
    ASSUME NEW s \in Seq(Stretch), s # <<>>
    PROVE  s[Len(s)].from \in Nat /\ s[Len(s)].to \in Nat /\ Len(s) \in DOMAIN s
  <1>1. Len(s) \in 1 .. Len(s) /\ DOMAIN s = 1 .. Len(s)
    BY EmptySeq, LenProperties
  <1>2. s[Len(s)] \in Stretch
    BY <1>1, ElementOfSeq
  <1> QED BY <1>1, <1>2 DEF Stretch

(* The last stretch gets longer, or another one begins.                    *)
Stretched(s, n) == [s EXCEPT ![Len(s)] = [from |-> s[Len(s)].from, to |-> n]]
Another(s, from, n) == Append(s, [from |-> from, to |-> n])

LEMMA Longer ==
    ASSUME NEW s \in Seq(Stretch), s # <<>>, NEW n \in Nat, NEW t, t = Stretched(s, n)
    PROVE  t # <<>> /\ t[Len(t)].to = n
  <1> DEFINE x == [from |-> s[Len(s)].from, to |-> n]
  <1>1. x \in Stretch /\ x.to = n
    BY LastType DEF Stretch
  <1> HIDE DEF x
  <1>2. t = [s EXCEPT ![Len(s)] = x]
    BY DEF x, Stretched
  <1>3. t \in Seq(Stretch) /\ Len(t) = Len(s) /\ Len(s) # 0 /\ t[Len(s)] = x
    BY <1>1, <1>2, LastChanged
  <1> QED BY <1>1, <1>3

LEMMA Begun ==
    ASSUME NEW s \in Seq(Stretch), NEW from \in Nat, NEW n \in Nat, NEW t, t = Another(s, from, n)
    PROVE  t # <<>> /\ t[Len(t)].to = n
  <1> DEFINE x == [from |-> from, to |-> n]
  <1>1. x \in Stretch /\ x.to = n
    BY DEF Stretch
  <1> HIDE DEF x
  <1>2. t = Append(s, x)
    BY DEF x, Another
  <1>3. t \in Seq(Stretch) /\ Len(t) = Len(s) + 1 /\ Len(s) \in Nat /\ t[Len(s) + 1] = x
    BY <1>1, <1>2, OneMore
  <1> QED BY <1>1, <1>3

LEMMA ChangedTwice ==
    ASSUME NEW s \in Seq(Stretch), s # <<>>, NEW m \in Nat, NEW n \in Nat,
           NEW t, t = Stretched(s, m)
    PROVE  Stretched(s, n) = Stretched(t, n)
  <1> DEFINE x == [from |-> s[Len(s)].from, to |-> m]
             y == [from |-> s[Len(s)].from, to |-> n]
  <1>1. x \in Stretch /\ x.from = s[Len(s)].from
    BY LastType DEF Stretch
  <1> HIDE DEF x
  <1>2. t = [s EXCEPT ![Len(s)] = x]
    BY DEF x, Stretched
  <1>3. Len(t) = Len(s) /\ t[Len(s)] = x
    BY <1>1, <1>2, LastChanged
  <1>4. [t EXCEPT ![Len(t)] = [from |-> t[Len(t)].from, to |-> n]] = [t EXCEPT ![Len(s)] = y]
    BY <1>1, <1>3
  <1> HIDE DEF y
  <1>5. [s EXCEPT ![Len(s)] = y] = [t EXCEPT ![Len(s)] = y]
    BY <1>2
  <1> QED BY <1>4, <1>5 DEF y, Stretched

LEMMA AppendedChanged ==
    ASSUME NEW s \in Seq(Stretch), NEW from \in Nat, NEW m \in Nat, NEW n \in Nat,
           NEW t, t = Another(s, from, m)
    PROVE  Another(s, from, n) = Stretched(t, n)
  <1> DEFINE x == [from |-> from, to |-> m]
             y == [from |-> from, to |-> n]
  <1>1. x \in Stretch /\ x.from = from /\ y \in Stretch
    BY DEF Stretch
  <1> HIDE DEF x
  <1>2. t = Append(s, x)
    BY DEF x, Another
  <1>3. /\ t \in Seq(Stretch) /\ Len(t) = Len(s) + 1 /\ Len(s) \in Nat /\ t[Len(s) + 1] = x
        /\ \A j \in 1 .. Len(s) : t[j] = s[j]
    BY <1>1, <1>2, OneMore
  <1>4. [t EXCEPT ![Len(t)] = [from |-> t[Len(t)].from, to |-> n]] = [t EXCEPT ![Len(t)] = y]
    BY <1>1, <1>3
  <1>y. y \in Stretch
    BY <1>1
  <1> HIDE DEF y
  <1> DEFINE a == Append(s, y)
             b == [t EXCEPT ![Len(t)] = y]
  <1>5. /\ a \in Seq(Stretch) /\ Len(a) = Len(s) + 1 /\ a[Len(s) + 1] = y
        /\ \A j \in 1 .. Len(s) : a[j] = s[j]
    BY <1>1, OneMore
  <1>6. t \in Seq(Stretch) /\ t # <<>> /\ y \in Stretch
    BY <1>1, <1>3
  <1>7. /\ b \in Seq(Stretch) /\ Len(b) = Len(s) + 1 /\ b[Len(s) + 1] = y
        /\ \A j \in 1 .. Len(t) : j # Len(t) => b[j] = t[j]
    <2>1. /\ b \in Seq(Stretch) /\ Len(b) = Len(t) /\ b[Len(t)] = y
          /\ \A j \in 1 .. Len(t) : j # Len(t) => b[j] = t[j]
      BY <1>6, LastChanged
    <2> QED BY <1>3, <2>1
  <1>8. \A j \in 1 .. Len(a) : a[j] = b[j]
    BY <1>3, <1>5, <1>7
  <1> HIDE DEF a, b
  <1>9. a = b
    BY <1>5, <1>7, <1>8, SeqEqual
  <1> QED BY <1>4, <1>9 DEF a, b, y, Stretched, Another

-----------------------------------------------------------------------------

Joins(M, since) == M # <<>> /\ Close(M[Len(M)].to, since)

LEMMA VoicedCases ==
    ASSUME NEW t, t.merged \in Seq(Stretch), t.since \in Nat, NEW n \in Nat
    PROVE  LET M == t.merged
               since == t.since
               V == Voiced(t, n + 1)
           IN  /\ V \in Seq(Stretch)
               /\ since = 0 => V = M
               /\ since # 0 /\ Joins(M, since) =>
                     V = Stretched(M, n)
               /\ since # 0 /\ ~Joins(M, since) => V = Another(M, since, n)
  <1> DEFINE M == t.merged
             since == t.since
             run == [from |-> since, to |-> n]
             longer == [from |-> M[Len(M)].from, to |-> n]
             V == Voiced(t, n + 1)
  <1>a. M \in Seq(Stretch)
    OBVIOUS
  <1>2. run \in Stretch /\ n + 1 - 1 = n
    BY DEF Stretch
  <1>3. ASSUME since = 0 PROVE V = M
    BY <1>3 DEF Voiced
  <1>4. ASSUME since # 0, Joins(M, since)
        PROVE  V = [M EXCEPT ![Len(M)] = longer] /\ V \in Seq(Stretch)
    <2>1. V = [M EXCEPT ![Len(M)].to = n]
      <3>1. since # 0 /\ M # <<>> /\ Close(M[Len(M)].to, since)
        BY <1>4, Zenon DEF Joins
      <3> DEFINE end == [from |-> since, to |-> n + 1 - 1]
      <3>2. V = [M EXCEPT ![Len(M)].to = end.to]
        <4> HIDE DEF longer, run
        <4> QED BY <3>1 DEF Voiced
      <3>3. end.to = n
        BY <1>2
      <3> HIDE DEF end, V
      <3> QED BY <3>2, <3>3
    <2>2. M # <<>>
      BY <1>4 DEF Joins
    <2>3. Len(M) \in 1 .. Len(M)
      BY <2>2, EmptySeq
    <2>4. M[Len(M)] \in Stretch
      BY <2>3, ElementOfSeq
    <2>5. [M[Len(M)] EXCEPT !.to = n] = longer /\ longer \in Stretch
      <3> HIDE DEF M
      <3> QED BY <2>4 DEF Stretch
    <2>6. V = [M EXCEPT ![Len(M)] = longer]
      BY <2>1, <2>5
    <2> QED BY <2>2, <2>5, <2>6, LastChanged
  <1>5. ASSUME since # 0, ~Joins(M, since) PROVE V = Append(M, run) /\ V \in Seq(Stretch)
    <2>1. ~(M # <<>> /\ Close(M[Len(M)].to, since))
      BY <1>5, Zenon DEF Joins
    <2>2. V = Append(t.merged, [from |-> t.since, to |-> n + 1 - 1])
      <3> HIDE DEF run, longer
      <3> QED BY <1>5, <2>1 DEF Voiced
    <2>3. V = Append(M, run)
      BY <1>2, <2>2
    <2> HIDE DEF M, run, V
    <2>4. Append(M, run) \in Seq(Stretch)
      BY <1>2, <1>a, OneMore
    <2> QED BY <2>3, <2>4, Zenon
  <1> HIDE DEF V
  <1>6. since = 0 => V = M /\ V \in Seq(Stretch)
    BY <1>3
  <1>7. since # 0 /\ Joins(M, since) => V = Stretched(M, n) /\ V \in Seq(Stretch)
    BY <1>4 DEF Stretched
  <1>8. since # 0 /\ ~Joins(M, since) => V = Another(M, since, n) /\ V \in Seq(Stretch)
    BY <1>5 DEF Another
  <1> HIDE DEF M, since
  <1>9. /\ V \in Seq(Stretch)
        /\ since = 0 => V = M
        /\ since # 0 /\ Joins(M, since) => V = Stretched(M, n)
        /\ since # 0 /\ ~Joins(M, since) => V = Another(M, since, n)
    BY <1>6, <1>7, <1>8, Zenon
  <1> QED BY <1>9 DEF V, M, since

(* What one more word makes of the segments.                               *)
SaidOn(t, to, i) == [t EXCEPT ![Len(t)] = [who |-> t[Len(t)].who, from |-> t[Len(t)].from, to |-> to,
                                           said |-> t[Len(t)].said \cup {i}]]

LEMMA SaidOnIs ==
    ASSUME NEW s \in Seq(Segment), s # <<>>, NEW to \in Nat, NEW i \in Nat, NEW t, t = SaidOn(s, to, i)
    PROVE  LET n == Len(s)
           IN  /\ t \in Seq(Segment) /\ Len(t) = n /\ t # <<>> /\ DOMAIN t = DOMAIN s /\ n \in DOMAIN s
               /\ t[n].who = s[n].who /\ t[n].from = s[n].from /\ t[n].to = to /\ t[n].said = s[n].said \cup {i}
               /\ \A j \in DOMAIN s : j # n => t[j] = s[j]
  <1> DEFINE n == Len(s)
             x == [who |-> s[n].who, from |-> s[n].from, to |-> to, said |-> s[n].said \cup {i}]
  <1>1. n \in Nat \ {0} /\ DOMAIN s = 1 .. n /\ n \in 1 .. n
    BY EmptySeq, LenProperties
  <1>2. s[n] \in Segment
    BY <1>1, ElementOfSeq
  <1>3. x \in Segment /\ x.who = s[n].who /\ x.from = s[n].from /\ x.to = to /\ x.said = s[n].said \cup {i}
    BY <1>2 DEF Segment
  <1> HIDE DEF x
  <1>4. t = [s EXCEPT ![Len(s)] = x]
    BY DEF SaidOn, x
  <1>5. t \in Seq(Segment) /\ Len(t) = n /\ t[n] = x /\ \A j \in 1 .. n : j # n => t[j] = s[j]
    BY <1>3, <1>4, LastChanged
  <1>6. DOMAIN t = 1 .. n /\ t # <<>>
    BY <1>1, <1>5, LenProperties
  <1> QED BY <1>1, <1>3, <1>5, <1>6

LEMMA Saying ==
    ASSUME VoiceTypeOK, NEW w \in Item, Say(w)
    PROVE  LET n == Len(told)
               i == Len(items) + 1
               new == [who |-> Speaker(w.label), from |-> w.from, to |-> w.to, said |-> {i}]
               same == told # <<>> /\ told[n].who = Speaker(w.label) /\ Near(told[n].to, w.from)
           IN  /\ told' \in Seq(Segment)
               /\ told # <<>> => told[n] \in Segment
               /\ new \in Segment
               /\ w.kind # "word" => told' = told \/ (told # <<>> /\ told' = SaidOn(told, told[n].to, i))
               /\ w.kind = "word" /\ same => told' = SaidOn(told, w.to, i)
               /\ w.kind = "word" /\ ~same => told' = Append(told, new)
  <1> DEFINE n == Len(told)
             i == Len(items) + 1
             new == [who |-> Speaker(w.label), from |-> w.from, to |-> w.to, said |-> {i}]
             same == told # <<>> /\ told[n].who = Speaker(w.label) /\ Near(told[n].to, w.from)
  <1>1. /\ told \in Seq(Segment) /\ n \in Nat /\ i \in Nat
        /\ w.from \in Nat /\ w.to \in Nat /\ w.kind \in {"word", "mark", "untimed"}
        /\ n > 0 <=> told # <<>>
    BY EmptySeq, LenProperties DEF VoiceTypeOK, Item
  <1>2. new \in Segment
    BY <1>1 DEF Speaker, Speakers, Nobody, Segment
  <1>3. told # <<>> => told[n] \in Segment /\ told[n].to \in Nat
    <2>1. told # <<>> => told[n] \in Segment
      BY <1>1, EmptySeq, ElementOfSeq
    <2> QED BY <2>1 DEF Segment
  <1>4. ASSUME w.kind # "word"
        PROVE  told' = told \/ (told # <<>> /\ told' = SaidOn(told, told[n].to, i))
    <2>1. CASE w.kind = "untimed" \/ n = 0
      BY <1>1, <1>4, <2>1 DEF Say
    <2>2. CASE w.kind = "mark" /\ n > 0
      BY <1>1, <2>2 DEF Say, SaidOn
    <2> QED BY <1>1, <1>4, <2>1, <2>2
  <1>5. ASSUME w.kind = "word", same PROVE told' = SaidOn(told, w.to, i)
    BY <1>1, <1>5 DEF Say, SaidOn
  <1>6. ASSUME w.kind = "word", ~same PROVE told' = Append(told, new)
    BY <1>1, <1>6 DEF Say
  <1>7. told' \in Seq(Segment)
    <2>1. w.kind = "word" /\ same => told' \in Seq(Segment)
      BY <1>1, <1>5, SaidOnIs
    <2>2. w.kind # "word" => told' \in Seq(Segment)
      BY <1>1, <1>3, <1>4, SaidOnIs
    <2>3. w.kind = "word" /\ ~same => told' \in Seq(Segment)
      BY <1>1, <1>2, <1>6, OneMore
    <2> QED BY <2>1, <2>2, <2>3
  <1> QED BY <1>2, <1>3, <1>4, <1>5, <1>6, <1>7

LEMMA SpokenItem ==
    ASSUME VoiceTypeOK, NEW k \in {"word", "mark", "untimed"}, NEW l \in Nat, NEW p \in Nat,
           NextItem(k, l, p)
    PROVE  LET w == [kind |-> k, label |-> l, from |-> End + p, to |-> End + p + 1]
           IN  w \in Item /\ items' = Append(items, w) /\ items' \in Seq(Item) /\ Say(w)
               /\ UNCHANGED <<hush, lull, track, talk, spans>>
  <1> DEFINE w == [kind |-> k, label |-> l, from |-> End + p, to |-> End + p + 1]
  <1>1. End \in Nat
    <2>1. told \in Seq(Segment)
      BY DEF VoiceTypeOK
    <2>2. told # <<>> => told[Len(told)] \in Segment
      BY <2>1, EmptySeq, ElementOfSeq
    <2> QED BY <2>2 DEF End, Segment
  <1>2. w \in Item
    BY <1>1 DEF Item
  <1>3. items \in Seq(Item)
    BY DEF VoiceTypeOK
  <1>4. items' = Append(items, w) /\ Say(w) /\ UNCHANGED <<hush, lull, track, talk, spans>>
    BY DEF NextItem
  <1> QED BY <1>2, <1>3, <1>4, OneMore

LEMMA VoiceTypesStart == VoiceInit => VoiceTypeOK
  BY EmptySeq DEF VoiceInit, VoiceTypeOK

LEMMA VoiceTypesStep == VoiceTypeOK /\ [VoiceNext]_voiceVars => VoiceTypeOK'
  <1> SUFFICES ASSUME VoiceTypeOK, [VoiceNext]_voiceVars PROVE VoiceTypeOK'
    OBVIOUS
  <1>1. ASSUME NEW q \in BOOLEAN, NextLevel(q) PROVE VoiceTypeOK'
    <2> DEFINE n == Len(hush)
               gap == [from |-> lull.since, to |-> n + 1 - 1]
    <2>1. hush \in Seq(BOOLEAN) /\ lull \in [found : SUBSET Stretch, since : 0 .. n]
      BY DEF VoiceTypeOK
    <2>2. n \in Nat /\ hush' \in Seq(BOOLEAN) /\ Len(hush') = n + 1
      BY <1>1, <2>1, OneMore DEF NextLevel
    <2>3. lull.since \in 0 .. n /\ lull.found \in SUBSET Stretch
      BY <2>1
    <2>4. lull.since \in Nat /\ n + 1 - 1 \in Nat
      BY <2>2, <2>3
    <2>5. gap \in Stretch
      BY <2>4 DEF Stretch
    <2>6. Silences(n + 1) = lull.found \/ Silences(n + 1) = lull.found \cup {gap}
      BY DEF Silences
    <2>7. Silences(n + 1) \in SUBSET Stretch
      <3> HIDE DEF gap
      <3> QED BY <2>3, <2>5, <2>6
    <2>8. /\ q => lull' = [found |-> lull.found, since |-> Began(lull.since, n + 1)]
          /\ ~q => lull' = [found |-> Silences(n + 1), since |-> 0]
      BY <1>1 DEF NextLevel
    <2>9. Began(lull.since, n + 1) \in 0 .. n + 1 /\ 0 \in 0 .. n + 1
      BY <2>2, <2>3 DEF Began
    <2>10. lull' \in [found : SUBSET Stretch, since : 0 .. n + 1]
      <3> HIDE DEF n
      <3>1. CASE q
        <4>1. lull' = [found |-> lull.found, since |-> Began(lull.since, n + 1)]
          BY <2>8, <3>1
        <4> QED BY <2>3, <2>9, <4>1
      <3>2. CASE ~q
        <4>1. lull' = [found |-> Silences(n + 1), since |-> 0]
          BY <2>8, <3>2
        <4> QED BY <2>7, <2>9, <4>1
      <3> QED BY <3>1, <3>2
    <2>11. UNCHANGED <<track, talk, spans, items, told>>
      BY <1>1 DEF NextLevel
    <2> QED BY <2>2, <2>10, <2>11 DEF VoiceTypeOK
  <1>2. ASSUME NEW hz \in Pitches, NextPitch(hz) PROVE VoiceTypeOK'
    <2>1. track' \in Seq(Pitches) /\ Len(track') = Len(track) + 1 /\ Len(track) \in Nat
      BY <1>2 DEF NextPitch, VoiceTypeOK
    <2>2. Voiced(talk, Len(track) + 1) \in Seq(Stretch)
      <3>1. talk.merged \in Seq(Stretch) /\ talk.since \in Nat
        BY <2>1 DEF VoiceTypeOK
      <3> QED BY <2>1, <3>1, VoicedCases
    <2>3. CASE hz > 0
      BY <1>2, <2>1, <2>3 DEF NextPitch, VoiceTypeOK, Began
    <2>4. CASE ~(hz > 0)
      BY <1>2, <2>1, <2>2, <2>4 DEF NextPitch, VoiceTypeOK
    <2> QED BY <2>3, <2>4
  <1>3. ASSUME NEW s \in Span, NextSpan(s) PROVE VoiceTypeOK'
    <2>1. spans' \in Seq(Span)
      BY <1>3, OneMore DEF NextSpan, VoiceTypeOK
    <2> QED BY <1>3, <2>1 DEF NextSpan, VoiceTypeOK
  <1>4. ASSUME NEW k \in {"word", "mark", "untimed"}, NEW l \in Nat, NEW p \in Nat,
               NextItem(k, l, p)
        PROVE  VoiceTypeOK'
    <2>1. items' \in Seq(Item) /\ UNCHANGED <<hush, lull, track, talk, spans>>
      BY <1>4, SpokenItem
    <2>2. told' \in Seq(Segment)
      BY <1>4, SpokenItem, Saying
    <2> QED BY <2>1, <2>2 DEF VoiceTypeOK
  <1>5. CASE UNCHANGED voiceVars
    BY <1>5 DEF voiceVars, VoiceTypeOK
  <1>6. CASE VoiceNext
    <2>1. WordGap \in Nat /\ WordGap + 1 \in Nat /\ 0 \in Nat /\ \A l \in SpeakerLabels : l \in Nat
      BY VoiceAssumption DEF VoiceAssumption
    <2>2. CASE \/ \E lb \in SpeakerLabels, pause \in {WordGap, WordGap + 1} : NextItem("word", lb, pause)
               \/ \E kind \in {"mark", "untimed"} : NextItem(kind, 0, 0)
      <3>1. ASSUME NEW lb \in SpeakerLabels, NEW pause \in {WordGap, WordGap + 1}, NextItem("word", lb, pause)
            PROVE  VoiceTypeOK'
        BY <1>4, <2>1, <3>1, Zenon
      <3>2. ASSUME NEW kind \in {"mark", "untimed"}, NextItem(kind, 0, 0) PROVE VoiceTypeOK'
        BY <1>4, <2>1, <3>2, Zenon
      <3> QED BY <2>2, <3>1, <3>2, Zenon
    <2> QED BY <1>1, <1>2, <1>3, <1>6, <2>2, Zenon DEF VoiceNext
  <1> QED BY <1>5, <1>6

-----------------------------------------------------------------------------
(* Silences: a run of quiet frames is found when the frame after it is     *)
(* loud; the run that is still going on is the one before the end.         *)

QuietRuns(h) == {r \in [from : 1 .. Len(h), to : 1 .. Len(h)] :
               /\ r.from <= r.to /\ LongEnough(r.from, r.to + 1)
               /\ \A i \in r.from .. r.to : h[i]
               /\ r.from > 1 => ~h[r.from - 1]}

LullInv ==
    LET n == Len(hush)
    IN  /\ lull.since # 0 <=> (n > 0 /\ hush[n])
        /\ lull.since # 0 => /\ \A i \in lull.since .. n : hush[i]
                             /\ lull.since > 1 => ~hush[lull.since - 1]
        /\ lull.found = {r \in QuietRuns(hush) : r.to < n /\ ~hush[r.to + 1]}

LEMMA SilencesAre ==
    ASSUME NEW end \in Nat, NEW gap, [from |-> lull.since, to |-> end - 1] = gap
    PROVE  /\ lull.since # 0 /\ LongEnough(lull.since, end) => Silences(end) = lull.found \cup {gap}
           /\ ~(lull.since # 0 /\ LongEnough(lull.since, end)) => Silences(end) = lull.found
  BY DEF Silences

LEMMA LullsFound ==
    ASSUME VoiceTypeOK, LullInv
    PROVE  Silences(Len(hush) + 1) = {r \in QuietRuns(hush) : r.to < Len(hush) => ~hush[r.to + 1]}
  <1> DEFINE n == Len(hush)
             last == [from |-> lull.since, to |-> n]
             whole == {r \in QuietRuns(hush) : r.to < n => ~hush[r.to + 1]}
  <1>0. SilenceMin \in Nat
    BY VoiceAssumption DEF VoiceAssumption
  <1>1. n \in Nat /\ lull.since \in 0 .. n /\ \A i \in 1 .. n : hush[i] \in BOOLEAN
    BY ElementOfSeq, LenProperties DEF VoiceTypeOK
  <1>2. lull.found = {r \in QuietRuns(hush) : r.to < n /\ ~hush[r.to + 1]}
    BY DEF LullInv
  <1>3. ASSUME NEW r \in QuietRuns(hush), r.to = n PROVE lull.since # 0 /\ r = last /\ LongEnough(lull.since, n + 1)
    <2>1. /\ r \in [from : 1 .. n, to : 1 .. n] /\ r.from <= r.to /\ LongEnough(r.from, r.to + 1)
          /\ \A i \in r.from .. r.to : hush[i]
          /\ r.from > 1 => ~hush[r.from - 1]
      BY DEF QuietRuns
    <2>2. r.from \in 1 .. n /\ r = [from |-> r.from, to |-> r.to]
      BY <2>1
    <2>a. n > 0 /\ hush[n]
      BY <1>1, <1>3, <2>1, <2>2
    <2>3. lull.since # 0
      BY <2>a DEF LullInv
    <2>4. /\ \A i \in lull.since .. n : hush[i]
          /\ lull.since > 1 => ~hush[lull.since - 1]
      BY <2>3 DEF LullInv
    <2>b. lull.since \in 1 .. n /\ r.from \in Nat
      BY <1>1, <2>2, <2>3
    <2>c. \A i \in r.from .. n : hush[i]
      BY <1>3, <2>1
    <2>5. ~(r.from < lull.since)
      <3> SUFFICES ASSUME r.from < lull.since PROVE FALSE
        OBVIOUS
      <3>1. lull.since > 1 /\ lull.since - 1 \in r.from .. n
        BY <1>1, <2>2, <2>b
      <3> QED BY <2>4, <2>c, <3>1
    <2>6. ~(lull.since < r.from)
      <3> SUFFICES ASSUME lull.since < r.from PROVE FALSE
        OBVIOUS
      <3>1. r.from > 1 /\ r.from - 1 \in lull.since .. n
        BY <1>1, <2>2, <2>b
      <3> QED BY <2>1, <2>4, <3>1
    <2>7. r.from = lull.since
      BY <1>1, <2>2, <2>5, <2>6
    <2>8. r = last
      BY <1>3, <2>2, <2>7
    <2>9. LongEnough(lull.since, n + 1)
      BY <1>3, <2>1, <2>7
    <2> QED BY <2>3, <2>8, <2>9
  <1>4. ASSUME lull.since # 0, LongEnough(lull.since, n + 1) PROVE last \in QuietRuns(hush)
    <2>1. /\ \A i \in lull.since .. n : hush[i]
          /\ lull.since > 1 => ~hush[lull.since - 1]
      BY <1>4 DEF LullInv
    <2>2. lull.since \in 1 .. n /\ n \in 1 .. n
      BY <1>1, <1>4
    <2>3. last \in [from : 1 .. n, to : 1 .. n] /\ last.from = lull.since /\ last.to = n
      BY <2>2
    <2> HIDE DEF last
    <2>4. lull.since <= n
      BY <2>2
    <2> QED BY <1>4, <2>1, <2>3, <2>4 DEF QuietRuns
  <1>5. /\ lull.since # 0 /\ LongEnough(lull.since, n + 1) => Silences(n + 1) = lull.found \cup {last}
        /\ ~(lull.since # 0 /\ LongEnough(lull.since, n + 1)) => Silences(n + 1) = lull.found
    <2>1. (n + 1) - 1 = n
      BY <1>1
    <2>2. [from |-> lull.since, to |-> (n + 1) - 1] = last
      BY <2>1
    <2>3. n + 1 \in Nat
      BY <1>1
    <2> HIDE DEF last, n
    <2> QED BY ONLY <2>2, <2>3, SilencesAre
  <1>6. \A r \in QuietRuns(hush) : r.to \in Nat /\ r.to <= n
    <2>1. \A r \in QuietRuns(hush) : r.to \in 1 .. n
      BY DEF QuietRuns
    <2> QED BY <1>1, <2>1
  <1>7. CASE lull.since # 0 /\ LongEnough(lull.since, n + 1)
    <2>1. last \in whole
      <3>1. last \in QuietRuns(hush)
        BY <1>4, <1>7
      <3>2. ~(last.to < n)
        BY <1>1
      <3> QED BY <3>1, <3>2
    <2>2. \A r \in QuietRuns(hush) : r.to < n \/ r = last
      <3> TAKE r \in QuietRuns(hush)
      <3>1. r.to < n \/ r.to = n
        BY <1>1, <1>6
      <3> QED BY <1>3, <3>1
    <2>3. Silences(n + 1) = lull.found \cup {last}
      BY <1>5, <1>7
    <2> HIDE DEF last, n
    <2>4. \A r : r \in whole => r \in lull.found \cup {last}
      BY <1>2, <2>2
    <2>5. \A r : r \in lull.found \cup {last} => r \in whole
      BY <1>2, <2>1
    <2> HIDE DEF whole
    <2>6. Silences(n + 1) = whole
      BY <2>3, <2>4, <2>5
    <2> QED BY <2>6 DEF whole, n
  <1>8. CASE ~(lull.since # 0 /\ LongEnough(lull.since, n + 1))
    <2>1. \A r \in QuietRuns(hush) : r.to < n
      <3> TAKE r \in QuietRuns(hush)
      <3>1. r.to < n \/ r.to = n
        BY <1>1, <1>6
      <3> QED BY <1>3, <1>8, <3>1
    <2>2. Silences(n + 1) = lull.found
      BY <1>5, <1>8
    <2>3. lull.found = whole
      BY <1>2, <2>1
    <2> QED BY <2>2, <2>3
  <1> QED BY <1>7, <1>8

LEMMA RunsGrow ==
    ASSUME NEW h \in Seq(BOOLEAN), NEW q \in BOOLEAN
    PROVE  \A r : r \in QuietRuns(Append(h, q)) /\ r.to < Len(h) + 1 <=> r \in QuietRuns(h)
  <1> DEFINE g == Append(h, q)
             n == Len(h)
  <1>1. n \in Nat /\ Len(g) = n + 1 /\ \A i \in 1 .. n : g[i] = h[i]
    BY OneMore
  <1> HIDE DEF g
  <1>2. ASSUME NEW r, r \in QuietRuns(g), r.to < n + 1 PROVE r \in QuietRuns(h)
    <2>1. /\ r \in [from : 1 .. n + 1, to : 1 .. n + 1] /\ r.from <= r.to /\ LongEnough(r.from, r.to + 1)
          /\ \A i \in r.from .. r.to : g[i]
          /\ r.from > 1 => ~g[r.from - 1]
      BY <1>1, <1>2 DEF QuietRuns
    <2>2. r.from \in 1 .. n /\ r.to \in 1 .. n /\ r = [from |-> r.from, to |-> r.to]
      BY <1>1, <1>2, <2>1
    <2>3. r \in [from : 1 .. n, to : 1 .. n]
      BY <2>2
    <2>4. \A i \in r.from .. r.to : h[i]
      BY <1>1, <2>1, <2>2
    <2>5. r.from > 1 => ~h[r.from - 1]
      BY <1>1, <2>1, <2>2
    <2> QED BY <2>1, <2>3, <2>4, <2>5 DEF QuietRuns
  <1>3. ASSUME NEW r \in QuietRuns(h) PROVE r \in QuietRuns(g) /\ r.to < n + 1
    <2>1. /\ r \in [from : 1 .. n, to : 1 .. n] /\ r.from <= r.to /\ LongEnough(r.from, r.to + 1)
          /\ \A i \in r.from .. r.to : h[i]
          /\ r.from > 1 => ~h[r.from - 1]
      BY DEF QuietRuns
    <2>2. r.from \in 1 .. n /\ r.to \in 1 .. n /\ r = [from |-> r.from, to |-> r.to]
      BY <2>1
    <2>3. r \in [from : 1 .. n + 1, to : 1 .. n + 1]
      BY <1>1, <2>2
    <2>4. \A i \in r.from .. r.to : g[i]
      <3>1. \A i \in r.from .. r.to : i \in 1 .. n /\ h[i]
        BY <1>1, <2>1, <2>2
      <3> QED BY <1>1, <3>1
    <2>5. r.from > 1 => ~g[r.from - 1]
      <3>1. r.from > 1 => r.from - 1 \in 1 .. n /\ ~h[r.from - 1]
        BY <1>1, <2>1, <2>2
      <3> QED BY <1>1, <3>1
    <2> QED BY <1>1, <2>1, <2>2, <2>3, <2>4, <2>5 DEF QuietRuns
  <1> QED BY <1>2, <1>3 DEF g

LEMMA LevelKeepsLulls ==
    ASSUME VoiceTypeOK, LullInv, NEW q \in BOOLEAN, NextLevel(q)
    PROVE  LullInv'
  <1> DEFINE n == Len(hush)
  <1>1. n \in Nat /\ lull.since \in 0 .. n /\ hush \in Seq(BOOLEAN)
    BY DEF VoiceTypeOK
  <1>2. /\ Len(hush') = n + 1 /\ hush'[n + 1] = q
        /\ \A i \in 1 .. n : hush'[i] = hush[i]
    BY <1>1, OneMore DEF NextLevel
  <1>3. \A r : r \in QuietRuns(hush') /\ r.to < n + 1 <=> r \in QuietRuns(hush)
    BY <1>1, RunsGrow DEF NextLevel
  <1>4. \A r \in QuietRuns(hush) : r.to \in 1 .. n
    BY <1>1 DEF QuietRuns
  <1>5. lull' = IF q THEN [found |-> lull.found, since |-> IF lull.since = 0 THEN n + 1 ELSE lull.since]
                    ELSE [found |-> Silences(n + 1), since |-> 0]
    BY DEF NextLevel, Began
  <1>6. CASE q
    <2>1. {r \in QuietRuns(hush') : r.to < n + 1 /\ ~hush'[r.to + 1]}
          = {r \in QuietRuns(hush) : r.to < n /\ ~hush[r.to + 1]}
      <3>1. \A r \in QuietRuns(hush) : ~hush'[r.to + 1] <=> r.to < n /\ ~hush[r.to + 1]
        <4> TAKE r \in QuietRuns(hush)
        <4>1. r.to = n \/ r.to < n
          BY <1>1, <1>4
        <4>2. r.to < n => hush'[r.to + 1] = hush[r.to + 1]
          BY <1>1, <1>2, <1>4
        <4> QED BY <1>2, <1>6, <4>1, <4>2
      <3> QED BY <1>3, <3>1
    <2>2. lull'.found = {r \in QuietRuns(hush') : r.to < n + 1 /\ ~hush'[r.to + 1]}
      BY <1>5, <1>6, <2>1 DEF LullInv
    <2>3. /\ lull'.since # 0
          /\ \A i \in lull'.since .. n + 1 : hush'[i]
          /\ lull'.since > 1 => ~hush'[lull'.since - 1]
      <3>1. CASE lull.since = 0
        <4>1. n > 0 => ~hush[n]
          BY <1>1, <3>1 DEF LullInv
        <4>2. lull'.since = n + 1
          BY <1>5, <1>6, <3>1
        <4>3. \A i \in n + 1 .. n + 1 : hush'[i]
          <5>1. \A i \in n + 1 .. n + 1 : i = n + 1
            BY <1>1
          <5> QED BY <1>2, <1>6, <5>1
        <4>4. n + 1 > 1 => ~hush'[n + 1 - 1]
          BY <1>1, <1>2, <4>1
        <4> QED BY <1>1, <4>2, <4>3, <4>4
      <3>2. CASE lull.since # 0
        <4>1. /\ \A i \in lull.since .. n : hush[i]
              /\ lull.since > 1 => ~hush[lull.since - 1]
          BY <3>2 DEF LullInv
        <4>2. lull'.since = lull.since
          BY <1>5, <1>6, <3>2
        <4>3. \A i \in lull.since .. n + 1 : hush'[i]
          <5>1. \A i \in lull.since .. n + 1 : i = n + 1 \/ (i \in 1 .. n /\ i \in lull.since .. n)
            BY <1>1, <3>2
          <5> QED BY <1>2, <1>6, <4>1, <5>1
        <4>4. lull.since > 1 => ~hush'[lull.since - 1]
          <5>1. lull.since > 1 => lull.since - 1 \in 1 .. n
            BY <1>1
          <5> QED BY <1>2, <4>1, <5>1
        <4> QED BY <3>2, <4>2, <4>3, <4>4
      <3> QED BY <3>1, <3>2
    <2> QED BY <1>1, <1>2, <1>6, <2>2, <2>3 DEF LullInv
  <1>7. CASE ~q
    <2>1. {r \in QuietRuns(hush') : r.to < n + 1 /\ ~hush'[r.to + 1]}
          = {r \in QuietRuns(hush) : r.to < n => ~hush[r.to + 1]}
      <3>1. \A r \in QuietRuns(hush) : ~hush'[r.to + 1] <=> (r.to < n => ~hush[r.to + 1])
        BY <1>1, <1>2, <1>4, <1>7
      <3> QED BY <1>3, <3>1
    <2>2. lull'.found = {r \in QuietRuns(hush') : r.to < n + 1 /\ ~hush'[r.to + 1]} /\ lull'.since = 0
      BY <1>5, <1>7, <2>1, LullsFound
    <2> QED BY <1>1, <1>2, <1>7, <2>2 DEF LullInv
  <1> QED BY <1>6, <1>7

-----------------------------------------------------------------------------
(* Voiced segments: each begins and ends with a voiced frame, every voiced *)
(* frame is in one, inside one no break is too long, and what is voiced    *)
(* after one is too far away from its end.                                 *)

Speaks(f0) == {i \in DOMAIN f0 : f0[i] > 0}

Split(segments, f0) ==
    /\ \A i \in DOMAIN segments : segments[i].from \in Speaks(f0) /\ segments[i].to \in Speaks(f0)
    /\ \A i, j \in DOMAIN segments : i < j => segments[i].to < segments[j].to
    /\ \A x \in Speaks(f0) : \E i \in DOMAIN segments : segments[i].from <= x /\ x <= segments[i].to
    /\ \A i \in DOMAIN segments : \A x \in Speaks(f0) :
          segments[i].from <= x /\ x < segments[i].to =>
             \E k \in Speaks(f0) : x < k /\ k <= segments[i].to /\ ~TooLong(x, k)
    /\ \A i \in DOMAIN segments : \A k \in Speaks(f0) :
          segments[i].to < k => TooLong(segments[i].to, k)

TalkInv ==
    LET n == Len(track)
    IN  /\ talk.since # 0 <=> (n > 0 /\ track[n] > 0)
        /\ Split(Voiced(talk, n + 1), track)
        /\ talk.since # 0 => Voiced(talk, n + 1) # <<>> /\ Voiced(talk, n + 1)[Len(Voiced(talk, n + 1))].to = n

LEMMA LongerBreak ==
    ASSUME NEW a \in Nat, NEW b \in Nat, NEW c \in Nat, NEW d \in Nat, c <= a, b <= d,
           TooLong(a, b)
    PROVE  TooLong(c, d)
  <1>1. MergeGap \in Nat
    BY VoiceAssumption DEF VoiceAssumption
  <1>2. CASE a = c /\ b = d
    BY <1>2
  <1>3. CASE a # c \/ b # d
    <2>1. b - a > 1 /\ b - a >= MergeGap
      BY <1>1 DEF TooLong, Close
    <2>2. d - c > 1 /\ d - c > MergeGap
      BY <1>1, <1>3, <2>1
    <2> QED BY <1>1, <2>2 DEF TooLong, Close
  <1> QED BY <1>2, <1>3

LEMMA SplitIsWhole ==
    ASSUME NEW f0 \in Seq(Nat), NEW segments \in Seq(Stretch), Split(segments, f0),
           NEW a \in Speaks(f0), NEW b \in Speaks(f0), a < b
    PROVE  (\E i \in DOMAIN segments : segments[i].from <= a /\ b <= segments[i].to)
           <=> \A x \in Speaks(f0) : a <= x /\ x < b => \E k \in Speaks(f0) : x < k /\ k <= b /\ ~TooLong(x, k)
  <1>0. MergeGap \in Nat
    BY VoiceAssumption DEF VoiceAssumption
  <1>1. Speaks(f0) \subseteq Nat /\ MergeGap \in Nat
    <2>1. DOMAIN f0 = 1 .. Len(f0) /\ Len(f0) \in Nat
      BY LenProperties
    <2> QED BY <1>0, <2>1 DEF Speaks
  <1>2. ASSUME NEW i \in DOMAIN segments, segments[i].from <= a, b <= segments[i].to,
               NEW x \in Speaks(f0), a <= x, x < b
        PROVE  \E k \in Speaks(f0) : x < k /\ k <= b /\ ~TooLong(x, k)
    <2>1. segments[i].from \in Nat /\ segments[i].to \in Nat /\ x \in Nat /\ a \in Nat /\ b \in Nat
      BY <1>1 DEF Split
    <2>a. segments[i].from <= x /\ x < segments[i].to
      BY <1>2, <2>1
    <2>2. PICK k \in Speaks(f0) : x < k /\ k <= segments[i].to /\ ~TooLong(x, k)
      BY <2>a DEF Split
    <2>3. CASE k <= b
      BY <2>2, <2>3
    <2>4. CASE b < k
      <3>1. x \in Nat /\ b \in Nat /\ k \in Nat /\ x <= x /\ b <= k
        BY <1>1, <2>1, <2>4
      <3>2. ~TooLong(x, b)
        BY <2>2, <3>1, LongerBreak
      <3> QED BY <1>2, <3>1, <3>2
    <2> QED BY <1>1, <2>3, <2>4
  <1>3. ASSUME \A x \in Speaks(f0) : a <= x /\ x < b => \E k \in Speaks(f0) : x < k /\ k <= b /\ ~TooLong(x, k)
        PROVE  \E i \in DOMAIN segments : segments[i].from <= a /\ b <= segments[i].to
    <2>1. PICK i \in DOMAIN segments : segments[i].from <= a /\ a <= segments[i].to
      BY DEF Split
    <2>2. segments[i].to \in Speaks(f0)
      BY DEF Split
    <2>3. CASE segments[i].to < b
      <3>1. PICK k \in Speaks(f0) : segments[i].to < k /\ k <= b /\ ~TooLong(segments[i].to, k)
        BY <1>3, <2>1, <2>2, <2>3
      <3> QED BY <3>1 DEF Split
    <2> QED BY <1>1, <2>1, <2>2, <2>3
  <1> QED BY <1>2, <1>3

(* An unvoiced frame changes nothing; a voiced one makes the last segment  *)
(* longer if it is near enough, and begins another one otherwise.          *)
LEMMA UnvoicedAdds ==
    ASSUME NEW f0 \in Seq(Nat), NEW hz \in Nat
    PROVE  Speaks(Append(f0, hz)) = IF hz > 0 THEN Speaks(f0) \cup {Len(f0) + 1} ELSE Speaks(f0)
  <1>1. /\ Len(f0) \in Nat /\ DOMAIN f0 = 1 .. Len(f0)
        /\ DOMAIN Append(f0, hz) = 1 .. Len(f0) + 1
        /\ Append(f0, hz)[Len(f0) + 1] = hz
        /\ \A i \in 1 .. Len(f0) : Append(f0, hz)[i] = f0[i]
    BY OneMore, LenProperties
  <1> QED BY <1>1 DEF Speaks

LEMMA SegmentGoesOn ==
    ASSUME NEW f0 \in Seq(Nat), NEW segments \in Seq(Stretch), Split(segments, f0),
           NEW hz \in Nat, hz > 0, segments # <<>>,
           ~TooLong(segments[Len(segments)].to, Len(f0) + 1)
    PROVE  Split(Stretched(segments, Len(f0) + 1), Append(f0, hz))
  <1> DEFINE n == Len(f0)
             m == Len(segments)
             longer == [from |-> segments[m].from, to |-> n + 1]
             now == [segments EXCEPT ![m] = longer]
             S == Speaks(f0)
             T == Speaks(Append(f0, hz))
  <1>1. /\ n \in Nat /\ MergeGap \in Nat /\ T = S \cup {n + 1}
        /\ \A x \in S : x \in Nat /\ 0 < x /\ x <= n
    <2>1. \A x \in S : x \in 1 .. n
      BY LenProperties DEF Speaks
    <2>2. n \in Nat /\ T = S \cup {n + 1}
      BY UnvoicedAdds, LenProperties
    <2>3. MergeGap \in Nat
      BY VoiceAssumption DEF VoiceAssumption
    <2> QED BY <2>1, <2>2, <2>3
  <1>a. n \in Nat /\ MergeGap \in Nat /\ \A x \in S : x \in Nat /\ x <= n
    BY <1>1
  <1>2. m \in Nat \ {0} /\ DOMAIN segments = 1 .. m
    BY EmptySeq, LenProperties
  <1>s. /\ \A i \in 1 .. m : segments[i].from \in S /\ segments[i].to \in S
        /\ \A i, j \in 1 .. m : i < j => segments[i].to < segments[j].to
        /\ \A x \in S : \E i \in 1 .. m : segments[i].from <= x /\ x <= segments[i].to
        /\ \A i \in 1 .. m : \A x \in S :
              segments[i].from <= x /\ x < segments[i].to =>
                 \E k \in S : x < k /\ k <= segments[i].to /\ ~TooLong(x, k)
        /\ \A i \in 1 .. m : \A k \in S : segments[i].to < k => TooLong(segments[i].to, k)
    BY <1>2, Zenon DEF Split
  <1>3. segments[m].from \in S /\ segments[m].to \in S
    BY <1>2, <1>s
  <1>4. longer \in Stretch /\ longer.from = segments[m].from /\ longer.to = n + 1
    <2>1. segments[m].from \in Nat /\ n + 1 \in Nat
      BY <1>1, <1>3
    <2> QED BY <2>1 DEF Stretch
  <1>5. now \in Seq(Stretch) /\ DOMAIN now = 1 .. m /\ now[m] = longer
        /\ \A j \in 1 .. m : j # m => now[j] = segments[j]
    BY <1>4, LastChanged, LenProperties
  <1>t. ~TooLong(segments[m].to, n + 1)
    OBVIOUS
  <1> HIDE DEF T, S, now, longer, m, n
  <1>6. \A i \in 1 .. m : now[i].from \in T /\ now[i].to \in T
    BY <1>1, <1>2, <1>3, <1>4, <1>5, <1>s
  <1>7. \A i \in 1 .. m : i # m => segments[i].to < segments[m].to
    <2>1. \A i \in 1 .. m : i # m => i < m /\ m \in 1 .. m
      BY <1>2
    <2> QED BY <1>s, <2>1
  <1>8. \A i, j \in 1 .. m : i < j => now[i].to < now[j].to
    <2> SUFFICES ASSUME NEW i \in 1 .. m, NEW j \in 1 .. m, i < j PROVE now[i].to < now[j].to
      OBVIOUS
    <2>0. i # m
      BY <1>2
    <2>1. i # m /\ now[i] = segments[i] /\ segments[i].to \in S
      BY <1>5, <1>s, <2>0
    <2>2. CASE j = m
      BY <1>1, <1>4, <1>5, <2>1, <2>2
    <2>3. CASE j # m
      BY <1>2, <1>4, <1>5, <2>1, <2>3, <1>s
    <2> QED BY <2>2, <2>3
  <1>9. \A x \in T : \E i \in 1 .. m : now[i].from <= x /\ x <= now[i].to
    <2> TAKE x \in T
    <2>1. CASE x = n + 1
      <3>1. m \in 1 .. m
        BY <1>2
      <3>2. now[m].from <= n + 1 /\ n + 1 <= now[m].to
        BY <1>1, <1>3, <1>4, <1>5
      <3> QED BY <2>1, <3>1, <3>2
    <2>2. CASE x \in S
      <3>1. PICK i \in 1 .. m : segments[i].from <= x /\ x <= segments[i].to
        BY <1>2, <2>2, <1>s
      <3>2. now[i].from <= x /\ x <= now[i].to
        <4>1. CASE i = m
          BY <1>1, <1>4, <1>5, <2>2, <3>1, <4>1
        <4>2. CASE i # m
          BY <1>4, <1>5, <3>1, <4>2
        <4> QED BY <4>1, <4>2
      <3> QED BY <3>2
    <2> QED BY <1>1, <2>1, <2>2
  <1>10. ASSUME NEW i \in 1 .. m, NEW x \in T, now[i].from <= x, x < now[i].to
         PROVE  \E k \in T : x < k /\ k <= now[i].to /\ ~TooLong(x, k)
    <2>1. CASE i # m
      <3>0. now[i] = segments[i] /\ segments[i].to \in S
        BY <1>5, <2>1, <1>s
      <3>1. now[i] = segments[i] /\ segments[i].to \in S /\ x \in S
        BY <1>1, <1>10, <3>0
      <3> QED BY <1>1, <1>2, <1>10, <3>1, <1>s
    <2>2. CASE i = m
      <3>1. now[i].to = n + 1 /\ now[i].from = segments[m].from /\ x \in S
        BY <1>1, <1>4, <1>5, <1>10, <2>2
      <3>2. CASE x < segments[m].to
        <4>a. segments[m].from <= x /\ m \in 1 .. m
          BY <1>10, <2>2, <3>1
        <4>1. PICK k \in S : x < k /\ k <= segments[m].to /\ ~TooLong(x, k)
          BY <3>1, <3>2, <4>a, <1>s
        <4>2. k \in T /\ k <= now[i].to
          BY <1>1, <3>1, <4>1
        <4> QED BY <4>1, <4>2
      <3>3. CASE segments[m].to <= x
        <4>1. segments[m].to \in Nat /\ x \in Nat /\ n + 1 \in Nat /\ n + 1 <= n + 1
          BY <1>a, <1>3, <3>1
        <4>2. ~TooLong(x, n + 1)
          BY <1>t, <3>3, <4>1, LongerBreak
        <4>3. n + 1 \in T /\ x < n + 1 /\ n + 1 <= now[i].to
          BY <1>1, <3>1
        <4> QED BY <4>2, <4>3
      <3> QED BY <1>1, <1>3, <3>1, <3>2, <3>3
    <2> QED BY <2>1, <2>2
  <1>11. ASSUME NEW i \in 1 .. m, NEW k \in T, now[i].to < k PROVE TooLong(now[i].to, k)
    <2>0. i # m
      BY <1>1, <1>4, <1>5, <1>11
    <2>1. i # m /\ now[i] = segments[i] /\ segments[i].to \in S
      BY <1>5, <1>s, <2>0
    <2>2. CASE k \in S
      BY <1>2, <1>11, <2>1, <2>2, <1>s
    <2>3. CASE k = n + 1
      <3>1. TooLong(segments[i].to, segments[m].to)
        BY <1>2, <1>3, <1>7, <2>1, <1>s
      <3>3. segments[m].to \in Nat /\ segments[i].to \in Nat /\ segments[m].to <= n
        BY <1>a, <1>3, <2>1
      <3>2. segments[i].to <= segments[i].to /\ segments[m].to <= k /\ k \in Nat
        BY <1>a, <2>3, <3>3
      <3>4. TooLong(segments[i].to, k)
        BY <3>1, <3>2, <3>3, LongerBreak
      <3> QED BY <2>1, <3>4
    <2> QED BY <1>1, <2>2, <2>3
  <1>12. Split(now, Append(f0, hz))
    BY <1>4, <1>5, <1>6, <1>8, <1>9, <1>10, <1>11 DEF Split, T
  <1> QED BY <1>12 DEF now, longer, m, n, Stretched

LEMMA SegmentBegins ==
    ASSUME NEW f0 \in Seq(Nat), NEW segments \in Seq(Stretch), Split(segments, f0),
           NEW hz \in Nat, hz > 0,
           segments # <<>> => TooLong(segments[Len(segments)].to, Len(f0) + 1)
    PROVE  Split(Another(segments, Len(f0) + 1, Len(f0) + 1), Append(f0, hz))
  <1> DEFINE n == Len(f0)
             m == Len(segments)
             new == [from |-> n + 1, to |-> n + 1]
             now == Append(segments, new)
             S == Speaks(f0)
             T == Speaks(Append(f0, hz))
  <1>1. /\ n \in Nat /\ MergeGap \in Nat /\ T = S \cup {n + 1}
        /\ \A x \in S : x \in Nat /\ 0 < x /\ x <= n
    <2>1. \A x \in S : x \in 1 .. n
      BY LenProperties DEF Speaks
    <2>2. n \in Nat /\ T = S \cup {n + 1}
      BY UnvoicedAdds, LenProperties
    <2>3. MergeGap \in Nat
      BY VoiceAssumption DEF VoiceAssumption
    <2> QED BY <2>1, <2>2, <2>3
  <1>a. n \in Nat /\ MergeGap \in Nat /\ \A x \in S : x \in Nat /\ x <= n
    BY <1>1
  <1>2. m \in Nat /\ DOMAIN segments = 1 .. m
    BY LenProperties
  <1>s. /\ \A i \in 1 .. m : segments[i].from \in S /\ segments[i].to \in S
        /\ \A i, j \in 1 .. m : i < j => segments[i].to < segments[j].to
        /\ \A x \in S : \E i \in 1 .. m : segments[i].from <= x /\ x <= segments[i].to
        /\ \A i \in 1 .. m : \A x \in S :
              segments[i].from <= x /\ x < segments[i].to =>
                 \E k \in S : x < k /\ k <= segments[i].to /\ ~TooLong(x, k)
        /\ \A i \in 1 .. m : \A k \in S : segments[i].to < k => TooLong(segments[i].to, k)
    BY <1>2, Zenon DEF Split
  <1>3. new \in Stretch /\ new.from = n + 1 /\ new.to = n + 1
    BY <1>1 DEF Stretch
  <1>4. now \in Seq(Stretch) /\ DOMAIN now = 1 .. m + 1 /\ now[m + 1] = new
        /\ \A j \in 1 .. m : now[j] = segments[j] /\ now[j].from \in S /\ now[j].to \in S
    BY <1>2, <1>3, OneMore, LenProperties, <1>s
  <1>t. segments # <<>> => TooLong(segments[m].to, n + 1)
    OBVIOUS
  <1> HIDE DEF T, S, now, new, m, n
  <1>5. \A i \in 1 .. m + 1 : now[i].from \in T /\ now[i].to \in T
    BY <1>1, <1>2, <1>3, <1>4
  <1>6. \A i, j \in 1 .. m + 1 : i < j => now[i].to < now[j].to
    <2> SUFFICES ASSUME NEW i \in 1 .. m + 1, NEW j \in 1 .. m + 1, i < j PROVE now[i].to < now[j].to
      OBVIOUS
    <2>1. i \in 1 .. m
      BY <1>2
    <2>2. CASE j = m + 1
      BY <1>1, <1>3, <1>4, <2>1, <2>2
    <2>3. CASE j # m + 1
      <3>1. j \in 1 .. m
        BY <1>2, <2>3
      <3> QED BY <1>4, <2>1, <3>1, <1>s
    <2> QED BY <2>2, <2>3
  <1>7. \A x \in T : \E i \in 1 .. m + 1 : now[i].from <= x /\ x <= now[i].to
    <2> TAKE x \in T
    <2>1. CASE x = n + 1
      BY <1>1, <1>2, <1>3, <1>4, <2>1
    <2>2. CASE x \in S
      <3>1. PICK i \in 1 .. m : segments[i].from <= x /\ x <= segments[i].to
        BY <1>2, <2>2, <1>s
      <3> QED BY <1>2, <1>3, <1>4, <3>1
    <2> QED BY <1>1, <2>1, <2>2
  <1>8. ASSUME NEW i \in 1 .. m + 1, NEW x \in T, now[i].from <= x, x < now[i].to
        PROVE  \E k \in T : x < k /\ k <= now[i].to /\ ~TooLong(x, k)
    <2>1. i \in 1 .. m
      BY <1>1, <1>2, <1>3, <1>4, <1>8
    <2>2. x \in S
      BY <1>1, <1>3, <1>4, <1>8, <2>1
    <2> QED BY <1>1, <1>2, <1>3, <1>4, <1>8, <2>1, <2>2, <1>s
  <1>9. ASSUME NEW i \in 1 .. m + 1, NEW k \in T, now[i].to < k PROVE TooLong(now[i].to, k)
    <2>1. i \in 1 .. m /\ now[i] = segments[i] /\ segments[i].to \in S
      BY <1>1, <1>2, <1>3, <1>4, <1>9
    <2>2. CASE k \in S
      BY <1>2, <1>9, <2>1, <2>2, <1>s
    <2>3. CASE k = n + 1
      <3>1. segments # <<>> /\ m \in 1 .. m /\ segments[m].to \in S
        BY <1>2, <1>3, <1>4, <2>1, EmptySeq
      <3>2. TooLong(segments[m].to, n + 1)
        BY <1>t, <3>1
      <3>3. segments[i].to <= segments[m].to
        <4>1. i = m \/ i < m
          BY <1>2, <2>1
        <4>2. segments[i].to \in Nat /\ segments[m].to \in Nat
          BY <1>1, <2>1, <3>1
        <4>3. i < m => segments[i].to < segments[m].to
          BY <2>1, <3>1, <1>s
        <4> QED BY <4>1, <4>2, <4>3
      <3>4. segments[m].to \in Nat /\ segments[i].to \in Nat
        BY <1>a, <2>1, <3>1
      <3>5. n + 1 \in Nat /\ k = n + 1 /\ n + 1 <= n + 1
        BY <1>a, <2>3
      <3>8. TooLong(segments[i].to, n + 1)
        BY <3>2, <3>3, <3>4, <3>5, LongerBreak
      <3>9. now[i].to = segments[i].to
        BY <2>1
      <3> QED BY <3>5, <3>8, <3>9
    <2> QED BY <1>1, <2>2, <2>3
  <1>10. Split(now, Append(f0, hz))
    BY <1>3, <1>4, <1>5, <1>6, <1>7, <1>8, <1>9 DEF Split, T
  <1> QED BY <1>10 DEF now, new, m, n, Another

LEMMA PitchKeepsTalk ==
    ASSUME VoiceTypeOK, TalkInv, NEW hz \in Pitches, NextPitch(hz)
    PROVE  TalkInv'
  <1> DEFINE n == Len(track)
             M == talk.merged
             V == Voiced(talk, n + 1)
             U == Voiced(talk', n + 1 + 1)
  <1>1. /\ n \in Nat /\ talk.since \in Nat /\ hz \in Nat /\ track \in Seq(Nat)
        /\ MergeGap \in Nat /\ M \in Seq(Stretch) /\ n + 1 \in Nat
    <2>1. track \in Seq(Pitches) /\ Pitches \subseteq Nat /\ MergeGap \in Nat
      BY VoiceAssumption DEF VoiceTypeOK, VoiceAssumption
    <2>2. track \in Seq(Nat)
      BY <2>1, SeqMonotonic
    <2> QED BY <2>1, <2>2, LenProperties DEF VoiceTypeOK
  <1>2. /\ track' = Append(track, hz) /\ Len(track') = n + 1 /\ track'[n + 1] = hz
    BY <1>1, OneMore DEF NextPitch
  <1>3. talk' = IF hz > 0 THEN [merged |-> M, since |-> IF talk.since = 0 THEN n + 1 ELSE talk.since]
                          ELSE [merged |-> V, since |-> 0]
    BY DEF NextPitch, Began
  <1>4. /\ V \in Seq(Stretch) /\ Split(V, track) /\ (talk.since = 0 => V = M)
        /\ talk.since # 0 /\ Joins(M, talk.since) => V = Stretched(M, n)
        /\ talk.since # 0 /\ ~Joins(M, talk.since) => V = Another(M, talk.since, n)
    BY <1>1, VoicedCases DEF TalkInv
  <1>5. CASE ~(hz > 0)
    <2>1. talk'.since = 0 /\ talk'.merged = V
      BY <1>3, <1>5
    <2>2. U = V
      BY <2>1 DEF Voiced
    <2>3. Speaks(track') = Speaks(track)
      BY <1>1, <1>2, <1>5, UnvoicedAdds
    <2>4. Split(V, track')
      BY <1>4, <2>3 DEF Split
    <2> QED BY <1>2, <1>5, <2>1, <2>2, <2>4 DEF TalkInv
  <1>6. CASE hz > 0 /\ talk.since # 0
    <2>1. /\ talk'.merged = M /\ talk'.since = talk.since
          /\ talk'.merged \in Seq(Stretch) /\ talk'.since \in Nat
      BY <1>1, <1>3, <1>6
    <2>2. V # <<>> /\ V[Len(V)].to = n
      BY <1>6 DEF TalkInv
    <2>3. U = Stretched(V, n + 1)
      <3>1. CASE Joins(M, talk.since)
        <4>1. M # <<>>
          BY <3>1 DEF Joins
        <4>2. U = Stretched(M, n + 1)
          BY <1>1, <1>6, <2>1, <3>1, VoicedCases
        <4>3. V = Stretched(M, n)
          BY <1>4, <1>6, <3>1
        <4> QED BY <1>1, <4>1, <4>2, <4>3, ChangedTwice
      <3>2. CASE ~Joins(M, talk.since)
        <4>1. U = Another(M, talk.since, n + 1)
          BY <1>1, <1>6, <2>1, <3>2, VoicedCases
        <4>2. V = Another(M, talk.since, n)
          BY <1>4, <1>6, <3>2
        <4> QED BY <1>1, <4>1, <4>2, AppendedChanged
      <3> QED BY <3>1, <3>2
    <2>4. ~TooLong(V[Len(V)].to, n + 1)
      BY <1>1, <2>2 DEF TooLong
    <2>5. Split(U, track')
      BY <1>1, <1>2, <1>4, <1>6, <2>2, <2>3, <2>4, SegmentGoesOn
    <2>6. U # <<>> /\ U[Len(U)].to = n + 1
      BY <1>1, <1>4, <2>2, <2>3, Longer
    <2> QED BY <1>1, <1>2, <1>6, <2>1, <2>5, <2>6 DEF TalkInv
  <1>7. CASE hz > 0 /\ talk.since = 0
    <2>1. /\ talk'.merged = M /\ talk'.since = n + 1 /\ V = M /\ talk'.since # 0
          /\ talk'.merged \in Seq(Stretch) /\ talk'.since \in Nat
      BY <1>1, <1>3, <1>4, <1>7
    <2>2. n > 0 => ~(track[n] > 0)
      BY <1>1, <1>7 DEF TalkInv
    <2>3. CASE Joins(M, n + 1)
      <3>1. M # <<>> /\ Close(M[Len(M)].to, n + 1)
        BY <2>3 DEF Joins
      <3>2. U = Stretched(M, n + 1)
        BY <1>1, <2>1, <2>3, VoicedCases
      <3>3. ~TooLong(M[Len(M)].to, n + 1)
        BY <3>1 DEF TooLong
      <3>4. Split(U, track')
        BY <1>1, <1>2, <1>4, <1>7, <2>1, <3>1, <3>2, <3>3, SegmentGoesOn
      <3>5. U # <<>> /\ U[Len(U)].to = n + 1
        BY <1>1, <3>1, <3>2, Longer
      <3> QED BY <1>1, <1>2, <1>7, <2>1, <3>4, <3>5 DEF TalkInv
    <2>4. CASE ~Joins(M, n + 1)
      <3>1. U = Another(M, n + 1, n + 1)
        BY <1>1, <2>1, <2>4, VoicedCases
      <3>2. M # <<>> => TooLong(M[Len(M)].to, n + 1)
        <4> SUFFICES ASSUME M # <<>> PROVE TooLong(M[Len(M)].to, n + 1)
          OBVIOUS
        <4>1. M[Len(M)].to \in Nat /\ Len(M) \in DOMAIN M
          BY <1>1, LastType
        <4>2. M[Len(M)].to \in Speaks(track)
          BY <1>4, <2>1, <4>1 DEF Split
        <4>3. M[Len(M)].to \in 1 .. n /\ track[M[Len(M)].to] > 0
          BY <1>1, <4>2, LenProperties DEF Speaks
        <4>4. M[Len(M)].to < n
          BY <1>1, <2>2, <4>1, <4>3
        <4>5. ~Close(M[Len(M)].to, n + 1)
          BY <2>4 DEF Joins
        <4> QED BY <1>1, <4>1, <4>4, <4>5 DEF TooLong
      <3>3. Split(U, track')
        BY <1>1, <1>2, <1>4, <1>7, <2>1, <3>1, <3>2, SegmentBegins
      <3>4. U # <<>> /\ U[Len(U)].to = n + 1
        BY <1>1, <3>1, Begun
      <3> QED BY <1>1, <1>2, <1>7, <2>1, <3>3, <3>4 DEF TalkInv
    <2> QED BY <2>3, <2>4
  <1> QED BY <1>1, <1>5, <1>6, <1>7

-----------------------------------------------------------------------------
(* What is said: the last segment ends where the last word ends, so a word *)
(* goes on with it exactly if the pause between the two words is short.    *)

Words == {j \in DOMAIN items : items[j].kind = "word"}

SaidInv ==
    /\ \A i \in DOMAIN told : told[i].said \subseteq DOMAIN items
    /\ told # <<>> => \E w \in told[Len(told)].said \cap Words :
                         (\A j \in Words : j <= w) /\ items[w].to = told[Len(told)].to
    /\ SaidWhole

(* What has been said of the next state is what is said of it.             *)
LEMMA SaidParts ==
    ASSUME \A j \in Words' : \E i \in DOMAIN told' : j \in told'[i].said,
           \A i, k \in DOMAIN told' : i < k => \A a \in told'[i].said, b \in told'[k].said : a < b,
           \A i \in DOMAIN told' : \A a, b \in told'[i].said \cap Words' :
              /\ Speaker(items'[a].label) = told'[i].who
              /\ a < b /\ (\A j \in Words' : j <= a \/ b <= j) => Near(items'[a].to, items'[b].from),
           \A i \in 2 .. Len(told') :
              told'[i].who # told'[i - 1].who \/ ~Near(told'[i - 1].to, told'[i].from)
    PROVE  SaidWhole'
  BY DEF SaidWhole, Words

LEMMA OneItemMore ==
    ASSUME VoiceTypeOK, NEW w \in Item, items' = Append(items, w)
    PROVE  LET m == Len(items) + 1
           IN  /\ m \in Nat /\ DOMAIN items' = DOMAIN items \cup {m} /\ items'[m] = w
               /\ \A j \in DOMAIN items : j \in Nat /\ j < m /\ items'[j] = items[j]
               /\ Words' = IF w.kind = "word" THEN Words \cup {m} ELSE Words
               /\ Words \subseteq DOMAIN items
  <1> DEFINE n == Len(items)
  <1>1. /\ n \in Nat /\ DOMAIN items = 1 .. n /\ DOMAIN items' = 1 .. n + 1 /\ items'[n + 1] = w
        /\ \A j \in 1 .. n : items'[j] = items[j]
    BY OneMore, LenProperties DEF VoiceTypeOK
  <1>2. DOMAIN items' = DOMAIN items \cup {n + 1}
    BY <1>1
  <1>3. \A j \in DOMAIN items : j \in Nat /\ j < n + 1 /\ items'[j] = items[j]
    BY <1>1
  <1>4. Words' = IF w.kind = "word" THEN Words \cup {n + 1} ELSE Words
    BY <1>1, <1>2, <1>3 DEF Words
  <1> QED BY <1>1, <1>2, <1>3, <1>4 DEF Words

(* Nothing is said by an item that is left out, or by punctuation.         *)
LEMMA MarkKeepsSaid ==
    ASSUME VoiceTypeOK, SaidInv, NEW w \in Item, w.kind # "word", items' = Append(items, w), Say(w)
    PROVE  SaidInv'
  <1> DEFINE n == Len(told)
             m == Len(items) + 1
  <1>1. /\ m \in Nat /\ DOMAIN items' = DOMAIN items \cup {m} /\ Words' = Words /\ Words \subseteq DOMAIN items
        /\ \A j \in DOMAIN items : j \in Nat /\ j < m /\ items'[j] = items[j]
    BY OneItemMore
  <1>2. /\ told \in Seq(Segment) /\ n \in Nat /\ DOMAIN told = 1 .. n /\ w.kind \in {"mark", "untimed"}
        /\ n = 0 <=> told = <<>>
    BY LenProperties, EmptySeq DEF VoiceTypeOK, Item
  <1>3. /\ DOMAIN told' = DOMAIN told /\ (told' = <<>> <=> told = <<>>) /\ Len(told') = n
        /\ \A i \in DOMAIN told : /\ told'[i].who = told[i].who /\ told'[i].from = told[i].from
                                  /\ told'[i].to = told[i].to
                                  /\ told[i].said \subseteq told'[i].said
                                  /\ told'[i].said = told[i].said \/ (i = n /\ told'[i].said = told[i].said \cup {m})
    <2>1. CASE told' = told
      BY <1>2, <2>1
    <2>2. CASE told # <<>> /\ told' = SaidOn(told, told[n].to, m)
      <3>1. told[n].to \in Nat
        BY <2>2, Saying DEF Segment
      <3> QED BY <1>1, <1>2, <2>2, <3>1, SaidOnIs
    <2> QED BY <1>2, <2>1, <2>2, Saying
  <1>4. \A i \in DOMAIN told : told'[i].said \cap Words = told[i].said \cap Words
    BY <1>1, <1>3
  <1>5. \A i \in DOMAIN told : told'[i].said \subseteq DOMAIN items'
    BY <1>1, <1>3 DEF SaidInv
  <1>6. told' # <<>> => \E x \in told'[Len(told')].said \cap Words' :
                           (\A j \in Words' : j <= x) /\ items'[x].to = told'[Len(told')].to
    <2> SUFFICES ASSUME told # <<>>
                 PROVE  \E x \in told'[n].said \cap Words' : (\A j \in Words' : j <= x) /\ items'[x].to = told'[n].to
      BY <1>3
    <2>1. PICK x \in told[n].said \cap Words : (\A j \in Words : j <= x) /\ items[x].to = told[n].to
      BY DEF SaidInv
    <2>2. n \in DOMAIN told
      BY <1>2
    <2> QED BY <1>1, <1>3, <2>1, <2>2
  <1>7. \A j \in Words' : \E i \in DOMAIN told' : j \in told'[i].said
    BY <1>1, <1>3 DEF SaidInv, SaidWhole, Words
  <1>8. \A i, k \in DOMAIN told' : i < k => \A a \in told'[i].said, b \in told'[k].said : a < b
    <2> SUFFICES ASSUME NEW i \in DOMAIN told, NEW k \in DOMAIN told, i < k,
                        NEW a \in told'[i].said, NEW b \in told'[k].said
                 PROVE  a < b
      BY <1>3
    <2>1. i # n
      BY <1>2
    <2>2. a \in told[i].said /\ a \in DOMAIN items
      BY <1>3, <2>1 DEF SaidInv
    <2>3. CASE b \in told[k].said
      BY <2>2, <2>3 DEF SaidInv, SaidWhole
    <2>4. CASE b = m
      BY <1>1, <2>2, <2>4
    <2> QED BY <1>3, <2>3, <2>4
  <1>9. \A i \in DOMAIN told' : \A a, b \in told'[i].said \cap Words' :
           /\ Speaker(items'[a].label) = told'[i].who
           /\ a < b /\ (\A j \in Words' : j <= a \/ b <= j) => Near(items'[a].to, items'[b].from)
    <2> SUFFICES ASSUME NEW i \in DOMAIN told, NEW a \in told[i].said \cap Words, NEW b \in told[i].said \cap Words
                 PROVE  /\ Speaker(items'[a].label) = told'[i].who
                        /\ a < b /\ (\A j \in Words : j <= a \/ b <= j)
                              => Near(items'[a].to, items'[b].from)
      <3>1. DOMAIN told' = DOMAIN told /\ Words' = Words
        BY <1>1, <1>3
      <3>2. \A i \in DOMAIN told : told'[i].said \cap Words' = told[i].said \cap Words
        BY <1>1, <1>4
      <3> QED BY <3>1, <3>2
    <2>1. items'[a] = items[a] /\ items'[b] = items[b] /\ told'[i].who = told[i].who
      BY <1>1, <1>3
    <2> QED BY <2>1 DEF SaidInv, SaidWhole, Words
  <1>10. \A i \in 2 .. Len(told') : told'[i].who # told'[i - 1].who \/ ~Near(told'[i - 1].to, told'[i].from)
    <2>1. \A i \in 2 .. n : i \in DOMAIN told /\ i - 1 \in DOMAIN told
      BY <1>2
    <2> QED BY <1>3, <2>1 DEF SaidInv, SaidWhole
  <1>11. SaidWhole'
    BY ONLY <1>7, <1>8, <1>9, <1>10, SaidParts
  <1> QED BY <1>3, <1>5, <1>6, <1>11 DEF SaidInv

(* A word goes on with the last segment or begins another one.             *)
LEMMA WordGoesOn ==
    ASSUME VoiceTypeOK, SaidInv, NEW w \in Item, w.kind = "word", items' = Append(items, w),
           told # <<>>, told[Len(told)].who = Speaker(w.label),
           Near(told[Len(told)].to, w.from), told' = SaidOn(told, w.to, Len(items) + 1)
    PROVE  SaidInv'
  <1> DEFINE n == Len(told)
             m == Len(items) + 1
  <1>1. /\ m \in Nat /\ DOMAIN items' = DOMAIN items \cup {m} /\ Words' = Words \cup {m} /\ items'[m] = w
        /\ Words \subseteq DOMAIN items
        /\ \A j \in DOMAIN items : j \in Nat /\ j < m /\ items'[j] = items[j]
    BY OneItemMore
  <1>2. /\ told \in Seq(Segment) /\ n \in Nat /\ DOMAIN told = 1 .. n /\ w.to \in Nat
    BY LenProperties DEF VoiceTypeOK, Item
  <1>3. /\ DOMAIN told' = DOMAIN told /\ told' # <<>> /\ Len(told') = n /\ n \in DOMAIN told
        /\ \A i \in DOMAIN told : i # n => told'[i] = told[i]
        /\ told'[n].who = told[n].who /\ told'[n].from = told[n].from
        /\ told'[n].to = w.to /\ told'[n].said = told[n].said \cup {m}
    BY <1>1, <1>2, SaidOnIs
  <1> HIDE DEF n, m
  <1>4. told[n].who = Speaker(w.label) /\ Near(told[n].to, w.from)
    BY DEF n
  <1>5. \A i \in DOMAIN told : told[i].said \subseteq DOMAIN items /\ m \notin told[i].said
    BY <1>1 DEF SaidInv
  <1>6. \A i \in DOMAIN told' : told'[i].said \subseteq DOMAIN items'
    BY <1>1, <1>3, <1>5
  <1>7. PICK last \in told[n].said \cap Words : (\A j \in Words : j <= last) /\ items[last].to = told[n].to
    BY DEF SaidInv, n
  <1>8. \E x \in told'[n].said \cap Words' : (\A j \in Words' : j <= x) /\ items'[x].to = told'[n].to
    <2>1. m \in told'[n].said \cap Words' /\ items'[m].to = told'[n].to
      BY <1>1, <1>3
    <2>2. \A j \in Words' : j <= m
      BY <1>1
    <2> QED BY <2>1, <2>2
  <1>9. \A j \in Words' : \E i \in DOMAIN told' : j \in told'[i].said
    <2> TAKE j \in Words'
    <2>1. CASE j = m
      BY <1>3, <2>1
    <2>2. CASE j \in Words
      <3>1. PICK i \in DOMAIN told : j \in told[i].said
        BY <2>2 DEF SaidInv, SaidWhole, Words
      <3> QED BY <1>3, <3>1
    <2> QED BY <1>1, <2>1, <2>2
  <1>10. \A i, k \in DOMAIN told' : i < k => \A a \in told'[i].said, b \in told'[k].said : a < b
    <2> SUFFICES ASSUME NEW i \in DOMAIN told, NEW k \in DOMAIN told, i < k,
                        NEW a \in told'[i].said, NEW b \in told'[k].said
                 PROVE  a < b
      BY <1>3
    <2>1. i # n
      BY <1>2 DEF n
    <2>2. a \in told[i].said /\ a \in DOMAIN items
      BY <1>3, <1>5, <2>1
    <2>3. CASE b \in told[k].said
      BY <2>2, <2>3 DEF SaidInv, SaidWhole
    <2>4. CASE b = m
      BY <1>1, <2>2, <2>4
    <2> QED BY <1>3, <2>3, <2>4
  <1>11. \A i \in DOMAIN told' : \A a, b \in told'[i].said \cap Words' :
            /\ Speaker(items'[a].label) = told'[i].who
            /\ a < b /\ (\A j \in Words' : j <= a \/ b <= j) => Near(items'[a].to, items'[b].from)
    <2> SUFFICES ASSUME NEW i \in DOMAIN told', NEW a \in told'[i].said \cap Words', NEW b \in told'[i].said \cap Words'
                 PROVE  /\ Speaker(items'[a].label) = told'[i].who
                        /\ a < b /\ (\A j \in Words' : j <= a \/ b <= j)
                              => Near(items'[a].to, items'[b].from)
      OBVIOUS
    <2>0. i \in DOMAIN told
      BY <1>3
    <2>1. told'[i].who = told[i].who
      BY <1>3, <2>0
    <2>2. \A x \in told'[i].said \cap Words' : x \in told[i].said \cap Words \/ (x = m /\ i = n)
      BY <1>1, <1>3, <1>5, <2>0
    <2>3. \A x \in told[i].said \cap Words : Speaker(items[x].label) = told[i].who
      BY <2>0 DEF SaidInv, SaidWhole, Words
    <2>4. Speaker(items'[a].label) = told'[i].who
      BY <1>1, <1>4, <2>1, <2>2, <2>3
    <2>5. CASE a \in told[i].said \cap Words /\ b \in told[i].said \cap Words
      BY <1>1, <2>0, <2>4, <2>5 DEF SaidInv, SaidWhole, Words
    <2>6. CASE a = m
      <3>1. ~(a < b)
        BY <1>1, <2>6
      <3> QED BY <2>4, <3>1
    <2>7. CASE a \in told[i].said \cap Words /\ b = m /\ i = n
      <3> SUFFICES ASSUME \A j \in Words' : j <= a \/ b <= j
                   PROVE  Near(items'[a].to, items'[b].from)
        BY <2>4
      <3>1. last <= a \/ m <= last
        BY <1>1, <1>7, <2>7
      <3>2. last \in Nat /\ last < m /\ a \in Nat
        BY <1>1, <1>7, <2>7
      <3>3. last = a
        BY <1>1, <1>7, <2>7, <3>1, <3>2
      <3> QED BY <1>1, <1>4, <1>7, <2>7, <3>3
    <2> QED BY <2>2, <2>5, <2>6, <2>7
  <1>12. \A i \in 2 .. Len(told') : told'[i].who # told'[i - 1].who \/ ~Near(told'[i - 1].to, told'[i].from)
    <2> SUFFICES ASSUME NEW i \in 2 .. n
                 PROVE  told'[i].who # told'[i - 1].who \/ ~Near(told'[i - 1].to, told'[i].from)
      BY <1>3
    <2>1. i \in DOMAIN told /\ i - 1 \in DOMAIN told /\ i - 1 # n
      BY <1>2 DEF n
    <2>2. told'[i - 1] = told[i - 1] /\ told'[i].who = told[i].who /\ told'[i].from = told[i].from
      BY <1>3, <2>1
    <2>3. told[i].who # told[i - 1].who \/ ~Near(told[i - 1].to, told[i].from)
      BY DEF SaidInv, SaidWhole, n
    <2> QED BY <2>2, <2>3
  <1>13. SaidWhole'
    BY ONLY <1>9, <1>10, <1>11, <1>12, SaidParts
  <1> QED BY <1>3, <1>6, <1>8, <1>13 DEF SaidInv

LEMMA WordBegins ==
    ASSUME VoiceTypeOK, SaidInv, NEW w \in Item, w.kind = "word", items' = Append(items, w), Say(w),
           ~(told # <<>> /\ told[Len(told)].who = Speaker(w.label) /\ Near(told[Len(told)].to, w.from))
    PROVE  SaidInv'
  <1> DEFINE n == Len(told)
             m == Len(items) + 1
             new == [who |-> Speaker(w.label), from |-> w.from, to |-> w.to, said |-> {m}]
  <1>1. /\ m \in Nat /\ DOMAIN items' = DOMAIN items \cup {m} /\ Words' = Words \cup {m} /\ items'[m] = w
        /\ Words \subseteq DOMAIN items
        /\ \A j \in DOMAIN items : j \in Nat /\ j < m /\ items'[j] = items[j]
    BY OneItemMore
  <1>2. /\ told \in Seq(Segment) /\ n \in Nat /\ DOMAIN told = 1 .. n /\ w.to \in Nat /\ w.from \in Nat
        /\ told # <<>> => n \in DOMAIN told
        /\ told # <<>> => told[n].to \in Nat
    <2>1. told # <<>> => told[n] \in Segment
      BY Saying
    <2>2. told # <<>> => n \in 1 .. n
      BY EmptySeq DEF VoiceTypeOK
    <2> QED BY <2>1, <2>2, LenProperties DEF VoiceTypeOK, Item, Segment
  <1>3. WordGap \in Nat
    BY VoiceAssumption DEF VoiceAssumption
  <1>4. new \in Segment /\ told' = Append(told, new) /\ new.who = Speaker(w.label) /\ new.from = w.from
        /\ new.to = w.to /\ new.said = {m}
    BY Saying
  <1> HIDE DEF new
  <1>5. told' \in Seq(Segment) /\ Len(told') = n + 1 /\ told'[n + 1] = new
        /\ \A i \in 1 .. n : told'[i] = told[i]
    BY <1>2, <1>4, OneMore
  <1>6. DOMAIN told' = 1 .. n + 1 /\ told' # <<>> /\ n + 1 \in DOMAIN told'
    BY <1>2, <1>5, LenProperties
  <1> HIDE DEF n, m
  <1>7. \A i \in DOMAIN told' : (i \in DOMAIN told /\ told'[i] = told[i]) \/ (i = n + 1 /\ told'[i] = new)
    BY <1>2, <1>5, <1>6
  <1>8. \A i \in DOMAIN told : told[i].said \subseteq DOMAIN items
    BY DEF SaidInv
  <1>9. \A i \in DOMAIN told' : told'[i].said \subseteq DOMAIN items'
    BY <1>1, <1>4, <1>7, <1>8
  <1>10. \E x \in told'[n + 1].said \cap Words' : (\A j \in Words' : j <= x) /\ items'[x].to = told'[n + 1].to
    <2>1. m \in told'[n + 1].said \cap Words' /\ items'[m].to = told'[n + 1].to
      BY <1>1, <1>4, <1>5
    <2>2. \A j \in Words' : j <= m
      BY <1>1
    <2> QED BY <2>1, <2>2
  <1>11. \A j \in Words' : \E i \in DOMAIN told' : j \in told'[i].said
    <2> TAKE j \in Words'
    <2>1. CASE j = m
      BY <1>4, <1>5, <1>6, <2>1
    <2>2. CASE j \in Words
      <3>1. PICK i \in DOMAIN told : j \in told[i].said
        BY <2>2 DEF SaidInv, SaidWhole, Words
      <3>2. i \in DOMAIN told' /\ told'[i] = told[i]
        BY <1>2, <1>5, <1>6, <3>1
      <3> QED BY <3>1, <3>2
    <2> QED BY <1>1, <2>1, <2>2
  <1>12. \A i, k \in DOMAIN told' : i < k => \A a \in told'[i].said, b \in told'[k].said : a < b
    <2> SUFFICES ASSUME NEW i \in DOMAIN told', NEW k \in DOMAIN told', i < k,
                        NEW a \in told'[i].said, NEW b \in told'[k].said
                 PROVE  a < b
      OBVIOUS
    <2>1. i \in DOMAIN told /\ told'[i] = told[i] /\ a \in DOMAIN items /\ a \in told[i].said
      <3>1. i # n + 1
        BY <1>2, <1>6
      <3> QED BY <1>7, <1>8, <3>1
    <2>2. CASE k \in DOMAIN told /\ told'[k] = told[k]
      BY <2>1, <2>2 DEF SaidInv, SaidWhole
    <2>3. CASE told'[k] = new
      BY <1>1, <1>4, <2>1, <2>3
    <2> QED BY <1>7, <2>2, <2>3
  <1>13. \A i \in DOMAIN told' : \A a, b \in told'[i].said \cap Words' :
            /\ Speaker(items'[a].label) = told'[i].who
            /\ a < b /\ (\A j \in Words' : j <= a \/ b <= j) => Near(items'[a].to, items'[b].from)
    <2> SUFFICES ASSUME NEW i \in DOMAIN told', NEW a \in told'[i].said \cap Words', NEW b \in told'[i].said \cap Words'
                 PROVE  /\ Speaker(items'[a].label) = told'[i].who
                        /\ a < b /\ (\A j \in Words' : j <= a \/ b <= j)
                              => Near(items'[a].to, items'[b].from)
      OBVIOUS
    <2>1. CASE i \in DOMAIN told /\ told'[i] = told[i]
      <3>1. a \in Words /\ b \in Words /\ items'[a] = items[a] /\ items'[b] = items[b]
        BY <1>1, <1>8, <2>1
      <3>2. /\ Speaker(items[a].label) = told[i].who
            /\ a < b /\ (\A j \in Words : j <= a \/ b <= j) => Near(items[a].to, items[b].from)
        BY <2>1, <3>1 DEF SaidInv, SaidWhole, Words
      <3> QED BY <1>1, <2>1, <3>1, <3>2
    <2>2. CASE told'[i] = new
      <3>1. a = m /\ b = m
        BY <1>4, <2>2
      <3> QED BY <1>1, <1>4, <2>2, <3>1
    <2> QED BY <1>7, <2>1, <2>2
  <1>14. \A i \in 2 .. Len(told') : told'[i].who # told'[i - 1].who \/ ~Near(told'[i - 1].to, told'[i].from)
    <2> SUFFICES ASSUME NEW i \in 2 .. n + 1
                 PROVE  told'[i].who # told'[i - 1].who \/ ~Near(told'[i - 1].to, told'[i].from)
      BY <1>5
    <2>1. CASE i = n + 1
      <3>1. told # <<>> /\ i - 1 = n /\ n \in 1 .. n
        BY <1>2, <2>1, EmptySeq DEF n
      <3>2. ~(told[n].who = Speaker(w.label) /\ Near(told[n].to, w.from))
        BY <3>1 DEF n
      <3>3. told'[i] = new /\ told'[i - 1] = told[n]
        BY <1>5, <2>1, <3>1
      <3> QED BY <1>2, <1>3, <1>4, <3>1, <3>2, <3>3
    <2>2. CASE i # n + 1
      <3>1. i \in 2 .. n /\ i \in 1 .. n /\ i - 1 \in 1 .. n
        BY <1>2, <2>2
      <3>2. told[i].who # told[i - 1].who \/ ~Near(told[i - 1].to, told[i].from)
        BY <3>1 DEF SaidInv, SaidWhole, n
      <3> QED BY <1>5, <3>1, <3>2
    <2> QED BY <2>1, <2>2
  <1>15. SaidWhole'
    BY ONLY <1>11, <1>12, <1>13, <1>14, SaidParts
  <1> QED BY <1>5, <1>6, <1>9, <1>10, <1>15 DEF SaidInv

-----------------------------------------------------------------------------
(* Who is who: the two voices' pitches are sets of samples, and a median   *)
(* is an element of Pitches because these are finitely many.               *)

(* Of finitely many numbers some are the least and the greatest.           *)
Strict(R, S) == /\ \A x \in S : <<x, x>> \notin R
                /\ \A x, y, z \in S : <<x, y>> \in R /\ <<y, z>> \in R => <<x, z>> \in R

LEMMA Extreme ==
    ASSUME NEW S, IsFiniteSet(S), NEW R, Strict(R, S), NEW T \in SUBSET S, T # {}
    PROVE  \E m \in T : \A n \in T : <<n, m>> \notin R
  <1> DEFINE Under(x) == {y \in S : <<y, x>> \in R}
             Tails == {Under(x) : x \in T}
  <1>1. IsWellFoundedOn(StrictSubsetOrdering(S), SUBSET S)
    <2>1. FiniteSubsetsOf(S) = SUBSET S
      BY FS_FiniteSubsetsOfFinite
    <2>2. IsWellFoundedOn(StrictSubsetOrdering(S), FiniteSubsetsOf(S))
      BY FS_StrictSubsetOrderingWellFounded, Zenon
    <2> QED BY <2>1, <2>2
  <1>2. Tails \subseteq SUBSET S /\ Tails # {}
    <2>1. \A x \in T : Under(x) \subseteq S
      OBVIOUS
    <2> HIDE DEF Under
    <2> QED BY <2>1
  <1> HIDE DEF Tails
  <1>3. PICK least \in Tails : \A t \in Tails : ~(<<t, least>> \in StrictSubsetOrdering(S))
    BY <1>1, <1>2, WFMin, Zenon
  <1>4. PICK m \in T : least = Under(m)
    BY <1>3 DEF Tails
  <1>5. ASSUME NEW n \in T, <<n, m>> \in R PROVE FALSE
    <2>1. Under(n) \in Tails
      BY DEF Tails
    <2>2. Under(n) \subseteq Under(m) /\ n \in Under(m) /\ n \notin Under(n)
      BY <1>5 DEF Strict
    <2>3. <<Under(n), Under(m)>> \in StrictSubsetOrdering(S)
      BY <2>2 DEF StrictSubsetOrdering
    <2> QED BY <2>1, <2>3, <1>3, <1>4
  <1> QED BY <1>5

LEMMA LeastOf ==
    ASSUME NEW S \in SUBSET Nat, IsFiniteSet(S), NEW T \in SUBSET S, T # {}
    PROVE  \E m \in T : \A n \in T : m <= n
  <1> DEFINE R == {x \in S \X S : x[1] < x[2]}
  <1>1. \A x, y \in S : <<x, y>> \in R <=> x < y
    OBVIOUS
  <1>2. Strict(R, S)
    BY <1>1 DEF Strict
  <1> HIDE DEF R
  <1>3. PICK m \in T : \A n \in T : <<n, m>> \notin R
    BY <1>2, Extreme
  <1>4. \A n \in T : m \in Nat /\ n \in Nat /\ ~(n < m)
    BY <1>1, <1>3
  <1> QED BY <1>4

LEMMA GreatestOf ==
    ASSUME NEW S \in SUBSET Nat, IsFiniteSet(S), S # {}
    PROVE  \E m \in S : \A n \in S : n <= m
  <1> DEFINE R == {x \in S \X S : x[2] < x[1]}
  <1>1. \A x, y \in S : <<x, y>> \in R <=> y < x
    OBVIOUS
  <1>2. Strict(R, S)
    BY <1>1 DEF Strict
  <1> HIDE DEF R
  <1>s. S \in SUBSET S
    OBVIOUS
  <1>3. PICK m \in S : \A n \in S : <<n, m>> \notin R
    BY <1>s, <1>2, Extreme
  <1>4. \A n \in S : m \in Nat /\ n \in Nat /\ ~(m < n)
    BY <1>1, <1>3
  <1> QED BY <1>4

LEMMA NthIsPitch ==
    ASSUME NEW f0 \in Seq(Pitches), NEW got, IsFiniteSet(got), \A x \in got : x[2] \in DOMAIN f0,
           NEW k \in Nat, 0 < k, k <= Cardinality(got)
    PROVE  Nth(f0, got, k) \in Nat
  <1> DEFINE T == {hz \in Pitches : k <= Cardinality(UpTo(f0, got, hz))}
  <1>1. Pitches \in SUBSET Nat /\ IsFiniteSet(Pitches) /\ Pitches # {}
    BY VoiceAssumption DEF VoiceAssumption
  <1>2. PICK top \in Pitches : \A hz \in Pitches : hz <= top
    BY <1>1, GreatestOf
  <1>3. UpTo(f0, got, top) = got
    <2>1. \A x \in got : f0[x[2]] \in Pitches
      BY ElementOfSeq, LenProperties
    <2> QED BY <1>2, <2>1 DEF UpTo
  <1>4. T # {}
    BY <1>3
  <1>5. PICK hz \in T : \A other \in T : hz <= other
    BY <1>1, <1>4, LeastOf
  <1>6. \A lower \in Pitches : lower < hz => Cardinality(UpTo(f0, got, lower)) < k
    <2> SUFFICES ASSUME NEW lower \in Pitches, lower < hz PROVE Cardinality(UpTo(f0, got, lower)) < k
      OBVIOUS
    <2>1. ~(k <= Cardinality(UpTo(f0, got, lower)))
      BY <1>1, <1>5
    <2>2. IsFiniteSet(UpTo(f0, got, lower))
      BY FS_Subset DEF UpTo
    <2> QED BY <2>1, <2>2, FS_CardinalityType
  <1>7. Nth(f0, got, k) \in Pitches
    BY <1>5, <1>6 DEF Nth
  <1> QED BY <1>1, <1>7

LEMMA MedianIsNumber ==
    ASSUME NEW f0 \in Seq(Pitches), NEW got, IsFiniteSet(got), got # {}, \A x \in got : x[2] \in DOMAIN f0
    PROVE  TwiceMedian(f0, got) \in Nat
  <1> DEFINE n == Cardinality(got)
             mid == n \div 2
  <1>1. n \in Nat /\ n > 0
    BY FS_CardinalityType, FS_EmptySet
  <1>2. mid \in Nat /\ 2 * mid <= n /\ n <= 2 * mid + 1
    BY <1>1
  <1>3. mid + 1 <= n \/ n = 2 * mid
    BY <1>1, <1>2
  <1>4. CASE n = 2 * mid
    <2>1. 0 < mid /\ mid <= n /\ mid + 1 \in Nat /\ 0 < mid + 1 /\ mid + 1 <= n
      BY <1>1, <1>2, <1>4
    <2>2. Nth(f0, got, mid) \in Nat /\ Nth(f0, got, mid + 1) \in Nat
      BY <1>2, <2>1, NthIsPitch
    <2> QED BY <1>4, <2>2 DEF TwiceMedian
  <1>5. CASE n # 2 * mid
    <2>1. mid + 1 \in Nat /\ 0 < mid + 1 /\ mid + 1 <= n
      BY <1>1, <1>2, <1>3, <1>5
    <2>2. Nth(f0, got, mid + 1) \in Nat
      BY <2>1, NthIsPitch
    <2> QED BY <1>5, <2>2 DEF TwiceMedian
  <1> QED BY <1>4, <1>5

LEMMA SamplesFinite ==
    ASSUME VoiceTypeOK, NEW chosen \in SUBSET DOMAIN spans, NEW who
    PROVE  LET got == Samples(track, spans, chosen, who)
           IN  IsFiniteSet(got) /\ \A x \in got : x[2] \in DOMAIN track
  <1>1. IsFiniteSet(DOMAIN spans) /\ IsFiniteSet(DOMAIN track)
    BY LenProperties, FS_Interval DEF VoiceTypeOK
  <1>2. IsFiniteSet(chosen \X DOMAIN track)
    BY <1>1, FS_Subset, FS_Product
  <1> QED BY <1>2, FS_Subset DEF Samples

LEMMA SpansAre == ASSUME VoiceTypeOK PROVE \A j \in DOMAIN spans : spans[j] \in Span
  <1>1. spans \in Seq(Span) /\ DOMAIN spans = 1 .. Len(spans)
    BY LenProperties DEF VoiceTypeOK
  <1> QED BY <1>1, ElementOfSeq

(* The labels swapped, each voice has the other one's samples.             *)
LEMMA SwappedSamples ==
    ASSUME VoiceTypeOK
    PROVE  /\ LocalSpans(Swapped) = LocalSpans(spans)
           /\ Samples(track, Swapped, LocalSpans(Swapped), "speaker_1")
              = Samples(track, spans, LocalSpans(spans), "speaker_2")
           /\ Samples(track, Swapped, LocalSpans(Swapped), "speaker_2")
              = Samples(track, spans, LocalSpans(spans), "speaker_1")
  <1>1. DOMAIN Swapped = DOMAIN spans
    BY DEF Swapped
  <1>2. \A j \in DOMAIN spans : spans[j] \in Span /\ spans[j].label \in Nat
    <2>1. \A j \in DOMAIN spans : spans[j] \in Span
      BY SpansAre
    <2> QED BY <2>1, VoiceAssumption DEF Span, VoiceAssumption
  <1>3. ASSUME NEW j \in DOMAIN spans
        PROVE  /\ Swapped[j].from = spans[j].from /\ Swapped[j].to = spans[j].to
               /\ Swapped[j].label = (CASE spans[j].label = 0 -> 1 [] spans[j].label = 1 -> 0
                                        [] OTHER -> spans[j].label)
    BY <1>2, <1>3 DEF Swapped, Span
  <1>4. ASSUME NEW j \in DOMAIN spans
        PROVE  /\ Speaker(Swapped[j].label) = "speaker_1" <=> Speaker(spans[j].label) = "speaker_2"
               /\ Speaker(Swapped[j].label) = "speaker_2" <=> Speaker(spans[j].label) = "speaker_1"
               /\ Speaker(Swapped[j].label) = Nobody <=> Speaker(spans[j].label) = Nobody
    BY <1>2, <1>3 DEF Speaker, Nobody
  <1>5. LocalSpans(Swapped) = LocalSpans(spans)
    BY <1>1, <1>3, <1>4 DEF LocalSpans
  <1>6. LocalSpans(spans) \subseteq DOMAIN spans
    BY DEF LocalSpans
  <1>7. \A x \in LocalSpans(spans) \X DOMAIN track : x[1] \in DOMAIN spans
    BY <1>6
  <1> QED BY <1>3, <1>4, <1>5, <1>7 DEF Samples

LEMMA NamesAreSteady == ASSUME VoiceTypeOK PROVE NamesSteady
  <1> DEFINE chosen == LocalSpans(spans)
             got1 == Samples(track, spans, chosen, "speaker_1")
             got2 == Samples(track, spans, chosen, "speaker_2")
             m1 == TwiceMedian(track, got1)
             m2 == TwiceMedian(track, got2)
             m == MapSpeakers(track, spans, chosen)
             n == MapSpeakers(track, Swapped, LocalSpans(Swapped))
  <1>1. MediumGap \in Nat /\ 0 < MediumGap /\ track \in Seq(Pitches) /\ chosen \subseteq DOMAIN spans
    BY VoiceAssumption DEF VoiceAssumption, VoiceTypeOK, LocalSpans
  <1>2. got1 # {} => m1 \in Nat
    BY <1>1, SamplesFinite, MedianIsNumber
  <1>3. got2 # {} => m2 \in Nat
    BY <1>1, SamplesFinite, MedianIsNumber
  <1>4. m = IF got1 = {} \/ got2 = {} \/ Gap(m1, m2) < 2 * MediumGap THEN Unknown
            ELSE [mapping |-> LowerIsYan(m1, m2),
                  confidence |-> IF Gap(m1, m2) >= 2 * HighGap THEN "high" ELSE "medium"]
    BY DEF MapSpeakers
  <1>5. n = IF got2 = {} \/ got1 = {} \/ Gap(m2, m1) < 2 * MediumGap THEN Unknown
            ELSE [mapping |-> LowerIsYan(m2, m1),
                  confidence |-> IF Gap(m2, m1) >= 2 * HighGap THEN "high" ELSE "medium"]
    BY SwappedSamples DEF MapSpeakers
  <1>6. Speaker(0) = "speaker_1" /\ Speaker(1) = "speaker_2"
    BY DEF Speaker
  <1> HIDE DEF m, n
  <1>7. /\ n.confidence = m.confidence
        /\ m.confidence # "none" =>
              Shown(0, m) = Shown(1, n) /\ Shown(1, m) = Shown(0, n) /\ Shown(0, m) # Shown(1, m)
    <2>1. CASE got1 = {} \/ got2 = {}
      BY <1>4, <1>5, <2>1 DEF Unknown
    <2>2. CASE got1 # {} /\ got2 # {}
      <3>1. m1 \in Nat /\ m2 \in Nat
        BY <1>2, <1>3, <2>2
      <3> HIDE DEF m1, m2, got1, got2
      <3>2. Gap(m1, m2) = Gap(m2, m1) /\ Gap(m1, m2) \in Nat
        BY <3>1 DEF Gap
      <3>3. CASE Gap(m1, m2) < 2 * MediumGap
        BY <1>4, <1>5, <3>2, <3>3 DEF Unknown
      <3>4. CASE ~(Gap(m1, m2) < 2 * MediumGap)
        <4>1. m1 # m2
          BY <1>1, <3>1, <3>4 DEF Gap
        <4>2. /\ m.mapping = LowerIsYan(m1, m2) /\ n.mapping = LowerIsYan(m2, m1)
              /\ m.confidence = n.confidence /\ m.confidence # "none"
          BY <1>4, <1>5, <2>2, <3>2, <3>4
        <4>3. /\ LowerIsYan(m1, m2)["speaker_1"] = LowerIsYan(m2, m1)["speaker_2"]
              /\ LowerIsYan(m1, m2)["speaker_2"] = LowerIsYan(m2, m1)["speaker_1"]
              /\ LowerIsYan(m1, m2)["speaker_1"] # LowerIsYan(m1, m2)["speaker_2"]
          BY <3>1, <4>1 DEF LowerIsYan, Speakers
        <4> QED BY <1>6, <4>2, <4>3 DEF Shown
      <3> QED BY <3>3, <3>4
    <2> QED BY <2>1, <2>2
  <1>8. ASSUME \A j \in DOMAIN spans : spans[j].from = spans[j].to /\ spans[j].from \in DOMAIN track
                                       => track[spans[j].from] = 0
        PROVE  MapSpeakers(track, spans, CloudSpans(spans)) = m
    <2>1. ASSUME NEW who PROVE Samples(track, spans, CloudSpans(spans), who) = Samples(track, spans, chosen, who)
      <3>1. \A j \in DOMAIN spans : spans[j].from \in Nat /\ spans[j].to \in Nat
        BY SpansAre DEF Span, Frames
      <3>2. \A x \in DOMAIN track : track[x] \in Nat
        BY <1>1, VoiceAssumption, LenProperties, ElementOfSeq DEF VoiceAssumption
      <3>3. chosen \subseteq CloudSpans(spans)
        BY DEF LocalSpans, CloudSpans
      <3>4. ASSUME NEW j \in CloudSpans(spans), NEW f \in DOMAIN track,
                   f \in spans[j].from .. spans[j].to, track[f] > 0
            PROVE  j \in chosen
        <4>1. j \in DOMAIN spans /\ Speaker(spans[j].label) # Nobody
          BY DEF CloudSpans
        <4>2. spans[j].from <= spans[j].to
          BY <3>1, <3>4, <4>1
        <4>3. spans[j].from # spans[j].to
          BY <1>8, <3>1, <3>2, <3>4, <4>1
        <4> QED BY <3>1, <4>1, <4>2, <4>3 DEF LocalSpans
      <3> HIDE DEF chosen
      <3> QED BY <3>3, <3>4 DEF Samples
    <2> QED BY <2>1 DEF MapSpeakers, m
  <1> QED BY <1>7, <1>8 DEF NamesSteady, m, n

-----------------------------------------------------------------------------

VoiceInv == VoiceTypeOK /\ LullInv /\ TalkInv /\ SaidInv

LEMMA VoiceStart == VoiceInit => VoiceInv
  <1> SUFFICES ASSUME VoiceInit PROVE VoiceInv
    OBVIOUS
  <1>1. VoiceTypeOK
    BY VoiceTypesStart
  <1>2. LullInv
    BY DEF VoiceInit, LullInv, QuietRuns
  <1>3. TalkInv
    <2>1. Voiced(talk, Len(track) + 1) = <<>> /\ track = <<>>
      BY DEF VoiceInit, Voiced
    <2>2. Split(<<>>, <<>>)
      BY DEF Split, Speaks
    <2> QED BY <2>1, <2>2 DEF VoiceInit, TalkInv
  <1>4. SaidInv
    BY DEF VoiceInit, SaidInv, SaidWhole
  <1> QED BY <1>1, <1>2, <1>3, <1>4 DEF VoiceInv

LEMMA VoiceStep == VoiceInv /\ [VoiceNext]_voiceVars => VoiceInv'
  <1> SUFFICES ASSUME VoiceInv, [VoiceNext]_voiceVars PROVE VoiceInv'
    OBVIOUS
  <1>0. VoiceTypeOK' /\ VoiceTypeOK /\ LullInv /\ TalkInv /\ SaidInv
    BY VoiceTypesStep DEF VoiceInv
  <1>1. UNCHANGED <<hush, lull>> => LullInv'
    BY <1>0 DEF LullInv, QuietRuns
  <1>2. UNCHANGED <<track, talk>> => TalkInv'
    BY <1>0 DEF TalkInv, Voiced
  <1>3. UNCHANGED <<items, told>> => SaidInv'
    BY <1>0 DEF SaidInv, Words, SaidWhole
  <1>4. ASSUME NEW q \in BOOLEAN, NextLevel(q) PROVE VoiceInv'
    <2>1. LullInv'
      BY <1>0, <1>4, LevelKeepsLulls
    <2> QED BY <1>0, <1>2, <1>3, <1>4, <2>1 DEF VoiceInv, NextLevel
  <1>5. ASSUME NEW hz \in Pitches, NextPitch(hz) PROVE VoiceInv'
    <2>1. TalkInv'
      BY <1>0, <1>5, PitchKeepsTalk
    <2> QED BY <1>0, <1>1, <1>3, <1>5, <2>1 DEF VoiceInv, NextPitch
  <1>6. ASSUME NEW s \in Span, NextSpan(s) PROVE VoiceInv'
    BY <1>0, <1>1, <1>2, <1>3, <1>6 DEF VoiceInv, NextSpan
  <1>7. ASSUME NEW k \in {"word", "mark", "untimed"}, NEW l \in Nat, NEW p \in Nat, NextItem(k, l, p)
        PROVE  VoiceInv'
    <2>1. PICK w \in Item : items' = Append(items, w) /\ Say(w) /\ UNCHANGED <<hush, lull, track, talk, spans>>
      BY <1>0, <1>7, SpokenItem
    <2>2. CASE w.kind # "word"
      BY <1>0, <1>1, <1>2, <2>1, <2>2, MarkKeepsSaid DEF VoiceInv
    <2>3. CASE w.kind = "word" /\ told # <<>> /\ told[Len(told)].who = Speaker(w.label)
               /\ Near(told[Len(told)].to, w.from)
      <3>1. told' = SaidOn(told, w.to, Len(items) + 1)
        BY <1>0, <2>1, <2>3, Saying
      <3> QED BY <1>0, <1>1, <1>2, <2>1, <2>3, <3>1, WordGoesOn DEF VoiceInv
    <2>4. CASE w.kind = "word" /\ ~(told # <<>> /\ told[Len(told)].who = Speaker(w.label)
               /\ Near(told[Len(told)].to, w.from))
      BY <1>0, <1>1, <1>2, <2>1, <2>4, WordBegins DEF VoiceInv
    <2> QED BY <2>2, <2>3, <2>4
  <1>8. CASE UNCHANGED voiceVars
    BY <1>0, <1>1, <1>2, <1>3, <1>8 DEF VoiceInv, voiceVars
  <1>9. CASE VoiceNext
    BY <1>4, <1>5, <1>6, <1>7, <1>9, VoiceAssumption DEF VoiceNext, VoiceAssumption
  <1> QED BY <1>8, <1>9

LEMMA VoiceInvSays == VoiceInv => VoiceAsHeard
  <1> SUFFICES ASSUME VoiceInv PROVE VoiceAsHeard
    OBVIOUS
  <1>1. VoiceTypeOK /\ LullInv /\ TalkInv /\ SaidInv
    BY DEF VoiceInv
  <1>2. SilencesWhole
    <2> DEFINE n == Len(hush)
    <2>1. Silences(n + 1) = {r \in QuietRuns(hush) : r.to < n => ~hush[r.to + 1]}
      BY <1>1, LullsFound
    <2> QED BY <2>1 DEF SilencesWhole, QuietRuns
  <1>3. VoicedWhole
    <2>1. track \in Seq(Nat)
      BY <1>1, VoiceAssumption, SeqMonotonic DEF VoiceTypeOK, VoiceAssumption
    <2>2. Voiced(talk, Len(track) + 1) \in Seq(Stretch)
      <3>1. talk.merged \in Seq(Stretch) /\ talk.since \in Nat /\ Len(track) \in Nat
        BY <1>1 DEF VoiceTypeOK
      <3> QED BY <3>1, VoicedCases
    <2>3. Split(Voiced(talk, Len(track) + 1), track)
      BY <1>1 DEF TalkInv
    <2> QED BY <2>1, <2>2, <2>3, SplitIsWhole DEF VoicedWhole, Speaks
  <1>4. SaidWhole /\ NamesSteady
    BY <1>1, NamesAreSteady DEF SaidInv
  <1> QED BY <1>2, <1>3, <1>4 DEF VoiceAsHeard

(* What the analysis is told of a recording is what was recorded: the      *)
(* silences of detect_silences are all the long quiet stretches and whole, *)
(* _voiced_segments_from_f0 closes exactly the short breaks, toTranscript  *)
(* says every word once, in order, under its speaker, and mapSpeakers      *)
(* names the voices alike however Transcribe numbers them and whichever    *)
(* parser read its output.                                                 *)
THEOREM HeardWhole == VoiceSpec => []VoiceAsHeard
  BY VoiceStart, VoiceStep, VoiceInvSays, PTL DEF VoiceSpec

LEMMA VoiceTypes == VoiceSpec => []VoiceTypeOK
  <1>1. VoiceInv => VoiceTypeOK BY DEF VoiceInv
  <1> QED BY <1>1, VoiceStart, VoiceStep, PTL DEF VoiceSpec
=============================================================================
