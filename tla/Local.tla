------------------------------- MODULE Local -------------------------------
(***************************************************************************)
(* The analysis run in the web process itself (lib/analysis/               *)
(* localPipeline.ts, started by app/api/tastings/[id]/analyze/route.ts     *)
(* with WAGANDA_LOCAL_PIPELINE=1): one tasting with one recording, runs    *)
(* that overlap because every request starts one in the background, and a  *)
(* deletion of the tasting.  A run reads the tasting once and then writes  *)
(* whole items over what is there.  The transcription service keeps one    *)
(* job under a name made of the two ids; the recording is uploaded to its  *)
(* bucket for it and removed again.                                        *)
(***************************************************************************)
EXTENDS Integers, FiniteSets

CONSTANTS LocalRuns,                    \* requests that start a run, and their runs
          MaxReplies                    \* MAX_ATTEMPTS of analyzeWithBedrock

NoItem == "none"

ASSUME LocalAssumption == MaxReplies \in Nat \ {0} /\ NoItem \notin LocalRuns

VARIABLES metaItem,                     \* the tasting is there
          localJob,                     \* status of its job item
          written,                      \* the run whose analysis is there, or NoItem
          takeItem,                     \* the recording: NoItem, "plain" or "heard"
          erased,                       \* the items a deletion has still to delete, or none
          voice,                        \* the run whose upload lies in the transcription
                                        \* bucket, under one key for all, or NoItem
          service,                      \* the transcription job
          step,                         \* of each run
          replies,                      \* invocations of the model
          kept                          \* history: the runs whose deletion of it has failed

localVars == <<metaItem, localJob, written, takeItem, erased, voice, service, step, replies, kept>>

Stages == {"idle", "asked", "loaded", "started", "uploaded", "waiting", "heard", "mapped",
           "analyzing", "ok", "refused", "stored", "done", "thrown", "gave up", "broke"}

LocalTypeOK ==
    /\ metaItem \in BOOLEAN /\ voice \in LocalRuns \cup {NoItem} /\ kept \subseteq LocalRuns
    /\ localJob \in {NoItem, "queued", "transcribing", "analyzing", "completed", "failed"}
    /\ written \in LocalRuns \cup {NoItem}
    /\ takeItem \in {NoItem, "plain", "heard"}
    /\ erased \subseteq {"take", "analysis", "job", "meta"}
    /\ service \in {NoItem, "running", "COMPLETED", "FAILED"}
    /\ step \in [LocalRuns -> Stages]
    /\ replies \in [LocalRuns -> 0 .. MaxReplies]

LocalInit == /\ metaItem = TRUE /\ takeItem = "plain"
             /\ localJob = NoItem /\ written = NoItem
             /\ erased = {} /\ voice = NoItem /\ service = NoItem /\ kept = {}
             /\ step = [r \in LocalRuns |-> "idle"]
             /\ replies = [r \in LocalRuns |-> 0]

Moves(r, from, to) == step[r] = from /\ step' = [step EXCEPT ![r] = to]

-----------------------------------------------------------------------------
(* The route: the job is queued, the run is started and not waited for.    *)

AskLocal(r) == /\ metaItem
               /\ Moves(r, "idle", "asked")
               /\ localJob' = "queued"
               /\ UNCHANGED <<metaItem, written, takeItem, erased, voice, service, replies, kept>>

\* queryTastingBundle: without META or a recording the run throws.
LoadLocal(r) == /\ Moves(r, "asked", IF metaItem /\ takeItem # NoItem THEN "loaded" ELSE "thrown")
                /\ UNCHANGED <<metaItem, localJob, written, takeItem, erased, voice, service, replies, kept>>

StartLocal(r) == /\ Moves(r, "loaded", "started")
                 /\ localJob' = "transcribing"
                 /\ UNCHANGED <<metaItem, written, takeItem, erased, voice, service, replies, kept>>

\* The download, ffmpeg or the feature extraction throws: the job stays as it is.
ExtractFails(r) == /\ Moves(r, "started", "thrown")
                   /\ UNCHANGED <<metaItem, localJob, written, takeItem, erased, voice, service, replies, kept>>

-----------------------------------------------------------------------------
(* runTranscribe.                                                          *)

\* The put is answered, or it throws though the object is there.
UploadVoice(r) == /\ \E to \in {"uploaded", "broke"} : Moves(r, "started", to)
                  /\ voice' = r
                  /\ UNCHANGED <<metaItem, localJob, written, takeItem, erased, service, replies, kept>>

\* A job of that name is taken as it is, also one that has failed.
StartTranscribe(r) == /\ Moves(r, "uploaded", "waiting")
                      /\ service' = IF service = NoItem THEN "running" ELSE service
                      /\ UNCHANGED <<metaItem, localJob, written, takeItem, erased, voice, replies, kept>>

\* Starting the job throws another error than Conflict (and it may have started), a poll
\* throws, or reading the result does: no deletion is reached.
BreaksOff(r) == /\ \E from \in {"uploaded", "waiting"} : Moves(r, from, "broke")
                /\ \/ UNCHANGED service
                   \/ step[r] = "uploaded" /\ service = NoItem /\ service' = "running"
                /\ UNCHANGED <<metaItem, localJob, written, takeItem, erased, voice, replies, kept>>

TranscribeEnds == /\ service = "running"
                  /\ service' \in {"COMPLETED", "FAILED"}
                  /\ UNCHANGED <<metaItem, localJob, written, takeItem, erased, voice, step, replies, kept>>

\* The upload is deleted, or deleting it fails and the run goes on.
PollCompletedOwn(r) ==                  \* mutant: the upload is left for a run that reuses a job
    /\ service = "COMPLETED" /\ Moves(r, "waiting", "heard")
    /\ IF \E s \in LocalRuns \ {r} : step[s] \in {"heard", "mapped", "analyzing", "ok", "stored", "done"}
       THEN UNCHANGED <<voice, kept>>
       ELSE \/ voice' = NoItem /\ UNCHANGED kept
            \/ kept' = kept \cup {r} /\ UNCHANGED voice
    /\ UNCHANGED <<metaItem, localJob, written, takeItem, erased, service, replies>>
PollCompleted(r) ==
    /\ service = "COMPLETED" /\ Moves(r, "waiting", "heard")
    /\ \/ voice' = NoItem /\ UNCHANGED kept
       \/ kept' = kept \cup {r} /\ UNCHANGED voice
    /\ UNCHANGED <<metaItem, localJob, written, takeItem, erased, service, replies>>

\* FAILED, or still running after the last poll: the upload stays.
PollGivesUp(r) == /\ service \in {"running", "FAILED"} /\ Moves(r, "waiting", "gave up")
                  /\ UNCHANGED <<metaItem, localJob, written, takeItem, erased, voice, service, replies, kept>>

-----------------------------------------------------------------------------
\* putRecording: the item read at the start, with what was heard.
PutHeard(r) == /\ Moves(r, "heard", "mapped")
               /\ takeItem' = "heard"
               /\ UNCHANGED <<metaItem, localJob, written, erased, voice, service, replies, kept>>

PutAnalyzing(r) == /\ Moves(r, "mapped", "analyzing")
                   /\ localJob' = "analyzing"
                   /\ UNCHANGED <<metaItem, written, takeItem, erased, voice, service, replies, kept>>

\* analyzeWithBedrock: a wrong answer or banned style is asked for again.
Reply(r) == /\ step[r] = "analyzing"
            /\ replies' = [replies EXCEPT ![r] = @ + 1]
            /\ \/ Moves(r, "analyzing", "ok")
               \/ /\ replies'[r] < MaxReplies
                  /\ UNCHANGED step
               \/ /\ replies'[r] = MaxReplies
                  /\ Moves(r, "analyzing", "refused")
            /\ UNCHANGED <<metaItem, localJob, written, takeItem, erased, voice, service, kept>>

PutFailed(r) == /\ Moves(r, "refused", "thrown")
                /\ localJob' = "failed"
                /\ UNCHANGED <<metaItem, written, takeItem, erased, voice, service, replies, kept>>

\* putAnalysis: over the analysis that is there, the editor's text with it.
PutAnalysis(r) == /\ Moves(r, "ok", "stored")
                  /\ written' = r
                  /\ UNCHANGED <<metaItem, localJob, takeItem, erased, voice, service, replies, kept>>

PutCompleted(r) == /\ Moves(r, "stored", "done")
                   /\ localJob' = "completed"
                   /\ UNCHANGED <<metaItem, written, takeItem, erased, voice, service, replies, kept>>

-----------------------------------------------------------------------------
(* deleteTasting: the children that are there, one after another, then     *)
(* META.                                                                   *)

EraseReads == /\ metaItem /\ erased = {}
              /\ erased' = {"meta"} \cup {f \in {"take", "analysis", "job"} :
                                \/ f = "take" /\ takeItem # NoItem
                                \/ f = "analysis" /\ written # NoItem
                                \/ f = "job" /\ localJob # NoItem}
              /\ UNCHANGED <<metaItem, localJob, written, takeItem, voice, service, step, replies, kept>>

EraseItemOf(f) == /\ f \in erased
                  /\ f = "meta" => erased = {"meta"}
                  /\ f = "analysis" => "take" \notin erased
                  /\ f = "job" => erased \cap {"take", "analysis"} = {}
                  /\ erased' = erased \ {f}
                  /\ metaItem' = (metaItem /\ f # "meta")
                  /\ takeItem' = IF f = "take" THEN NoItem ELSE takeItem
                  /\ written' = IF f = "analysis" THEN NoItem ELSE written
                  /\ localJob' = IF f = "job" THEN NoItem ELSE localJob
                  /\ UNCHANGED <<voice, service, step, replies, kept>>

LocalNext == \/ \E r \in LocalRuns : \/ AskLocal(r) \/ LoadLocal(r) \/ StartLocal(r) \/ ExtractFails(r)
                                     \/ UploadVoice(r) \/ StartTranscribe(r) \/ BreaksOff(r)
                                     \/ PollCompleted(r) \/ PollGivesUp(r) \/ PutHeard(r) \/ PutAnalyzing(r) \/ Reply(r)
                                     \/ PutFailed(r) \/ PutAnalysis(r) \/ PutCompleted(r)
             \/ TranscribeEnds \/ EraseReads
             \/ \E f \in {"take", "analysis", "job", "meta"} : EraseItemOf(f)

LocalSpec == LocalInit /\ [][LocalNext]_localVars

-----------------------------------------------------------------------------
(* However runs overlap, a tasting whose job is completed has an analysis  *)
(* of a recording that was transcribed, unless it is being deleted.        *)
CompletedHasAnalysis == metaItem /\ erased = {} /\ localJob = "completed" =>
                            written # NoItem /\ takeItem = "heard"

(* No run that has its transcription leaves the voice it has uploaded in   *)
(* the bucket, whichever runs share the key and the job: what lies there   *)
(* is of a run that is still waiting, was told of no result or broke off   *)
(* on the way, or whose own deletion has failed (runTranscribe leaves no   *)
(* personal voice in the cloud).                                           *)
VoiceRemoved == voice # NoItem => \/ voice \in kept
                                  \/ step[voice] \in {"uploaded", "waiting", "gave up", "broke"}

(* The local runs, which write blindly, still keep the two promises.       *)
LocalRunsSound == CompletedHasAnalysis /\ VoiceRemoved
=============================================================================
