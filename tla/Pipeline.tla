------------------------------ MODULE Pipeline ------------------------------
(***************************************************************************)
(* The analysis pipeline of ONE tasting: the items of its DynamoDB         *)
(* partition (META, REC#, ANALYSIS, JOB), the two trigger Lambdas, the two *)
(* agent sessions, the re-analysis route, deletion of the tasting, and the *)
(* services around them (SQS, Transcribe, EventBridge) as far as the code  *)
(* relies on them.                                                         *)
(*                                                                         *)
(* A worker is one execution of a handler: a trigger Lambda together with  *)
(* the agent invocation it awaits, the re-analysis route with the          *)
(* invocation it awaits, or a deletion.  Every await that reads or writes  *)
(* shared state is an action of its own, so any two executions interleave  *)
(* there.  A read that decides what happens next remembers the rev it saw; *)
(* a versioned write (patchItem) succeeds only if the item still has it.   *)
(***************************************************************************)
EXTENDS Integers, FiniteSets

CONSTANTS
    Recordings,      \* recordings registered for the tasting
    NoRec,           \* "no recordingId"
    Workers,         \* executions that may overlap
    MaxReceive,      \* SQS receives of one upload message (maxReceiveCount)
    MaxDeliver,      \* EventBridge/Lambda deliveries of one Transcribe event
    MaxCrashes,      \* executions that stop before they finish
    MaxNodeFaults,   \* pipeline nodes that throw because a service failed
    MaxReanalyses,   \* calls of POST /api/tastings/[id]/analyze
    MaxEdits,        \* editor changes of the summary or of a speaker mapping
    MaxDeletes,      \* calls of DELETE /api/tastings/[id]
    SlowTranscribe,  \* Transcribe answers only after session A has ended
    Due              \* conditional nodes whose shouldRun may answer true

ASSUME SetsAssumption ==
    /\ Recordings # {} /\ NoRec \notin Recordings
    /\ Workers # {}

ASSUME BoundsAssumption ==
    /\ MaxReceive \in Nat /\ MaxDeliver \in Nat
    /\ MaxCrashes \in Nat /\ MaxNodeFaults \in Nat
    /\ MaxReanalyses \in Nat /\ MaxEdits \in Nat /\ MaxDeletes \in Nat
    /\ SlowTranscribe \in BOOLEAN
    /\ Due \subseteq {"refresh_taste_profile", "run_discovery"}

VARIABLES
    job,         \* the JOB item
    recs,        \* the REC# items
    analysis,    \* the ANALYSIS item
    tasting,     \* the META item
    transcribe,  \* the Transcribe job of each recording
    uploads,     \* the SQS message of each upload
    events,      \* the Transcribe state-change event of each recording
    run,         \* what each worker is executing
    left         \* what is left of each budget

vars == <<job, recs, analysis, tasting, transcribe, uploads, events, run, left>>
items == <<job, recs, analysis, tasting>>
queues == <<transcribe, uploads, events>>

-----------------------------------------------------------------------------
(* Items                                                                   *)

JobStatus == {"queued", "transcribing", "analyzing", "completed", "failed"}

PipelineStep ==
    {"ensure_job", "start_transcription", "extract_acoustic", "load_state",
     "map_speakers", "sommelier_analysis", "refresh_taste_profile",
     "run_discovery", "persist_and_publish"}

\* What the sommelier found in the recording it was given.
Input == {"transcript", "acoustic"}

\* form "stub" is an item an unconditional UpdateItem created out of nothing:
\* it has no type and no rev, and Job.parse rejects it.
Job == [form   : {"none", "stub", "full"},
        status : JobStatus \union {"unset"},
        steps  : SUBSET PipelineStep,
        rev    : Nat,
        named  : BOOLEAN,                      \* transcribeJobName is set
        rec    : Recordings \union {NoRec}]    \* recordingId

NoJob == [form |-> "none", status |-> "unset", steps |-> {}, rev |-> 0,
          named |-> FALSE, rec |-> NoRec]
NewJob == [NoJob EXCEPT !.form = "full", !.status = "queued"]

Recording == [exists : BOOLEAN, acoustic : BOOLEAN, transcript : BOOLEAN,
              speakers : {"none", "auto", "manual"}, rev : Nat]
NoRecording == [exists |-> FALSE, acoustic |-> FALSE, transcript |-> FALSE,
                speakers |-> "none", rev |-> 0]

Analysis == [exists : BOOLEAN, edited : BOOLEAN, basis : SUBSET Input, rev : Nat]
NoAnalysis == [exists |-> FALSE, edited |-> FALSE, basis |-> {}, rev |-> 0]

Tasting == [exists : BOOLEAN, ready : BOOLEAN, rev : Nat]
NoTasting == [exists |-> FALSE, ready |-> FALSE, rev |-> 0]

(* Executions.  "unseen" stands for "the read found no item": no item ever *)
(* has that rev, so a versioned write after it can only fail.              *)

unseen == -1

NodeSteps ==     \* awaits inside a pipeline node: a throw there is caught
    PipelineStep \union
    {"ensure_put", "transcribe_start", "name_read", "name_patch", "name_index",
     "acoustic_patch", "load_recording", "transcript_patch", "speakers_patch",
     "analysis_write", "done_read", "done_patch", "done_index",
     "tasting_read", "tasting_patch", "publish"}

HandlerSteps ==  \* awaits outside the nodes: a throw there ends the execution
    {"job_put", "mark_transcribing", "enter_a", "mark_analyzing", "enter_b",
     "merge_read", "merge_patch", "merge_index",
     "reset_patch", "reset_put", "reset_index", "deleting"}

Execution ==
    [pc     : NodeSteps \union HandlerSteps \union {"idle"},
     via    : {"none", "upload", "event", "route", "delete"},
     r      : Recordings \union {NoRec},
     rev    : Nat \union {unseen},
     steps  : SUBSET PipelineStep,   \* completedSteps it started from
     fresh  : SUBSET PipelineStep,   \* newlyCompletedSteps
     named  : BOOLEAN,
     output : BOOLEAN,               \* ctx.data.sommelierOutput is set
     basis  : SUBSET Input,
     ok     : BOOLEAN,               \* no node has failed
     todo   : SUBSET Recordings,     \* deletion: what the bundle listed
     also   : SUBSET {"analysis", "job"}]

Idle == [pc |-> "idle", via |-> "none", r |-> NoRec, rev |-> unseen,
         steps |-> {}, fresh |-> {}, named |-> FALSE, output |-> FALSE,
         basis |-> {}, ok |-> TRUE, todo |-> {}, also |-> {}]

\* The edges of the two graphs; both end in the handler's final merge.
After == [s \in PipelineStep |->
    CASE s = "ensure_job"            -> "start_transcription"
      [] s = "start_transcription"   -> "extract_acoustic"
      [] s = "extract_acoustic"      -> "merge_read"
      [] s = "load_state"            -> "map_speakers"
      [] s = "map_speakers"          -> "sommelier_analysis"
      [] s = "sommelier_analysis"    -> "refresh_taste_profile"
      [] s = "refresh_taste_profile" -> "run_discovery"
      [] s = "run_discovery"         -> "persist_and_publish"
      [] s = "persist_and_publish"   -> "merge_read"]

Delivery == [sent : BOOLEAN, acked : BOOLEAN, got : Nat]
NotSent == [sent |-> FALSE, acked |-> FALSE, got |-> 0]

Budget == [crashes : Nat, nodeFaults : Nat, reanalyses : Nat, edits : Nat,
           deletes : Nat]

TypeOK ==
    /\ job \in Job
    /\ recs \in [Recordings -> Recording]
    /\ analysis \in Analysis
    /\ tasting \in Tasting
    /\ transcribe \in [Recordings -> {"none", "running", "COMPLETED", "FAILED"}]
    /\ uploads \in [Recordings -> Delivery]
    /\ events \in [Recordings -> Delivery]
    /\ run \in [Workers -> Execution]
    /\ left \in Budget

\* The tasting and its recordings are registered before the browser uploads.
Init ==
    /\ job = NoJob
    /\ recs = [r \in Recordings |-> [NoRecording EXCEPT !.exists = TRUE]]
    /\ analysis = NoAnalysis
    /\ tasting = [NoTasting EXCEPT !.exists = TRUE]
    /\ transcribe = [r \in Recordings |-> "none"]
    /\ uploads = [r \in Recordings |-> NotSent]
    /\ events = [r \in Recordings |-> NotSent]
    /\ run = [w \in Workers |-> Idle]
    /\ left = [crashes |-> MaxCrashes, nodeFaults |-> MaxNodeFaults,
               reanalyses |-> MaxReanalyses, edits |-> MaxEdits,
               deletes |-> MaxDeletes]

-----------------------------------------------------------------------------
(* How an execution moves                                                  *)

At(w, pc) == run[w].pc = pc

Goto(w, pc) == run' = [run EXCEPT ![w].pc = pc]

\* Remember the rev just read and go on to the write it guards.
Seen(w, rev, pc) == run' = [run EXCEPT ![w].rev = rev, ![w].pc = pc]

\* executePipeline: the node returned.
NodeDone(w, s) ==
    run' = [run EXCEPT ![w].fresh = @ \union {s}, ![w].pc = After[s],
                       ![w].rev = unseen]

\* Mutant of NodeFails: the step is recorded before the node has run.
NodeFailsRecorded(w) ==
    run' = [run EXCEPT ![w].ok = FALSE, ![w].pc = "merge_read", ![w].rev = unseen,
                       ![w].fresh = @ \union ({run[w].pc} \intersect PipelineStep)]

\* executePipeline: the node threw; the graph stops with ok: false.
NodeFails(w) ==
    run' = [run EXCEPT ![w].ok = FALSE, ![w].pc = "merge_read", ![w].rev = unseen]

\* The execution ends without acknowledging what started it.
Quit(w) == run' = [run EXCEPT ![w] = Idle]

\* The execution ends normally: SQS deletes the message, Lambda does not
\* retry the event.  ok: false is answered with HTTP 200, so it is normal too.
Finish(w) ==
    /\ Quit(w)
    /\ uploads' = IF run[w].via = "upload"
                  THEN [uploads EXCEPT ![run[w].r].acked = TRUE] ELSE uploads
    /\ events' = IF run[w].via = "event"
                 THEN [events EXCEPT ![run[w].r].acked = TRUE] ELSE events
    /\ UNCHANGED transcribe

\* The execution is about to run node s, not to skip it.
Runs(w, s) == At(w, s) /\ s \notin run[w].steps

\* patchItem's ConditionExpression on the JOB item.
JobUnchanged(w) == job.form = "full" /\ job.rev = run[w].rev
RecUnchanged(w, r) == recs[r].exists /\ recs[r].rev = run[w].rev

BeyondQueued == {"analyzing", "completed", "failed"}

-----------------------------------------------------------------------------
(* trigger-upload: an SQS message about an uploaded recording              *)

\* The browser PUTs the file; S3 notifies the queue.
Upload(r) ==
    /\ ~uploads[r].sent
    /\ uploads' = [uploads EXCEPT ![r].sent = TRUE]
    /\ UNCHANGED <<items, transcribe, events, run, left>>

\* Mutant of TriggerUpload: the message is deleted as soon as it is received.
TriggerUploadAcksFirst(w, r) ==
    /\ At(w, "idle")
    /\ uploads[r].sent /\ uploads[r].got < MaxReceive
    /\ uploads' = [uploads EXCEPT ![r].got = @ + 1, ![r].acked = TRUE]
    /\ run' = [run EXCEPT ![w] = [Idle EXCEPT !.via = "upload", !.r = r,
          !.pc = IF job.form = "none" THEN "job_put" ELSE "mark_transcribing"]]
    /\ UNCHANGED <<items, transcribe, events, left>>

\* Mutant of TriggerUpload: a job that says "transcribing" counts as started.
TriggerUploadSkipsStarted(w, r) ==
    /\ At(w, "idle")
    /\ uploads[r].sent /\ uploads[r].got < MaxReceive
    /\ uploads' = [uploads EXCEPT ![r].got = @ + 1, ![r].acked = @ \/ job.form # "none"]
    /\ run' = IF job.form # "none" THEN run ELSE
         [run EXCEPT ![w] = [Idle EXCEPT !.via = "upload", !.r = r, !.pc = "job_put"]]
    /\ UNCHANGED <<items, transcribe, events, left>>

\* Receive the message and read the JOB item.  Until it is acknowledged, and
\* once in a while after that, SQS hands the same message out again.
TriggerUpload(w, r) ==
    /\ At(w, "idle")
    /\ uploads[r].sent /\ uploads[r].got < MaxReceive
    /\ LET skip == job.form # "none" /\ job.status \in BeyondQueued
       IN  /\ uploads' = [uploads EXCEPT ![r].got = @ + 1,
                                         ![r].acked = @ \/ skip]
           /\ run' = IF skip THEN run ELSE
                [run EXCEPT ![w] = [Idle EXCEPT
                    !.via = "upload", !.r = r,
                    !.pc = IF job.form = "none" THEN "job_put"
                                                ELSE "mark_transcribing"]]
    /\ UNCHANGED <<items, transcribe, events, left>>

\* PutItem: whatever is there by now is replaced.
PutJob(w) ==
    /\ At(w, "job_put")
    /\ job' = NewJob
    /\ Goto(w, "mark_transcribing")
    /\ UNCHANGED <<recs, analysis, tasting, queues, left>>

\* UpdateItem with neither a condition nor a rev.
MarkTranscribing(w) ==
    /\ At(w, "mark_transcribing")
    /\ job' = [job EXCEPT !.status = "transcribing",
                          !.form = IF @ = "none" THEN "stub" ELSE @]
    /\ Goto(w, "enter_a")
    /\ UNCHANGED <<recs, analysis, tasting, queues, left>>

-----------------------------------------------------------------------------
(* Session A: ensure_job -> start_transcription -> extract_acoustic        *)

\* handleAnalyzeUpload reads the job and stops early once it is analyzing.
EnterSessionA(w) ==
    /\ At(w, "enter_a")
    /\ \/ /\ job.form = "stub"
          /\ Quit(w)
          /\ UNCHANGED queues
       \/ /\ job.form = "full" /\ job.status \in BeyondQueued
          /\ Finish(w)
       \/ /\ job.form # "stub" /\ (job.form = "full" => job.status \notin BeyondQueued)
          /\ run' = [run EXCEPT ![w].steps = job.steps, ![w].pc = "ensure_job"]
          /\ UNCHANGED queues
    /\ UNCHANGED <<items, left>>

EnsureJob(w) ==
    /\ Runs(w, "ensure_job")
    /\ \/ job.form = "full" /\ NodeDone(w, "ensure_job")
       \/ job.form = "none" /\ Goto(w, "ensure_put")
       \/ job.form = "stub" /\ NodeFails(w)
    /\ UNCHANGED <<items, queues, left>>

EnsureJobPut(w) ==
    /\ At(w, "ensure_put")
    /\ job' = [NewJob EXCEPT !.rec = run[w].r]
    /\ NodeDone(w, "ensure_job")
    /\ UNCHANGED <<recs, analysis, tasting, queues, left>>

\* GetTranscriptionJob under the deterministic name.
CheckTranscription(w) ==
    /\ Runs(w, "start_transcription")
    /\ Goto(w, IF transcribe[run[w].r] = "none" THEN "transcribe_start" ELSE "name_read")
    /\ UNCHANGED <<items, queues, left>>

\* Transcribe refuses a second job of the same name.
StartTranscription(w) ==
    /\ At(w, "transcribe_start")
    /\ \/ /\ transcribe[run[w].r] = "none"
          /\ transcribe' = [transcribe EXCEPT ![run[w].r] = "running"]
          /\ Goto(w, "name_read")
       \/ /\ transcribe[run[w].r] # "none"
          /\ NodeFails(w)
          /\ UNCHANGED transcribe
    /\ UNCHANGED <<items, uploads, events, left>>

ReadJobForName(w) ==
    /\ At(w, "name_read")
    /\ \/ job.form = "none" /\ NodeDone(w, "start_transcription")
       \/ job.form = "stub" /\ NodeFails(w)
       \/ job.form = "full" /\ Seen(w, job.rev, "name_patch")
    /\ UNCHANGED <<items, queues, left>>

PatchJobName(w) ==
    /\ At(w, "name_patch")
    /\ \/ /\ JobUnchanged(w)
          /\ job' = [job EXCEPT !.named = TRUE, !.status = "transcribing", !.rev = @ + 1]
          /\ Goto(w, "name_index")
       \/ /\ ~JobUnchanged(w)
          /\ NodeFails(w)
          /\ UNCHANGED job
    /\ UNCHANGED <<recs, analysis, tasting, queues, left>>

\* Re-analysis of an already measured recording does not call the audio Lambda.
ReadAcoustic(w) ==
    /\ Runs(w, "extract_acoustic")
    /\ LET rec == recs[run[w].r] IN
       \/ rec.acoustic /\ NodeDone(w, "extract_acoustic")
       \/ ~rec.acoustic
          /\ Seen(w, IF rec.exists THEN rec.rev ELSE unseen, "acoustic_patch")
    /\ UNCHANGED <<items, queues, left>>

\* Mutant of PatchAcoustic: an upsert that asks for no existing item.
PatchAcousticUpsert(w) ==
    /\ At(w, "acoustic_patch")
    /\ recs' = [recs EXCEPT ![run[w].r] = [@ EXCEPT !.exists = TRUE, !.acoustic = TRUE,
                                                   !.rev = @ + 1]]
    /\ NodeDone(w, "extract_acoustic")
    /\ UNCHANGED <<job, analysis, tasting, queues, left>>

\* After the audio Lambda has answered.
PatchAcoustic(w) ==
    /\ At(w, "acoustic_patch")
    /\ LET r == run[w].r IN
       \/ /\ run[w].rev = unseen
          /\ NodeDone(w, "extract_acoustic")
          /\ UNCHANGED recs
       \/ /\ run[w].rev # unseen /\ RecUnchanged(w, r)
          /\ recs' = [recs EXCEPT ![r].acoustic = TRUE, ![r].rev = @ + 1]
          /\ NodeDone(w, "extract_acoustic")
       \/ /\ run[w].rev # unseen /\ ~RecUnchanged(w, r)
          /\ NodeFails(w)
          /\ UNCHANGED recs
    /\ UNCHANGED <<job, analysis, tasting, queues, left>>

-----------------------------------------------------------------------------
(* Steps the two sessions share                                            *)

\* The executor skips a node that completedSteps already names.
SkipNode(w) ==
    /\ run[w].pc \in run[w].steps
    /\ Goto(w, After[run[w].pc])
    /\ UNCHANGED <<items, queues, left>>

\* patchJob's second, unconditional UpdateItem (gsi1pk, gsi1sk).
IndexJob(w) ==
    /\ run[w].pc \in {"name_index", "done_index", "merge_index", "reset_index"}
    /\ job' = IF job.form = "none" THEN [job EXCEPT !.form = "stub"] ELSE job
    /\ \/ At(w, "name_index")  /\ NodeDone(w, "start_transcription") /\ UNCHANGED queues
       \/ At(w, "done_index")  /\ Goto(w, "tasting_read") /\ UNCHANGED queues
       \/ At(w, "merge_index") /\ Finish(w)
       \/ At(w, "reset_index") /\ Goto(w, "enter_b") /\ UNCHANGED queues
    /\ UNCHANGED <<recs, analysis, tasting, left>>

\* After the graph: read the job again and merge newlyCompletedSteps into it.
ReadJobForMerge(w) ==
    /\ At(w, "merge_read")
    /\ \/ /\ job.form = "stub"
          /\ Quit(w)
          /\ UNCHANGED queues
       \/ /\ job.form # "stub" /\ (job.form = "full" => run[w].fresh = {})
          /\ Finish(w)
       \/ /\ job.form = "full" /\ run[w].fresh # {}
          /\ run' = [run EXCEPT ![w].rev = job.rev, ![w].steps = job.steps,
                                ![w].pc = "merge_patch"]
          /\ UNCHANGED queues
    /\ UNCHANGED <<items, left>>

\* Mutant of MergeSteps: the merged list is written without the rev.
MergeStepsBlind(w) ==
    /\ At(w, "merge_patch")
    /\ job' = [job EXCEPT !.steps = run[w].steps \union run[w].fresh, !.rev = @ + 1]
    /\ Goto(w, "merge_index")
    /\ UNCHANGED <<recs, analysis, tasting, queues, left>>

MergeSteps(w) ==
    /\ At(w, "merge_patch")
    /\ \/ /\ JobUnchanged(w)
          /\ job' = [job EXCEPT !.steps = run[w].steps \union run[w].fresh, !.rev = @ + 1]
          /\ Goto(w, "merge_index")
       \/ /\ ~JobUnchanged(w)
          /\ Quit(w)
          /\ UNCHANGED job
    /\ UNCHANGED <<recs, analysis, tasting, queues, left>>

-----------------------------------------------------------------------------
(* Transcribe and trigger-transcribe                                       *)

\* Transcribe writes its output to S3 and EventBridge announces the outcome.
\* A failed transcription is a service fault.
TranscribeEnds(r) ==
    /\ transcribe[r] = "running"
    /\ SlowTranscribe => \A w \in Workers : ~(run[w].via = "upload" /\ run[w].r = r)
    /\ \/ /\ transcribe' = [transcribe EXCEPT ![r] = "COMPLETED"]
          /\ UNCHANGED left
       \/ /\ left.nodeFaults > 0
          /\ transcribe' = [transcribe EXCEPT ![r] = "FAILED"]
          /\ left' = [left EXCEPT !.nodeFaults = @ - 1]
    /\ events' = [events EXCEPT ![r].sent = TRUE]
    /\ UNCHANGED <<items, uploads, run>>

\* Receive the event and read the JOB item; delivery is at least once too.
TriggerTranscribe(w, r) ==
    /\ At(w, "idle")
    /\ events[r].sent /\ events[r].got < MaxDeliver
    /\ events' = [events EXCEPT ![r].got = @ + 1,
                                ![r].acked = @ \/ job.form = "none"]
    /\ run' = IF job.form = "none" THEN run ELSE
         [run EXCEPT ![w] = [Idle EXCEPT !.via = "event", !.r = r,
                                         !.pc = "mark_analyzing"]]
    /\ UNCHANGED <<items, transcribe, uploads, left>>

\* Mutant of MarkAnalyzing: the event's own status word is stored.
MarkAnalyzingVerbatim(w) ==
    /\ At(w, "mark_analyzing")
    /\ job.form = "full"
    /\ job' = [job EXCEPT !.status = transcribe[run[w].r]]
    /\ Goto(w, "enter_b")
    /\ UNCHANGED <<recs, analysis, tasting, queues, left>>

\* UpdateItem without a condition; `attempts + 1` fails on an item without
\* attempts, which a deleted item and a stub are.
MarkAnalyzing(w) ==
    /\ At(w, "mark_analyzing")
    /\ \/ /\ job.form = "full"
          /\ job' = [job EXCEPT !.status =
                IF transcribe[run[w].r] = "FAILED" THEN "failed" ELSE "analyzing"]
          /\ Goto(w, "enter_b")
       \/ /\ job.form # "full"
          /\ Quit(w)
          /\ UNCHANGED job
    /\ UNCHANGED <<recs, analysis, tasting, queues, left>>

-----------------------------------------------------------------------------
(* Session B: load_state -> map_speakers -> sommelier_analysis ->          *)
(* (refresh_taste_profile) -> (run_discovery) -> persist_and_publish       *)

\* handleAnalyzeTranscribed.  The re-analysis route sends no recordingId.
EnterSessionB(w) ==
    /\ At(w, "enter_b")
    /\ LET r == IF run[w].r # NoRec THEN run[w].r ELSE job.rec IN
       \/ /\ job.form = "stub"
          /\ Quit(w)
          /\ UNCHANGED queues
       \/ /\ job.form = "full" /\ job.status = "completed"
          /\ Finish(w)
       \/ /\ job.form # "stub" /\ job.status # "completed" /\ r = NoRec
          /\ Quit(w)
          /\ UNCHANGED queues
       \/ /\ job.form # "stub" /\ job.status # "completed" /\ r # NoRec
          /\ run' = [run EXCEPT ![w].r = r, ![w].steps = job.steps, ![w].pc = "load_state"]
          /\ UNCHANGED queues
    /\ UNCHANGED <<items, left>>

\* The event that started the session said the transcription failed.
ToldFailed(w) == run[w].via = "event" /\ transcribe[run[w].r] = "FAILED"

LoadJob(w) ==
    /\ Runs(w, "load_state")
    /\ \/ /\ job.form = "full" /\ ~ToldFailed(w)
          /\ run' = [run EXCEPT ![w].named = job.named, ![w].pc = "load_recording"]
       \/ /\ job.form # "full" \/ ToldFailed(w)
          /\ NodeFails(w)
    /\ UNCHANGED <<items, queues, left>>

\* Without transcribeJobName the transcript is not looked for: the session
\* goes on as if the recording were silent.
LoadRecording(w) ==
    /\ At(w, "load_recording")
    /\ LET rec == recs[run[w].r] IN
       \/ /\ rec.exists /\ (rec.transcript \/ ~run[w].named)
          /\ NodeDone(w, "load_state")
       \/ /\ rec.exists /\ ~rec.transcript /\ run[w].named
          /\ transcribe[run[w].r] = "COMPLETED"
          /\ Seen(w, rec.rev, "transcript_patch")
       \/ /\ \/ ~rec.exists
             \/ /\ ~rec.transcript /\ run[w].named
                /\ transcribe[run[w].r] # "COMPLETED"
          /\ NodeFails(w)
    /\ UNCHANGED <<items, queues, left>>

PatchTranscript(w) ==
    /\ At(w, "transcript_patch")
    /\ LET r == run[w].r IN
       \/ /\ RecUnchanged(w, r)
          /\ recs' = [recs EXCEPT ![r].transcript = TRUE, ![r].rev = @ + 1]
          /\ NodeDone(w, "load_state")
       \/ /\ ~RecUnchanged(w, r)
          /\ NodeFails(w)
          /\ UNCHANGED recs
    /\ UNCHANGED <<job, analysis, tasting, queues, left>>

ReadForSpeakers(w) ==
    /\ Runs(w, "map_speakers")
    /\ LET rec == recs[run[w].r] IN
       \/ rec.exists /\ Seen(w, rec.rev, "speakers_patch")
       \/ ~rec.exists /\ NodeFails(w)
    /\ UNCHANGED <<items, queues, left>>

PatchSpeakers(w) ==
    /\ At(w, "speakers_patch")
    /\ LET r == run[w].r IN
       \/ /\ RecUnchanged(w, r)
          /\ recs' = [recs EXCEPT ![r].speakers = "auto", ![r].rev = @ + 1]
          /\ NodeDone(w, "map_speakers")
       \/ /\ ~RecUnchanged(w, r)
          /\ NodeFails(w)
          /\ UNCHANGED recs
    /\ UNCHANGED <<job, analysis, tasting, queues, left>>

\* Mutant of SommelierAnalysis: a recording with a Transcribe job is taken to
\* have its transcript.
SommelierAnalysisByName(w) ==
    /\ Runs(w, "sommelier_analysis")
    /\ run' = [run EXCEPT ![w].output = TRUE,
          ![w].basis = {i \in Input : IF i = "transcript" THEN job.named
                                                         ELSE recs[run[w].r].acoustic},
          ![w].fresh = @ \union {"sommelier_analysis"},
          ![w].pc = After["sommelier_analysis"]]
    /\ UNCHANGED <<items, queues, left>>

\* The prompt is built from the recording as stored now; the model answers.
SommelierAnalysis(w) ==
    /\ Runs(w, "sommelier_analysis")
    /\ LET rec == recs[run[w].r] IN
       \/ /\ rec.exists
          /\ run' = [run EXCEPT ![w].output = TRUE,
                ![w].basis = {i \in Input : IF i = "transcript" THEN rec.transcript
                                                                ELSE rec.acoustic},
                ![w].fresh = @ \union {"sommelier_analysis"},
                ![w].pc = After["sommelier_analysis"]]
       \/ ~rec.exists /\ NodeFails(w)
    /\ UNCHANGED <<items, queues, left>>

\* refresh_taste_profile and run_discovery: shouldRun counts the completed
\* tastings of the whole diary, so a node that is Due may run or not.
ConditionalNode(w) ==
    /\ \E s \in {"refresh_taste_profile", "run_discovery"} :
          /\ Runs(w, s)
          /\ (s \in Due /\ NodeDone(w, s)) \/ Goto(w, After[s])
    /\ UNCHANGED <<items, queues, left>>

\* Mutant of ReadAnalysis: no output means nothing to persist, so just finish.
ReadAnalysisLenient(w) ==
    /\ Runs(w, "persist_and_publish")
    /\ \/ /\ run[w].output
          /\ Seen(w, IF analysis.exists THEN analysis.rev ELSE unseen, "analysis_write")
       \/ ~run[w].output /\ Goto(w, "done_read")
    /\ UNCHANGED <<items, queues, left>>

\* persist_and_publish: without this session's own sommelier output there is
\* nothing to persist.
ReadAnalysis(w) ==
    /\ Runs(w, "persist_and_publish")
    /\ \/ /\ run[w].output
          /\ Seen(w, IF analysis.exists THEN analysis.rev ELSE unseen, "analysis_write")
       \/ ~run[w].output /\ NodeFails(w)
    /\ UNCHANGED <<items, queues, left>>

\* Mutant of WriteAnalysis: every analysis is put, whatever is there.
WriteAnalysisPut(w) ==
    /\ At(w, "analysis_write")
    /\ analysis' = [NoAnalysis EXCEPT !.exists = TRUE, !.basis = run[w].basis]
    /\ Goto(w, "done_read")
    /\ UNCHANGED <<job, recs, tasting, queues, left>>

\* putAnalysis replaces the item; patchAnalysis leaves the editor's text alone.
WriteAnalysis(w) ==
    /\ At(w, "analysis_write")
    /\ \/ /\ run[w].rev = unseen
          /\ analysis' = [NoAnalysis EXCEPT !.exists = TRUE, !.basis = run[w].basis]
          /\ Goto(w, "done_read")
       \/ /\ run[w].rev # unseen /\ analysis.exists /\ analysis.rev = run[w].rev
          /\ analysis' = [analysis EXCEPT !.basis = run[w].basis, !.rev = @ + 1]
          /\ Goto(w, "done_read")
       \/ /\ run[w].rev # unseen /\ ~(analysis.exists /\ analysis.rev = run[w].rev)
          /\ NodeFails(w)
          /\ UNCHANGED analysis
    /\ UNCHANGED <<job, recs, tasting, queues, left>>

ReadJobForDone(w) ==
    /\ At(w, "done_read")
    /\ \/ job.form = "none" /\ Goto(w, "tasting_read")
       \/ job.form = "stub" /\ NodeFails(w)
       \/ job.form = "full" /\ Seen(w, job.rev, "done_patch")
    /\ UNCHANGED <<items, queues, left>>

PatchJobDone(w) ==
    /\ At(w, "done_patch")
    /\ \/ /\ JobUnchanged(w)
          /\ job' = [job EXCEPT !.status = "completed", !.rev = @ + 1]
          /\ Goto(w, "done_index")
       \/ /\ ~JobUnchanged(w)
          /\ NodeFails(w)
          /\ UNCHANGED job
    /\ UNCHANGED <<recs, analysis, tasting, queues, left>>

ReadTasting(w) ==
    /\ At(w, "tasting_read")
    /\ \/ tasting.exists /\ Seen(w, tasting.rev, "tasting_patch")
       \/ ~tasting.exists /\ Goto(w, "publish")
    /\ UNCHANGED <<items, queues, left>>

PatchTasting(w) ==
    /\ At(w, "tasting_patch")
    /\ \/ /\ tasting.exists /\ tasting.rev = run[w].rev
          /\ tasting' = [tasting EXCEPT !.ready = TRUE, !.rev = @ + 1]
          /\ Goto(w, "publish")
       \/ /\ ~(tasting.exists /\ tasting.rev = run[w].rev)
          /\ NodeFails(w)
          /\ UNCHANGED tasting
    /\ UNCHANGED <<job, recs, analysis, queues, left>>

\* CloudFront invalidation.
Publish(w) ==
    /\ At(w, "publish")
    /\ NodeDone(w, "persist_and_publish")
    /\ UNCHANGED <<items, queues, left>>

-----------------------------------------------------------------------------
(* POST /api/tastings/[id]/analyze                                         *)

\* requireFound(getTasting) and getJob; a stub makes getJob throw.
Reanalyze(w) ==
    /\ At(w, "idle") /\ tasting.exists /\ left.reanalyses > 0
    /\ left' = [left EXCEPT !.reanalyses = @ - 1]
    /\ \/ /\ job.form = "stub"
          /\ UNCHANGED run
       \/ /\ job.form # "stub"
          /\ run' = [run EXCEPT ![w] = [Idle EXCEPT !.via = "route",
                !.rev = IF job.form = "full" THEN job.rev ELSE unseen,
                !.pc  = IF job.form = "full" THEN "reset_patch" ELSE "reset_put"]]
    /\ UNCHANGED <<items, queues>>

ResetJob(w) ==
    /\ At(w, "reset_patch")
    /\ \/ /\ JobUnchanged(w)
          /\ job' = [job EXCEPT !.status = "queued", !.steps = {}, !.rev = @ + 1]
          /\ Goto(w, "reset_index")
       \/ /\ ~JobUnchanged(w)
          /\ Quit(w)
          /\ UNCHANGED job
    /\ UNCHANGED <<recs, analysis, tasting, queues, left>>

ResetJobPut(w) ==
    /\ At(w, "reset_put")
    /\ job' = NewJob
    /\ Goto(w, "enter_b")
    /\ UNCHANGED <<recs, analysis, tasting, queues, left>>

-----------------------------------------------------------------------------
(* The editor: DELETE and PATCH /api/tastings/[id], PATCH .../speakers     *)

\* getTasting and queryTastingBundle.  The bundle quarantines a stub, so the
\* deletion does not see it.
StartDelete(w) ==
    /\ At(w, "idle") /\ tasting.exists /\ left.deletes > 0
    /\ left' = [left EXCEPT !.deletes = @ - 1]
    /\ run' = [run EXCEPT ![w] = [Idle EXCEPT !.via = "delete", !.pc = "deleting",
          !.todo = {r \in Recordings : recs[r].exists},
          !.also = {i \in {"analysis", "job"} :
                       IF i = "job" THEN job.form = "full" ELSE analysis.exists}]]
    /\ UNCHANGED <<items, queues>>

\* Recordings, then the analysis, then the job, and META last.
DeleteNext(w) ==
    /\ At(w, "deleting")
    /\ \/ \E r \in run[w].todo :
             /\ recs' = [recs EXCEPT ![r] = NoRecording]
             /\ run' = [run EXCEPT ![w].todo = @ \ {r}]
             /\ UNCHANGED <<job, analysis, tasting>>
       \/ /\ run[w].todo = {} /\ "analysis" \in run[w].also
          /\ analysis' = NoAnalysis
          /\ run' = [run EXCEPT ![w].also = @ \ {"analysis"}]
          /\ UNCHANGED <<job, recs, tasting>>
       \/ /\ run[w].todo = {} /\ run[w].also = {"job"}
          /\ job' = NoJob
          /\ run' = [run EXCEPT ![w].also = {}]
          /\ UNCHANGED <<recs, analysis, tasting>>
       \/ /\ run[w].todo = {} /\ run[w].also = {}
          /\ tasting' = NoTasting
          /\ Quit(w)
          /\ UNCHANGED <<job, recs, analysis>>
    /\ UNCHANGED <<queues, left>>

\* updateTasting with an edited summary: it patches META first, then looks for
\* the analysis; without one it answers 404, but META has changed.
EditSummary ==
    /\ tasting.exists /\ left.edits > 0
    /\ tasting' = [tasting EXCEPT !.rev = @ + 1]
    /\ \/ /\ analysis.exists
          /\ analysis' = [analysis EXCEPT !.edited = TRUE, !.rev = @ + 1]
       \/ ~analysis.exists /\ UNCHANGED analysis
    /\ left' = [left EXCEPT !.edits = @ - 1]
    /\ UNCHANGED <<job, recs, queues, run>>

\* overrideSpeakerMapping with the rev the editor's page shows.
OverrideSpeakers(r) ==
    /\ recs[r].speakers # "none" /\ left.edits > 0
    /\ recs' = [recs EXCEPT ![r].speakers = "manual", ![r].rev = @ + 1]
    /\ left' = [left EXCEPT !.edits = @ - 1]
    /\ UNCHANGED <<job, analysis, tasting, queues, run>>

-----------------------------------------------------------------------------
(* Failures                                                                *)

\* The process dies, a handler throws outside the nodes, or a budget check
\* refuses the invocation: nothing is acknowledged.
Crash(w) ==
    /\ ~At(w, "idle") /\ left.crashes > 0
    /\ left' = [left EXCEPT !.crashes = @ - 1]
    /\ Quit(w)
    /\ UNCHANGED <<items, queues>>

\* A service call made by a node throws (DynamoDB, Transcribe, S3, the audio
\* Lambda, CloudFront) or the model keeps violating the schema.
NodeFault(w) ==
    /\ run[w].pc \in NodeSteps /\ run[w].pc \notin run[w].steps
    /\ left.nodeFaults > 0
    /\ left' = [left EXCEPT !.nodeFaults = @ - 1]
    /\ NodeFails(w)
    /\ UNCHANGED <<items, queues>>

-----------------------------------------------------------------------------

SessionA(w) ==
    \/ EnsureJob(w) \/ EnsureJobPut(w)
    \/ CheckTranscription(w) \/ StartTranscription(w)
    \/ ReadJobForName(w) \/ PatchJobName(w)
    \/ ReadAcoustic(w) \/ PatchAcoustic(w)

SessionB(w) ==
    \/ LoadJob(w) \/ LoadRecording(w) \/ PatchTranscript(w)
    \/ ReadForSpeakers(w) \/ PatchSpeakers(w)
    \/ SommelierAnalysis(w) \/ ConditionalNode(w)
    \/ ReadAnalysis(w) \/ WriteAnalysis(w)
    \/ ReadJobForDone(w) \/ PatchJobDone(w)
    \/ ReadTasting(w) \/ PatchTasting(w) \/ Publish(w)

\* Everything an execution does once it has been started.
Continue(w) ==
    \/ PutJob(w) \/ MarkTranscribing(w) \/ EnterSessionA(w) \/ SessionA(w)
    \/ MarkAnalyzing(w) \/ EnterSessionB(w) \/ SessionB(w)
    \/ SkipNode(w) \/ IndexJob(w) \/ ReadJobForMerge(w) \/ MergeSteps(w)
    \/ ResetJob(w) \/ ResetJobPut(w) \/ DeleteNext(w)

Next ==
    \/ \E r \in Recordings : Upload(r) \/ TranscribeEnds(r) \/ OverrideSpeakers(r)
    \/ \E w \in Workers, r \in Recordings : TriggerUpload(w, r) \/ TriggerTranscribe(w, r)
    \/ \E w \in Workers : \/ Continue(w) \/ Reanalyze(w) \/ StartDelete(w)
                          \/ Crash(w) \/ NodeFault(w)
    \/ EditSummary

Spec == Init /\ [][Next]_vars

\* A running execution goes on; Transcribe answers; an unacknowledged message
\* or event is delivered again as long as it has receives left.  Uploads, the
\* editor and failures are not fair.
Fairness ==
    /\ \A w \in Workers : WF_vars(Continue(w))
    /\ \A r \in Recordings :
          /\ WF_vars(TranscribeEnds(r))
          /\ WF_vars(\E w \in Workers : ~uploads[r].acked /\ TriggerUpload(w, r))
          /\ WF_vars(\E w \in Workers : ~events[r].acked /\ TriggerTranscribe(w, r))

FairSpec == Spec /\ Fairness

-----------------------------------------------------------------------------
(* Safety                                                                  *)

\* Nobody has started to delete the tasting.
NeverDeleted == left.deletes = MaxDeletes

\* A job that says "completed" has an analysis to show: persist_and_publish
\* writes the analysis before it marks the job, and no overlapping session,
\* retry or duplicate event may bring the mark without the analysis.
CompletedHasAnalysis ==
    NeverDeleted /\ job.form = "full" /\ job.status = "completed" => analysis.exists

\* What a recorded step stands for, for the steps that leave something behind.
Earned(steps) ==
    /\ "start_transcription" \in steps => \E r \in Recordings : transcribe[r] # "none"
    /\ "extract_acoustic" \in steps => \E r \in Recordings : recs[r].acoustic
    /\ "map_speakers" \in steps => \E r \in Recordings : recs[r].speakers # "none"
    /\ "persist_and_publish" \in steps => analysis.exists

\* Job.completedSteps, which later sessions skip by, never names a step whose
\* effect is not stored, however sessions overlap, fail and merge their lists.
StepsEarned == NeverDeleted => Earned(job.steps)

\* The analysis never claims to rest on data that no recording holds.
BasisStored ==
    NeverDeleted =>
        /\ "transcript" \in analysis.basis => \E r \in Recordings : recs[r].transcript
        /\ "acoustic" \in analysis.basis => \E r \in Recordings : recs[r].acoustic

\* The queue forgets an upload only once its transcription has been started.
UploadStarted == \A r \in Recordings : uploads[r].acked => transcribe[r] # "none"

OneRecording == \A r, q \in Recordings : r = q

\* As long as no node has failed and nobody deletes, that holds of a tasting
\* with one recording: a crash anywhere between the receive and
\* StartTranscriptionJob loses nothing.
CrashKeepsUpload ==
    OneRecording /\ NeverDeleted /\ left.nodeFaults = MaxNodeFaults => UploadStarted

\* META goes last and versioned writes cannot bring an item back: once the
\* tasting is gone, no recording is left, whatever sessions still run.
NoOrphanRecording == ~tasting.exists => \A r \in Recordings : ~recs[r].exists

\* The same for every sub-record of the tasting: no write of a session that
\* outlives the tasting leaves an analysis or a job behind.
NoOrphan ==
    ~tasting.exists => /\ \A r \in Recordings : ~recs[r].exists
                       /\ ~analysis.exists /\ job.form = "none"

(* Action properties                                                       *)

\* Neither a re-analysis nor a second message makes the job anew; the put of
\* trigger-upload asks for nothing, so only the first may come.
JobMadeOnce ==
    /\ left.reanalyses = MaxReanalyses
    /\ OneRecording /\ \A r \in Recordings : uploads[r].got <= 1

\* Then completedSteps only grows: sessions that merge their lists at the same
\* time do not lose each other's steps.
StepsKept == [][NeverDeleted /\ JobMadeOnce => job.steps \subseteq job'.steps]_job

\* An analysis the editor has rewritten keeps the editor's text, however
\* often it is generated again.
EditKept == [][NeverDeleted /\ analysis.edited => analysis'.edited]_analysis

\* Repeating a session that has completed changes nothing: without a
\* re-analysis a completed job stays completed.
CompletedStays ==
    [][left.reanalyses = MaxReanalyses /\ NeverDeleted /\ job.status = "completed"
         => job'.status = "completed"]_job

(* Liveness                                                                *)

\* Every uploaded recording ends as an analysis on a tasting that is ready to
\* be shown, though executions die on the way and messages come twice, unless
\* the editor has written to an item a session was about to patch.
UploadPublished ==
    \A r \in Recordings :
        uploads[r].sent ~> (analysis.exists /\ tasting.ready) \/ left.edits < MaxEdits

\* A session B one of whose nodes has failed leaves a job that says so (or
\* that another session has completed).
FailureRecorded ==
    (\E w \in Workers : run[w].via = "event" /\ ~run[w].ok)
        ~> job.status \in {"failed", "completed"}

\* A job that a re-analysis has put back to "queued" does not stay there.
QueuedRuns == job.status = "queued" ~> job.status # "queued"

=============================================================================
