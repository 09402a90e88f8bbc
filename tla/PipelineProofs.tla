--------------------------- MODULE PipelineProofs ---------------------------
(* Theorems about Pipeline, for any number of recordings and executions and *)
(* any bounds.                                                              *)
EXTENDS Pipeline, TLAPS

Pcs == NodeSteps \union HandlerSteps \union {"idle"}

\* Awaits of an execution that works on one recording.
RecordingSteps ==
    NodeSteps \union {"job_put", "mark_transcribing", "enter_a", "mark_analyzing"}

\* From the receive to the end of the graph an execution has its recording;
\* only a re-analysis before load_state and a deletion go without.
OnRecording == \A w \in Workers : run[w].pc \in RecordingSteps => run[w].r \in Recordings

RunInv == run \in [Workers -> Execution] /\ OnRecording

TypeInv == TypeOK /\ OnRecording

-----------------------------------------------------------------------------
(* Lemmas on the ways an execution moves                                   *)

\* Every edge of the graphs leads to an await of the model.
LEMMA AfterType == \A s \in PipelineStep : After[s] \in PipelineStep \union {"merge_read"}
  BY DEF After, PipelineStep

LEMMA PcsType ==
  /\ PipelineStep \subseteq NodeSteps
  /\ NodeSteps \subseteq Pcs /\ HandlerSteps \subseteq Pcs /\ RecordingSteps \subseteq Pcs
  /\ "merge_read" \in Pcs /\ "idle" \in Pcs
  /\ "merge_read" \notin RecordingSteps /\ "idle" \notin RecordingSteps
  BY DEF NodeSteps, HandlerSteps, Pcs, RecordingSteps, PipelineStep

\* One execution may change to any record of the right type that has its
\* recording where it needs one.
LEMMA ExecutionMoves ==
  ASSUME RunInv, NEW w \in Workers, NEW e \in Execution,
         e.pc \in RecordingSteps => e.r \in Recordings,
         run' = [run EXCEPT ![w] = e]
  PROVE  RunInv'
  BY DEF RunInv, OnRecording

\* A session takes over completedSteps from the job it read.
LEMMA ResumeType ==
  \A e \in Execution, pc \in Pcs, S \in SUBSET PipelineStep :
      /\ [e EXCEPT !.steps = S, !.pc = pc] \in Execution
      /\ \A rev \in Nat \union {unseen} :
            [e EXCEPT !.rev = rev, !.steps = S, !.pc = pc] \in Execution
      /\ \A r \in Recordings :
            [e EXCEPT !.r = r, !.steps = S, !.pc = pc] \in Execution
  <1> TAKE e \in Execution, pc \in Pcs, S \in SUBSET PipelineStep
  <1>1. [e EXCEPT !.steps = S, !.pc = pc] \in Execution
    BY DEF Execution, Pcs
  <1>2. ASSUME NEW rev \in Nat \union {unseen}
        PROVE  [e EXCEPT !.rev = rev, !.steps = S, !.pc = pc] \in Execution
    BY DEF Execution, Pcs
  <1>3. ASSUME NEW r \in Recordings
        PROVE  [e EXCEPT !.r = r, !.steps = S, !.pc = pc] \in Execution
    BY DEF Execution, Pcs
  <1> QED  BY <1>1, <1>2, <1>3

\* The record updates of the moves below.
LEMMA UpdateType ==
  \A e \in Execution, pc \in Pcs, rev \in Nat \union {unseen} :
      /\ [e EXCEPT !.pc = pc] \in Execution
      /\ [e EXCEPT !.rev = rev, !.pc = pc] \in Execution
      /\ [e EXCEPT !.ok = FALSE, !.pc = pc, !.rev = rev] \in Execution
      /\ \A s \in PipelineStep :
            [e EXCEPT !.fresh = @ \union {s}, !.pc = pc, !.rev = rev] \in Execution
  <1> TAKE e \in Execution, pc \in Pcs, rev \in Nat \union {unseen}
  <1>1. [e EXCEPT !.pc = pc] \in Execution
    BY DEF Execution, Pcs
  <1>2. [e EXCEPT !.rev = rev, !.pc = pc] \in Execution
    BY DEF Execution, Pcs
  <1>3. [e EXCEPT !.ok = FALSE, !.pc = pc, !.rev = rev] \in Execution
    BY DEF Execution, Pcs
  <1>4. ASSUME NEW s \in PipelineStep
        PROVE  [e EXCEPT !.fresh = @ \union {s}, !.pc = pc, !.rev = rev] \in Execution
    BY DEF Execution, Pcs
  <1> QED  BY <1>1, <1>2, <1>3, <1>4

LEMMA GotoMoves ==
  ASSUME RunInv, NEW w \in Workers, NEW pc \in Pcs, Goto(w, pc),
         pc \in RecordingSteps => run[w].r \in Recordings
  PROVE  RunInv'
  <1> DEFINE e == [run[w] EXCEPT !.pc = pc]
  <1>0. run[w] \in Execution
    BY DEF RunInv
  <1>1. e \in Execution
    BY <1>0, UpdateType
  <1>2. e.pc = pc /\ e.r = run[w].r
    BY DEF RunInv, Execution
  <1>3. run' = [run EXCEPT ![w] = e]
    BY DEF Goto
  <1> QED  BY <1>1, <1>2, <1>3, ExecutionMoves

LEMMA SeenMoves ==
  ASSUME RunInv, NEW w \in Workers, NEW pc \in Pcs, NEW rev \in Nat \union {unseen},
         Seen(w, rev, pc), pc \in RecordingSteps => run[w].r \in Recordings
  PROVE  RunInv'
  <1> DEFINE e == [run[w] EXCEPT !.rev = rev, !.pc = pc]
  <1>0. run[w] \in Execution
    BY DEF RunInv
  <1>1. e \in Execution
    BY <1>0, UpdateType
  <1>2. e.pc = pc /\ e.r = run[w].r
    BY DEF RunInv, Execution
  <1>3. run' = [run EXCEPT ![w] = e]
    BY DEF Seen
  <1> QED  BY <1>1, <1>2, <1>3, ExecutionMoves

LEMMA NodeDoneMoves ==
  ASSUME RunInv, NEW w \in Workers, NEW s \in PipelineStep, NodeDone(w, s),
         run[w].r \in Recordings
  PROVE  RunInv'
  <1> DEFINE e == [run[w] EXCEPT !.fresh = @ \union {s}, !.pc = After[s], !.rev = unseen]
  <1>1. After[s] \in Pcs
    BY AfterType, PcsType
  <1>0. run[w] \in Execution
    BY DEF RunInv
  <1>2. e \in Execution
    BY <1>0, <1>1, UpdateType
  <1>3. e.r = run[w].r
    BY DEF RunInv, Execution
  <1>4. run' = [run EXCEPT ![w] = e]
    BY DEF NodeDone
  <1> QED  BY <1>2, <1>3, <1>4, ExecutionMoves

LEMMA NodeFailsMoves ==
  ASSUME RunInv, NEW w \in Workers, NodeFails(w)
  PROVE  RunInv'
  <1> DEFINE e == [run[w] EXCEPT !.ok = FALSE, !.pc = "merge_read", !.rev = unseen]
  <1>0. run[w] \in Execution
    BY DEF RunInv
  <1>1. e \in Execution
    BY <1>0, PcsType, UpdateType
  <1>2. e.pc \notin RecordingSteps
    BY PcsType DEF RunInv, Execution
  <1>3. run' = [run EXCEPT ![w] = e]
    BY DEF NodeFails
  <1> QED  BY <1>1, <1>2, <1>3, ExecutionMoves

LEMMA IdleType == Idle \in Execution /\ Idle.pc = "idle"
  BY DEF Idle, Execution

LEMMA QuitMoves ==
  ASSUME RunInv, NEW w \in Workers, Quit(w)
  PROVE  RunInv'
  BY IdleType, PcsType, ExecutionMoves DEF Quit
-----------------------------------------------------------------------------
(* Lemmas on what a step writes                                            *)

LEMMA TypeInvParts ==
  TypeInv <=> /\ RunInv
              /\ job \in Job
              /\ recs \in [Recordings -> Recording]
              /\ analysis \in Analysis
              /\ tasting \in Tasting
              /\ transcribe \in [Recordings -> {"none", "running", "COMPLETED", "FAILED"}]
              /\ uploads \in [Recordings -> Delivery]
              /\ events \in [Recordings -> Delivery]
              /\ left \in Budget
  BY DEF TypeInv, TypeOK, RunInv

LEMMA OnlyRunChanges ==
  ASSUME TypeInv, RunInv', UNCHANGED <<items, queues, left>>
  PROVE  TypeInv'
  BY DEF TypeInv, TypeOK, RunInv, items, queues

LEMMA JobWritten ==
  ASSUME TypeInv, RunInv', job' \in Job, UNCHANGED <<recs, analysis, tasting, queues, left>>
  PROVE  TypeInv'
  BY DEF TypeInv, TypeOK, RunInv, queues

LEMMA RecsWritten ==
  ASSUME TypeInv, RunInv', recs' \in [Recordings -> Recording],
         UNCHANGED <<job, analysis, tasting, queues, left>>
  PROVE  TypeInv'
  BY DEF TypeInv, TypeOK, RunInv, queues

LEMMA AnalysisWritten ==
  ASSUME TypeInv, RunInv', analysis' \in Analysis,
         UNCHANGED <<job, recs, tasting, queues, left>>
  PROVE  TypeInv'
  BY DEF TypeInv, TypeOK, RunInv, queues

LEMMA TastingWritten ==
  ASSUME TypeInv, RunInv', tasting' \in Tasting,
         UNCHANGED <<job, recs, analysis, queues, left>>
  PROVE  TypeInv'
  BY DEF TypeInv, TypeOK, RunInv, queues

LEMMA AckType ==
  ASSUME NEW f \in [Recordings -> Delivery], NEW r
  PROVE  [f EXCEPT ![r].acked = TRUE] \in [Recordings -> Delivery]
  BY DEF Delivery

LEMMA ReceivedType ==
  ASSUME NEW f \in [Recordings -> Delivery], NEW r \in Recordings, NEW a \in BOOLEAN
  PROVE  [f EXCEPT ![r].got = @ + 1, ![r].acked = a] \in [Recordings -> Delivery]
  <1>1. \A n \in Nat : [f[r] EXCEPT !.got = n, !.acked = a] \in Delivery
    BY DEF Delivery
  <1>2. f[r].got + 1 \in Nat
    BY DEF Delivery
  <1> QED  BY <1>1, <1>2

LEMMA RecordingPatched ==
  ASSUME NEW f \in [Recordings -> Recording], NEW r \in Recordings
  PROVE  /\ [f EXCEPT ![r].acoustic = TRUE, ![r].rev = @ + 1] \in [Recordings -> Recording]
         /\ [f EXCEPT ![r].transcript = TRUE, ![r].rev = @ + 1] \in [Recordings -> Recording]
         /\ \A s \in {"auto", "manual"} :
               [f EXCEPT ![r].speakers = s, ![r].rev = @ + 1] \in [Recordings -> Recording]
  <1>1. f[r] \in Recording /\ f[r].rev + 1 \in Nat
    BY DEF Recording
  <1>2. \A d \in Recording, n \in Nat : [d EXCEPT !.acoustic = TRUE, !.rev = n] \in Recording
    BY DEF Recording
  <1>3. \A d \in Recording, n \in Nat : [d EXCEPT !.transcript = TRUE, !.rev = n] \in Recording
    BY DEF Recording
  <1>4. \A s \in {"auto", "manual"}, d \in Recording, n \in Nat :
            [d EXCEPT !.speakers = s, !.rev = n] \in Recording
    BY DEF Recording
  <1>5. [f EXCEPT ![r].acoustic = TRUE, ![r].rev = @ + 1] \in [Recordings -> Recording]
    BY <1>1, <1>2
  <1>6. [f EXCEPT ![r].transcript = TRUE, ![r].rev = @ + 1] \in [Recordings -> Recording]
    BY <1>1, <1>3
  <1>7. ASSUME NEW s \in {"auto", "manual"}
        PROVE  [f EXCEPT ![r].speakers = s, ![r].rev = @ + 1] \in [Recordings -> Recording]
    BY <1>1, <1>4
  <1> QED  BY <1>5, <1>6, <1>7

LEMMA FinishTypes ==
  ASSUME TypeInv, NEW w \in Workers, Finish(w)
  PROVE  /\ RunInv'
         /\ uploads' \in [Recordings -> Delivery] /\ events' \in [Recordings -> Delivery]
         /\ transcribe' = transcribe
  <1>1. RunInv'
    BY QuitMoves DEF Finish, TypeInv, TypeOK, RunInv
  <1>2. uploads' \in [Recordings -> Delivery] /\ events' \in [Recordings -> Delivery]
    BY AckType DEF Finish, TypeInv, TypeOK
  <1> QED  BY <1>1, <1>2 DEF Finish

LEMMA Finished ==
  ASSUME TypeInv, NEW w \in Workers, Finish(w), UNCHANGED <<items, left>>
  PROVE  TypeInv'
  BY FinishTypes DEF TypeInv, TypeOK, RunInv, items
-----------------------------------------------------------------------------
(* Every action preserves the type invariant                               *)

LEMMA HasRecording ==
  ASSUME TypeInv, NEW w \in Workers, run[w].pc \in RecordingSteps
  PROVE  run[w].r \in Recordings
  BY DEF TypeInv, OnRecording

\* No write of an item takes its rev out of the naturals.
LEMMA RevType ==
  ASSUME TypeInv
  PROVE  /\ job.rev \in Nat /\ job.rev + 1 \in Nat
         /\ analysis.rev \in Nat /\ analysis.rev + 1 \in Nat
         /\ tasting.rev \in Nat /\ tasting.rev + 1 \in Nat
         /\ \A r \in Recordings : recs[r].rev \in Nat /\ recs[r].rev + 1 \in Nat
  BY DEF TypeInv, TypeOK, Job, Recording, Analysis, Tasting

LEMMA TypeInvRun == TypeInv => RunInv
  BY DEF TypeInv, TypeOK, RunInv

LEMMA UploadTriggerTypes ==
  ASSUME TypeInv, NEW w \in Workers, NEW r \in Recordings, TriggerUpload(w, r)
  PROVE  TypeInv'
  <1> DEFINE skip == job.form # "none" /\ job.status \in BeyondQueued
             pc == IF job.form = "none" THEN "job_put" ELSE "mark_transcribing"
             e == [Idle EXCEPT !.via = "upload", !.r = r, !.pc = pc]
  <1>1. RunInv'
    <2>1. e \in Execution /\ e.r = r
      BY IdleType DEF Idle, Execution, HandlerSteps
    <2>2. run' = run \/ run' = [run EXCEPT ![w] = e]
      BY DEF TriggerUpload
    <2>3. CASE run' = run
      BY <2>3, TypeInvRun DEF RunInv, OnRecording
    <2>4. CASE run' = [run EXCEPT ![w] = e]
      BY <2>1, <2>4, TypeInvRun, ExecutionMoves
    <2> QED  BY <2>2, <2>3, <2>4
  <1>2. uploads' \in [Recordings -> Delivery]
    <2>1. (uploads[r].acked \/ skip) \in BOOLEAN
      OBVIOUS
    <2>2. [uploads EXCEPT ![r].got = @ + 1, ![r].acked = uploads[r].acked \/ skip]
              \in [Recordings -> Delivery]
      BY <2>1, ReceivedType DEF TypeInv, TypeOK
    <2> QED  BY <2>2 DEF TriggerUpload
  <1> QED
    BY <1>1, <1>2 DEF TypeInv, TypeOK, RunInv, TriggerUpload, items

LEMMA SessionATypes ==
  ASSUME TypeInv, NEW w \in Workers, SessionA(w)
  PROVE  TypeInv'
  <1>0. RunInv
    BY TypeInvRun
  <1>1. CASE EnsureJob(w)
    <2>1. run[w].r \in Recordings
      BY <1>1, HasRecording DEF EnsureJob, Runs, At, RecordingSteps, NodeSteps, PipelineStep
    <2>2. RunInv'
      BY <1>0, <1>1, <2>1, NodeDoneMoves, GotoMoves, NodeFailsMoves
      DEF EnsureJob, PipelineStep, Pcs, NodeSteps
    <2> QED  BY <1>1, <2>2, OnlyRunChanges DEF EnsureJob
  <1>2. CASE EnsureJobPut(w)
    <2>1. run[w].r \in Recordings
      BY <1>2, HasRecording DEF EnsureJobPut, At, RecordingSteps, NodeSteps
    <2>2. RunInv'
      BY <1>0, <1>2, <2>1, NodeDoneMoves DEF EnsureJobPut, PipelineStep
    <2>3. job' \in Job
      BY <1>2, <2>1 DEF EnsureJobPut, NewJob, NoJob, Job, JobStatus
    <2> QED  BY <1>2, <2>2, <2>3, JobWritten DEF EnsureJobPut
  <1>3. CASE CheckTranscription(w)
    <2>1. run[w].r \in Recordings
      BY <1>3, HasRecording DEF CheckTranscription, Runs, At, RecordingSteps, NodeSteps, PipelineStep
    <2>2. RunInv'
      BY <1>0, <1>3, <2>1, GotoMoves DEF CheckTranscription, Pcs, NodeSteps
    <2> QED  BY <1>3, <2>2, OnlyRunChanges DEF CheckTranscription
  <1>4. CASE StartTranscription(w)
    <2>1. run[w].r \in Recordings
      BY <1>4, HasRecording DEF StartTranscription, At, RecordingSteps, NodeSteps
    <2>2. RunInv'
      BY <1>0, <1>4, <2>1, GotoMoves, NodeFailsMoves DEF StartTranscription, Pcs, NodeSteps
    <2>3. transcribe' \in [Recordings -> {"none", "running", "COMPLETED", "FAILED"}]
      BY <1>4 DEF StartTranscription, TypeInv, TypeOK
    <2> QED  BY <1>4, <2>2, <2>3, TypeInvParts DEF StartTranscription, items, TypeInv, TypeOK, RunInv
  <1>5. CASE ReadJobForName(w)
    <2>1. run[w].r \in Recordings
      BY <1>5, HasRecording DEF ReadJobForName, At, RecordingSteps, NodeSteps
    <2>2. job.rev \in Nat
      BY DEF TypeInv, TypeOK, Job
    <2>3. RunInv'
      BY <1>0, <1>5, <2>1, <2>2, SeenMoves, NodeDoneMoves, NodeFailsMoves
      DEF ReadJobForName, PipelineStep, Pcs, NodeSteps
    <2> QED  BY <1>5, <2>3, OnlyRunChanges DEF ReadJobForName
  <1>6. CASE PatchJobName(w)
    <2>1. run[w].r \in Recordings
      BY <1>6, HasRecording DEF PatchJobName, At, RecordingSteps, NodeSteps
    <2>2. RunInv'
      BY <1>0, <1>6, <2>1, GotoMoves, NodeFailsMoves DEF PatchJobName, Pcs, NodeSteps
    <2>3. job' \in Job
      <3>1. \A n \in Nat :
                [job EXCEPT !.named = TRUE, !.status = "transcribing", !.rev = n] \in Job
        BY DEF TypeInv, TypeOK, Job, JobStatus
      <3> QED  BY <1>6, <3>1, RevType DEF PatchJobName, TypeInv, TypeOK
    <2> QED  BY <1>6, <2>2, <2>3, JobWritten DEF PatchJobName
  <1>7. CASE ReadAcoustic(w)
    <2>1. run[w].r \in Recordings
      BY <1>7, HasRecording DEF ReadAcoustic, Runs, At, RecordingSteps, NodeSteps, PipelineStep
    <2>2. (IF recs[run[w].r].exists THEN recs[run[w].r].rev ELSE unseen) \in Nat \union {unseen}
      BY <2>1 DEF TypeInv, TypeOK, Recording
    <2>3. RunInv'
      BY <1>0, <1>7, <2>1, <2>2, SeenMoves, NodeDoneMoves DEF ReadAcoustic, PipelineStep, Pcs, NodeSteps
    <2> QED  BY <1>7, <2>3, OnlyRunChanges DEF ReadAcoustic
  <1>8. CASE PatchAcoustic(w)
    <2>1. run[w].r \in Recordings
      BY <1>8, HasRecording DEF PatchAcoustic, At, RecordingSteps, NodeSteps
    <2>2. RunInv'
      BY <1>0, <1>8, <2>1, NodeDoneMoves, NodeFailsMoves DEF PatchAcoustic, PipelineStep
    <2>3. recs' \in [Recordings -> Recording]
      <3>1. recs \in [Recordings -> Recording]
        BY DEF TypeInv, TypeOK
      <3>2. [recs EXCEPT ![run[w].r].acoustic = TRUE, ![run[w].r].rev = @ + 1]
                \in [Recordings -> Recording]
        BY <2>1, <3>1, RecordingPatched, Zenon
      <3> QED  BY <1>8, <3>1, <3>2 DEF PatchAcoustic
    <2> QED  BY <1>8, <2>2, <2>3, RecsWritten DEF PatchAcoustic
  <1> QED  BY <1>1, <1>2, <1>3, <1>4, <1>5, <1>6, <1>7, <1>8 DEF SessionA
LEMMA JobPatched ==
  \A j \in Job, n \in Nat :
      /\ \A S \in SUBSET PipelineStep : [j EXCEPT !.steps = S, !.rev = n] \in Job
      /\ \A s \in JobStatus : [j EXCEPT !.status = s, !.rev = n] \in Job
      /\ \A s \in JobStatus, S \in SUBSET PipelineStep :
            [j EXCEPT !.status = s, !.steps = S, !.rev = n] \in Job
  BY DEF Job

LEMMA SharedTypes ==
  ASSUME TypeInv, NEW w \in Workers,
         SkipNode(w) \/ IndexJob(w) \/ ReadJobForMerge(w) \/ MergeSteps(w)
  PROVE  TypeInv'
  <1>0. RunInv
    BY TypeInvRun
  <1>1. CASE SkipNode(w)
    <2>1. run[w].pc \in PipelineStep
      BY <1>0, <1>1 DEF SkipNode, RunInv, Execution
    <2>2. run[w].r \in Recordings
      BY <2>1, PcsType, HasRecording DEF RecordingSteps
    <2>3. After[run[w].pc] \in Pcs
      BY <2>1, AfterType, PcsType
    <2>4. RunInv'
      BY <1>0, <1>1, <2>2, <2>3, GotoMoves DEF SkipNode
    <2> QED  BY <1>1, <2>4, OnlyRunChanges DEF SkipNode
  <1>2. CASE IndexJob(w)
    <2>1. job' \in Job
      BY <1>2 DEF IndexJob, TypeInv, TypeOK, Job
    <2>2. CASE At(w, "name_index") /\ NodeDone(w, "start_transcription") /\ UNCHANGED queues
      <3>1. run[w].r \in Recordings
        BY <2>2, HasRecording DEF At, RecordingSteps, NodeSteps
      <3>2. RunInv'
        BY <1>0, <2>2, <3>1, NodeDoneMoves DEF PipelineStep
      <3> QED  BY <1>2, <2>1, <2>2, <3>2, JobWritten DEF IndexJob
    <2>3. CASE At(w, "done_index") /\ Goto(w, "tasting_read") /\ UNCHANGED queues
      <3>1. run[w].r \in Recordings
        BY <2>3, HasRecording DEF At, RecordingSteps, NodeSteps
      <3>2. RunInv'
        BY <1>0, <2>3, <3>1, GotoMoves DEF Pcs, NodeSteps
      <3> QED  BY <1>2, <2>1, <2>3, <3>2, JobWritten DEF IndexJob
    <2>4. CASE At(w, "merge_index") /\ Finish(w)
      BY <1>2, <2>1, <2>4, FinishTypes DEF IndexJob, TypeInv, TypeOK, RunInv
    <2>5. CASE At(w, "reset_index") /\ Goto(w, "enter_b") /\ UNCHANGED queues
      <3>1. RunInv'
        BY <1>0, <2>5, GotoMoves DEF Pcs, HandlerSteps, RecordingSteps, NodeSteps, PipelineStep
      <3> QED  BY <1>2, <2>1, <2>5, <3>1, JobWritten DEF IndexJob
    <2> QED  BY <1>2, <2>2, <2>3, <2>4, <2>5 DEF IndexJob
  <1>3. CASE ReadJobForMerge(w)
    <2>1. CASE Quit(w) /\ UNCHANGED queues
      BY <1>0, <1>3, <2>1, QuitMoves, OnlyRunChanges DEF ReadJobForMerge
    <2>2. CASE Finish(w)
      BY <1>3, <2>2, Finished DEF ReadJobForMerge
    <2>3. CASE /\ run' = [run EXCEPT ![w].rev = job.rev, ![w].steps = job.steps,
                                     ![w].pc = "merge_patch"]
               /\ UNCHANGED queues
      <3> DEFINE e == [run[w] EXCEPT !.rev = job.rev, !.steps = job.steps, !.pc = "merge_patch"]
      <3>1. job.rev \in Nat \union {unseen} /\ job.steps \in SUBSET PipelineStep
        BY DEF TypeInv, TypeOK, Job
      <3>2. run[w] \in Execution /\ "merge_patch" \in Pcs
        BY <1>0 DEF RunInv, Pcs, HandlerSteps
      <3>3. e \in Execution
        BY <3>1, <3>2, ResumeType, Zenon
      <3>4. e.pc \notin RecordingSteps
        BY <1>0 DEF RunInv, Execution, RecordingSteps, NodeSteps, PipelineStep
      <3>5. run' = [run EXCEPT ![w] = e]
        BY <2>3
      <3> HIDE DEF e
      <3>6. RunInv'
        BY <1>0, <3>3, <3>4, <3>5, ExecutionMoves
      <3> QED  BY <1>3, <2>3, <3>6, OnlyRunChanges DEF ReadJobForMerge
    <2> QED  BY <1>3, <2>1, <2>2, <2>3 DEF ReadJobForMerge
  <1>4. CASE MergeSteps(w)
    <2>1. RunInv'
      BY <1>0, <1>4, GotoMoves, QuitMoves
      DEF MergeSteps, Pcs, HandlerSteps, RecordingSteps, NodeSteps, PipelineStep
    <2>2. run[w].steps \union run[w].fresh \in SUBSET PipelineStep
      BY <1>0 DEF RunInv, Execution
    <2>3. [job EXCEPT !.steps = run[w].steps \union run[w].fresh, !.rev = @ + 1] \in Job
      <3>1. job \in Job /\ job.rev + 1 \in Nat
        BY RevType DEF TypeInv, TypeOK
      <3> QED  BY <2>2, <3>1, JobPatched, Zenon
    <2>4. job' \in Job
      BY <1>4, <2>3 DEF MergeSteps, TypeInv, TypeOK
    <2> QED  BY <1>4, <2>1, <2>4, JobWritten DEF MergeSteps
  <1> QED  BY <1>1, <1>2, <1>3, <1>4

LEMMA TriggerTypes ==
  ASSUME TypeInv, NEW w \in Workers,
         PutJob(w) \/ MarkTranscribing(w) \/ EnterSessionA(w) \/ MarkAnalyzing(w) \/ EnterSessionB(w)
  PROVE  TypeInv'
  <1>0. RunInv
    BY TypeInvRun
  <1>1. CASE PutJob(w)
    <2>1. run[w].r \in Recordings
      BY <1>1, HasRecording DEF PutJob, At, RecordingSteps
    <2>2. RunInv'
      BY <1>0, <1>1, <2>1, GotoMoves DEF PutJob, Pcs, HandlerSteps
    <2>3. job' \in Job
      BY <1>1 DEF PutJob, NewJob, NoJob, Job, JobStatus
    <2> QED  BY <1>1, <2>2, <2>3, JobWritten DEF PutJob
  <1>2. CASE MarkTranscribing(w)
    <2>1. run[w].r \in Recordings
      BY <1>2, HasRecording DEF MarkTranscribing, At, RecordingSteps
    <2>2. RunInv'
      BY <1>0, <1>2, <2>1, GotoMoves DEF MarkTranscribing, Pcs, HandlerSteps
    <2>3. job' \in Job
      BY <1>2 DEF MarkTranscribing, TypeInv, TypeOK, Job, JobStatus
    <2> QED  BY <1>2, <2>2, <2>3, JobWritten DEF MarkTranscribing
  <1>3. CASE EnterSessionA(w)
    <2>1. CASE Quit(w) /\ UNCHANGED queues
      BY <1>0, <1>3, <2>1, QuitMoves, OnlyRunChanges DEF EnterSessionA
    <2>2. CASE Finish(w)
      BY <1>3, <2>2, Finished DEF EnterSessionA
    <2>3. CASE /\ run' = [run EXCEPT ![w].steps = job.steps, ![w].pc = "ensure_job"]
               /\ UNCHANGED queues
      <3> DEFINE e == [run[w] EXCEPT !.steps = job.steps, !.pc = "ensure_job"]
      <3>1. job.steps \in SUBSET PipelineStep
        BY DEF TypeInv, TypeOK, Job
      <3>2. e \in Execution
        <4>1. run[w] \in Execution /\ "ensure_job" \in Pcs
          BY <1>0 DEF RunInv, Pcs, NodeSteps, PipelineStep
        <4> QED  BY <3>1, <4>1, ResumeType, Zenon
      <3>3. e.r \in Recordings
        BY <1>0, <1>3, HasRecording DEF EnterSessionA, At, RecordingSteps, RunInv, Execution
      <3>4. RunInv'
        BY <1>0, <2>3, <3>2, <3>3, ExecutionMoves
      <3> QED  BY <1>3, <2>3, <3>4, OnlyRunChanges DEF EnterSessionA
    <2> QED  BY <1>3, <2>1, <2>2, <2>3 DEF EnterSessionA
  <1>4. CASE MarkAnalyzing(w)
    <2>1. RunInv'
      BY <1>0, <1>4, GotoMoves, QuitMoves
      DEF MarkAnalyzing, Pcs, HandlerSteps, RecordingSteps, NodeSteps, PipelineStep
    <2>2. job' \in Job
      BY <1>4 DEF MarkAnalyzing, TypeInv, TypeOK, Job, JobStatus
    <2> QED  BY <1>4, <2>1, <2>2, JobWritten DEF MarkAnalyzing
  <1>5. CASE EnterSessionB(w)
    <2> DEFINE r == IF run[w].r # NoRec THEN run[w].r ELSE job.rec
    <2>1. CASE Quit(w) /\ UNCHANGED queues
      BY <1>0, <1>5, <2>1, QuitMoves, OnlyRunChanges DEF EnterSessionB
    <2>2. CASE Finish(w)
      BY <1>5, <2>2, Finished DEF EnterSessionB
    <2>3. CASE /\ r # NoRec
               /\ run' = [run EXCEPT ![w].r = r, ![w].steps = job.steps, ![w].pc = "load_state"]
               /\ UNCHANGED queues
      <3> DEFINE e == [run[w] EXCEPT !.r = r, !.steps = job.steps, !.pc = "load_state"]
      <3>1. job.steps \in SUBSET PipelineStep
        BY DEF TypeInv, TypeOK, Job
      <3>2. r \in Recordings
        BY <1>0, <2>3 DEF RunInv, Execution, TypeInv, TypeOK, Job
      <3>3. run[w] \in Execution /\ "load_state" \in Pcs
        BY <1>0 DEF RunInv, Pcs, NodeSteps, PipelineStep
      <3>4. run' = [run EXCEPT ![w] = e]
        BY <2>3
      <3>5. RunInv'
        <4> HIDE DEF r
        <4>1. e \in Execution
          BY <3>1, <3>2, <3>3, ResumeType
        <4>2. e.r = r
          BY <3>3 DEF Execution
        <4> QED  BY <1>0, <3>2, <3>4, <4>1, <4>2, ExecutionMoves
      <3> QED  BY <1>5, <2>3, <3>5, OnlyRunChanges DEF EnterSessionB
    <2> QED  BY <1>5, <2>1, <2>2, <2>3 DEF EnterSessionB
  <1> QED  BY <1>1, <1>2, <1>3, <1>4, <1>5
\* load_state and sommelier_analysis also fill in what the session carries.
LEMMA ToldType ==
  \A e \in Execution, pc \in Pcs, b \in BOOLEAN :
      [e EXCEPT !.named = b, !.pc = pc] \in Execution
  BY DEF Execution, Pcs

LEMMA AnsweredType ==
  \A e \in Execution, pc \in Pcs, B \in SUBSET Input, S \in SUBSET PipelineStep :
      /\ [e EXCEPT !.output = TRUE, !.basis = B, !.fresh = S, !.pc = pc] \in Execution
      /\ [e EXCEPT !.output = TRUE, !.basis = B, !.fresh = S, !.pc = pc].r = e.r
  <1> TAKE e \in Execution, pc \in Pcs, B \in SUBSET Input, S \in SUBSET PipelineStep
  <1>1. [e EXCEPT !.output = TRUE, !.basis = B, !.fresh = S, !.pc = pc] \in Execution
    <2>1. \A d \in Execution : [d EXCEPT !.output = TRUE, !.basis = B] \in Execution
      BY DEF Execution
    <2>2. \A d \in Execution : [d EXCEPT !.fresh = S, !.pc = pc] \in Execution
      BY DEF Execution, Pcs
    <2> QED  BY <2>1, <2>2, Zenon
  <1>2. [e EXCEPT !.output = TRUE, !.basis = B, !.fresh = S, !.pc = pc].r = e.r
    BY SMTT(30) DEF Execution
  <1> QED  BY <1>1, <1>2

LEMMA SessionBTypes ==
  ASSUME TypeInv, NEW w \in Workers, SessionB(w)
  PROVE  TypeInv'
  <1>0. RunInv
    BY TypeInvRun
  <1>1. CASE LoadJob(w)
    <2>1. run[w].r \in Recordings
      BY <1>1, HasRecording DEF LoadJob, Runs, At, RecordingSteps, NodeSteps, PipelineStep
    <2>2. CASE NodeFails(w)
      BY <1>0, <1>1, <2>2, NodeFailsMoves, OnlyRunChanges DEF LoadJob
    <2>3. CASE run' = [run EXCEPT ![w].named = job.named, ![w].pc = "load_recording"]
      <3> DEFINE e == [run[w] EXCEPT !.named = job.named, !.pc = "load_recording"]
      <3>1. job.named \in BOOLEAN /\ "load_recording" \in Pcs /\ run[w] \in Execution
        BY <1>0 DEF TypeInv, TypeOK, Job, RunInv, Pcs, NodeSteps
      <3>2. e \in Execution
        BY <3>1, ToldType, Zenon
      <3>3. e.r = run[w].r
        BY <3>1 DEF Execution
      <3>4. RunInv'
        BY <1>0, <2>1, <2>3, <3>2, <3>3, ExecutionMoves
      <3> QED  BY <1>1, <3>4, OnlyRunChanges DEF LoadJob
    <2> QED  BY <1>1, <2>2, <2>3 DEF LoadJob
  <1>2. CASE LoadRecording(w)
    <2>1. run[w].r \in Recordings
      BY <1>2, HasRecording DEF LoadRecording, At, RecordingSteps, NodeSteps
    <2>2. recs[run[w].r].rev \in Nat \union {unseen}
      BY <2>1, RevType DEF unseen
    <2>3. RunInv'
      BY <1>0, <1>2, <2>1, <2>2, NodeDoneMoves, NodeFailsMoves, SeenMoves DEF LoadRecording, Pcs, NodeSteps, PipelineStep
    <2> QED  BY <1>2, <2>3, OnlyRunChanges DEF LoadRecording
  <1>3. CASE PatchTranscript(w)
    <2>1. run[w].r \in Recordings
      BY <1>3, HasRecording DEF PatchTranscript, At, RecordingSteps, NodeSteps
    <2>2. RunInv'
      BY <1>0, <1>3, <2>1, NodeDoneMoves, NodeFailsMoves DEF PatchTranscript, PipelineStep
    <2>3. recs' \in [Recordings -> Recording]
      <3>1. recs \in [Recordings -> Recording]
        BY DEF TypeInv, TypeOK
      <3>2. [recs EXCEPT ![run[w].r].transcript = TRUE, ![run[w].r].rev = @ + 1]
                \in [Recordings -> Recording]
        BY <2>1, <3>1, RecordingPatched, Zenon
      <3> QED  BY <1>3, <3>1, <3>2 DEF PatchTranscript
    <2> QED  BY <1>3, <2>2, <2>3, RecsWritten DEF PatchTranscript
  <1>4. CASE ReadForSpeakers(w)
    <2>1. run[w].r \in Recordings
      BY <1>4, HasRecording DEF ReadForSpeakers, Runs, At, RecordingSteps, NodeSteps, PipelineStep
    <2>2. recs[run[w].r].rev \in Nat \union {unseen}
      BY <2>1, RevType DEF unseen
    <2>3. RunInv'
      BY <1>0, <1>4, <2>1, <2>2, NodeFailsMoves, SeenMoves DEF ReadForSpeakers, Pcs, NodeSteps, PipelineStep
    <2> QED  BY <1>4, <2>3, OnlyRunChanges DEF ReadForSpeakers
  <1>5. CASE PatchSpeakers(w)
    <2>1. run[w].r \in Recordings
      BY <1>5, HasRecording DEF PatchSpeakers, At, RecordingSteps, NodeSteps
    <2>2. RunInv'
      BY <1>0, <1>5, <2>1, NodeDoneMoves, NodeFailsMoves DEF PatchSpeakers, PipelineStep
    <2>3. recs' \in [Recordings -> Recording]
      <3>1. recs \in [Recordings -> Recording]
        BY DEF TypeInv, TypeOK
      <3>2. [recs EXCEPT ![run[w].r].speakers = "auto", ![run[w].r].rev = @ + 1]
                \in [Recordings -> Recording]
        BY <2>1, <3>1, RecordingPatched, Zenon
      <3> QED  BY <1>5, <3>1, <3>2 DEF PatchSpeakers
    <2> QED  BY <1>5, <2>2, <2>3, RecsWritten DEF PatchSpeakers
  <1>6. CASE SommelierAnalysis(w)
    <2> DEFINE B == {i \in Input : IF i = "transcript" THEN recs[run[w].r].transcript
                                                       ELSE recs[run[w].r].acoustic}
               s == "sommelier_analysis"
               e == [run[w] EXCEPT !.output = TRUE, !.basis = B,
                                   !.fresh = run[w].fresh \union {s}, !.pc = After[s]]
    <2>1. run[w].r \in Recordings
      BY <1>6, HasRecording DEF SommelierAnalysis, Runs, At, RecordingSteps, NodeSteps, PipelineStep
    <2>2. CASE NodeFails(w)
      BY <1>0, <1>6, <2>2, NodeFailsMoves, OnlyRunChanges DEF SommelierAnalysis
    <2>3. CASE run' = [run EXCEPT ![w] = e]
      <3>1. /\ B \in SUBSET Input /\ run[w] \in Execution /\ After[s] \in Pcs
            /\ run[w].fresh \union {s} \in SUBSET PipelineStep
        BY <1>0, AfterType, PcsType DEF RunInv, Execution, PipelineStep
      <3>2. e \in Execution /\ e.r = run[w].r
        <4> HIDE DEF B, s
        <4>1. e \in Execution
          BY <3>1, AnsweredType, Zenon
        <4>2. e.r = run[w].r
          BY <3>1 DEF Execution
        <4> QED  BY <4>1, <4>2
      <3>3. RunInv'
        <4> HIDE DEF e
        <4> QED  BY <1>0, <2>1, <2>3, <3>2, ExecutionMoves
      <3> QED  BY <1>6, <3>3, OnlyRunChanges DEF SommelierAnalysis
    <2> QED  BY <1>6, <2>2, <2>3 DEF SommelierAnalysis
  <1>7. CASE ConditionalNode(w)
    <2>1. PICK s \in {"refresh_taste_profile", "run_discovery"} :
              Runs(w, s) /\ (NodeDone(w, s) \/ Goto(w, After[s]))
      BY <1>7 DEF ConditionalNode
    <2>2. s \in PipelineStep /\ s \in RecordingSteps /\ After[s] \in Pcs
      BY AfterType, PcsType DEF PipelineStep, RecordingSteps
    <2>3. run[w].r \in Recordings
      BY <2>1, <2>2, HasRecording DEF Runs, At
    <2>4. RunInv'
      BY <1>0, <2>1, <2>2, <2>3, NodeDoneMoves, GotoMoves
    <2> QED  BY <1>7, <2>4, OnlyRunChanges DEF ConditionalNode
  <1>8. CASE ReadAnalysis(w)
    <2>1. run[w].r \in Recordings
      BY <1>8, HasRecording DEF ReadAnalysis, Runs, At, RecordingSteps, NodeSteps, PipelineStep
    <2>2. (IF analysis.exists THEN analysis.rev ELSE unseen) \in Nat \union {unseen}
      BY <2>1, RevType DEF unseen
    <2>3. RunInv'
      BY <1>0, <1>8, <2>1, <2>2, NodeFailsMoves, SeenMoves DEF ReadAnalysis, Pcs, NodeSteps, PipelineStep
    <2> QED  BY <1>8, <2>3, OnlyRunChanges DEF ReadAnalysis
  <1>9. CASE WriteAnalysis(w)
    <2>1. run[w].r \in Recordings
      BY <1>9, HasRecording DEF WriteAnalysis, At, RecordingSteps, NodeSteps
    <2>2. RunInv'
      BY <1>0, <1>9, <2>1, GotoMoves, NodeFailsMoves DEF WriteAnalysis, Pcs, NodeSteps
    <2>3. analysis' \in Analysis
      <3>1. run[w].basis \in SUBSET Input /\ analysis \in Analysis /\ analysis.rev + 1 \in Nat
        BY <1>0, RevType DEF RunInv, Execution, TypeInv, TypeOK
      <3>2. \A d \in Analysis, b \in SUBSET Input, n \in Nat :
                [d EXCEPT !.basis = b, !.rev = n] \in Analysis
        BY DEF Analysis
      <3>3. [analysis EXCEPT !.basis = run[w].basis, !.rev = @ + 1] \in Analysis
        BY <3>1, <3>2, Zenon
      <3>4. [NoAnalysis EXCEPT !.exists = TRUE, !.basis = run[w].basis] \in Analysis
        BY <3>1 DEF NoAnalysis, Analysis
      <3> QED  BY <1>9, <3>1, <3>3, <3>4 DEF WriteAnalysis
    <2> QED  BY <1>9, <2>2, <2>3, AnalysisWritten DEF WriteAnalysis
  <1>10. CASE ReadJobForDone(w)
    <2>1. run[w].r \in Recordings
      BY <1>10, HasRecording DEF ReadJobForDone, At, RecordingSteps, NodeSteps
    <2>2. job.rev \in Nat \union {unseen}
      BY <2>1, RevType DEF unseen
    <2>3. RunInv'
      BY <1>0, <1>10, <2>1, <2>2, GotoMoves, NodeFailsMoves, SeenMoves DEF ReadJobForDone, Pcs, NodeSteps, PipelineStep
    <2> QED  BY <1>10, <2>3, OnlyRunChanges DEF ReadJobForDone
  <1>11. CASE PatchJobDone(w)
    <2>1. run[w].r \in Recordings
      BY <1>11, HasRecording DEF PatchJobDone, At, RecordingSteps, NodeSteps
    <2>2. RunInv'
      BY <1>0, <1>11, <2>1, GotoMoves, NodeFailsMoves DEF PatchJobDone, Pcs, NodeSteps
    <2>3. job' \in Job
      <3>1. job \in Job /\ job.rev + 1 \in Nat /\ "completed" \in JobStatus
        BY RevType DEF TypeInv, TypeOK, JobStatus
      <3>2. [job EXCEPT !.status = "completed", !.rev = @ + 1] \in Job
        BY <3>1, JobPatched, Zenon
      <3> QED  BY <1>11, <3>1, <3>2 DEF PatchJobDone
    <2> QED  BY <1>11, <2>2, <2>3, JobWritten DEF PatchJobDone
  <1>12. CASE ReadTasting(w)
    <2>1. run[w].r \in Recordings
      BY <1>12, HasRecording DEF ReadTasting, At, RecordingSteps, NodeSteps
    <2>2. tasting.rev \in Nat \union {unseen}
      BY <2>1, RevType DEF unseen
    <2>3. RunInv'
      BY <1>0, <1>12, <2>1, <2>2, GotoMoves, SeenMoves DEF ReadTasting, Pcs, NodeSteps, PipelineStep
    <2> QED  BY <1>12, <2>3, OnlyRunChanges DEF ReadTasting
  <1>13. CASE PatchTasting(w)
    <2>1. run[w].r \in Recordings
      BY <1>13, HasRecording DEF PatchTasting, At, RecordingSteps, NodeSteps
    <2>2. RunInv'
      BY <1>0, <1>13, <2>1, GotoMoves, NodeFailsMoves DEF PatchTasting, Pcs, NodeSteps
    <2>3. tasting' \in Tasting
      <3>1. tasting \in Tasting /\ tasting.rev + 1 \in Nat
        BY RevType DEF TypeInv, TypeOK
      <3>2. \A d \in Tasting, n \in Nat : [d EXCEPT !.ready = TRUE, !.rev = n] \in Tasting
        BY DEF Tasting
      <3>3. [tasting EXCEPT !.ready = TRUE, !.rev = @ + 1] \in Tasting
        BY <3>1, <3>2, Zenon
      <3> QED  BY <1>13, <3>1, <3>3 DEF PatchTasting
    <2> QED  BY <1>13, <2>2, <2>3, TastingWritten DEF PatchTasting
  <1>14. CASE Publish(w)
    <2>1. run[w].r \in Recordings
      BY <1>14, HasRecording DEF Publish, At, RecordingSteps, NodeSteps
    <2>2. RunInv'
      BY <1>0, <1>14, <2>1, NodeDoneMoves DEF Publish, Pcs, NodeSteps, PipelineStep
    <2> QED  BY <1>14, <2>2, OnlyRunChanges DEF Publish
  <1> QED
    BY <1>1, <1>2, <1>3, <1>4, <1>5, <1>6, <1>7, <1>8, <1>9, <1>10, <1>11, <1>12, <1>13, <1>14
    DEF SessionB
LEMMA EventTypes ==
  ASSUME TypeInv, NEW w \in Workers, NEW r \in Recordings, TriggerTranscribe(w, r)
  PROVE  TypeInv'
  <1> DEFINE e == [Idle EXCEPT !.via = "event", !.r = r, !.pc = "mark_analyzing"]
  <1>1. RunInv'
    <2>1. e \in Execution /\ e.r = r
      BY IdleType DEF Idle, Execution, HandlerSteps
    <2>2. run' = run \/ run' = [run EXCEPT ![w] = e]
      BY DEF TriggerTranscribe
    <2>3. CASE run' = run
      BY <2>3, TypeInvRun DEF RunInv, OnRecording
    <2>4. CASE run' = [run EXCEPT ![w] = e]
      BY <2>1, <2>4, TypeInvRun, ExecutionMoves
    <2> QED  BY <2>2, <2>3, <2>4
  <1>2. events' \in [Recordings -> Delivery]
    <2>1. (events[r].acked \/ job.form = "none") \in BOOLEAN
      OBVIOUS
    <2>2. [events EXCEPT ![r].got = @ + 1, ![r].acked = events[r].acked \/ job.form = "none"]
              \in [Recordings -> Delivery]
      BY <2>1, ReceivedType DEF TypeInv, TypeOK
    <2> QED  BY <2>2 DEF TriggerTranscribe
  <1> QED
    BY <1>1, <1>2 DEF TypeInv, TypeOK, RunInv, TriggerTranscribe, items

LEMMA BudgetType ==
  \A b \in Budget, n \in Nat :
      /\ [b EXCEPT !.crashes = n] \in Budget
      /\ [b EXCEPT !.nodeFaults = n] \in Budget
      /\ [b EXCEPT !.reanalyses = n] \in Budget
      /\ [b EXCEPT !.edits = n] \in Budget
      /\ [b EXCEPT !.deletes = n] \in Budget
  BY DEF Budget

LEMMA SpentType ==
  ASSUME TypeInv
  PROVE  /\ left.crashes > 0 => [left EXCEPT !.crashes = @ - 1] \in Budget
         /\ left.nodeFaults > 0 => [left EXCEPT !.nodeFaults = @ - 1] \in Budget
         /\ left.reanalyses > 0 => [left EXCEPT !.reanalyses = @ - 1] \in Budget
         /\ left.edits > 0 => [left EXCEPT !.edits = @ - 1] \in Budget
         /\ left.deletes > 0 => [left EXCEPT !.deletes = @ - 1] \in Budget
  <1>1. left \in Budget
    BY DEF TypeInv, TypeOK
  <1>2. /\ left.crashes > 0 => left.crashes - 1 \in Nat
        /\ left.nodeFaults > 0 => left.nodeFaults - 1 \in Nat
        /\ left.reanalyses > 0 => left.reanalyses - 1 \in Nat
        /\ left.edits > 0 => left.edits - 1 \in Nat
        /\ left.deletes > 0 => left.deletes - 1 \in Nat
    BY <1>1 DEF Budget
  <1> QED  BY <1>1, <1>2, BudgetType, Zenon

LEMMA ServiceTypes ==
  ASSUME TypeInv, NEW r \in Recordings, Upload(r) \/ TranscribeEnds(r)
  PROVE  TypeInv'
  <1>0. RunInv
    BY TypeInvRun
  <1>1. \A f \in [Recordings -> Delivery] : [f EXCEPT ![r].sent = TRUE] \in [Recordings -> Delivery]
    BY DEF Delivery
  <1>2. CASE Upload(r)
    <2>1. uploads' \in [Recordings -> Delivery]
      BY <1>1, <1>2 DEF Upload, TypeInv, TypeOK
    <2> QED
      BY <1>2, <2>1 DEF Upload, items, TypeInv, TypeOK, OnRecording
  <1>3. CASE TranscribeEnds(r)
    <2>1. events' \in [Recordings -> Delivery]
      BY <1>1, <1>3 DEF TranscribeEnds, TypeInv, TypeOK
    <2>2. transcribe' \in [Recordings -> {"none", "running", "COMPLETED", "FAILED"}]
      BY <1>3 DEF TranscribeEnds, TypeInv, TypeOK
    <2>3. left' \in Budget
      BY <1>3, SpentType DEF TranscribeEnds, TypeInv, TypeOK
    <2> QED
      BY <1>3, <2>1, <2>2, <2>3 DEF TranscribeEnds, items, TypeInv, TypeOK, OnRecording
  <1> QED  BY <1>2, <1>3

LEMMA RouteTypes ==
  ASSUME TypeInv, NEW w \in Workers, Reanalyze(w) \/ ResetJob(w) \/ ResetJobPut(w)
  PROVE  TypeInv'
  <1>0. RunInv
    BY TypeInvRun
  <1>1. CASE Reanalyze(w)
    <2> DEFINE rev == IF job.form = "full" THEN job.rev ELSE unseen
               pc == IF job.form = "full" THEN "reset_patch" ELSE "reset_put"
               e == [Idle EXCEPT !.via = "route", !.rev = rev, !.pc = pc]
    <2>1. left' \in Budget
      BY <1>1, SpentType DEF Reanalyze
    <2>2. RunInv'
      <3>1. CASE run' = run
        BY <1>0, <3>1 DEF RunInv, OnRecording
      <3>2. CASE run' = [run EXCEPT ![w] = e]
        <4>1. rev \in Nat \union {unseen} /\ pc \in HandlerSteps /\ pc \notin RecordingSteps
          BY RevType DEF HandlerSteps, RecordingSteps, NodeSteps, PipelineStep
        <4>2. e \in Execution /\ e.pc = pc
          <5> HIDE DEF rev, pc
          <5> QED  BY <4>1 DEF Idle, Execution
        <4> QED  BY <1>0, <3>2, <4>1, <4>2, ExecutionMoves
      <3> QED  BY <1>1, <3>1, <3>2 DEF Reanalyze
    <2> QED  BY <1>1, <2>1, <2>2 DEF Reanalyze, items, queues, TypeInv, TypeOK, RunInv
  <1>2. CASE ResetJob(w)
    <2>1. RunInv'
      BY <1>0, <1>2, GotoMoves, QuitMoves
      DEF ResetJob, Pcs, HandlerSteps, RecordingSteps, NodeSteps, PipelineStep
    <2>2. job' \in Job
      <3>1. job \in Job /\ job.rev + 1 \in Nat /\ "queued" \in JobStatus
        BY RevType DEF TypeInv, TypeOK, JobStatus
      <3>2. [job EXCEPT !.status = "queued", !.steps = {}, !.rev = @ + 1] \in Job
        BY <3>1, JobPatched, Zenon
      <3> QED  BY <1>2, <3>1, <3>2 DEF ResetJob
    <2> QED  BY <1>2, <2>1, <2>2, JobWritten DEF ResetJob
  <1>3. CASE ResetJobPut(w)
    <2>1. RunInv'
      BY <1>0, <1>3, GotoMoves
      DEF ResetJobPut, Pcs, HandlerSteps, RecordingSteps, NodeSteps, PipelineStep
    <2>2. job' \in Job
      BY <1>3 DEF ResetJobPut, NewJob, NoJob, Job, JobStatus
    <2> QED  BY <1>3, <2>1, <2>2, JobWritten DEF ResetJobPut
  <1> QED  BY <1>1, <1>2, <1>3

\* What a deletion still has to do may only shrink.
LEMMA DeletingType ==
  \A e \in Execution, T \in SUBSET Recordings, A \in SUBSET {"analysis", "job"} :
      /\ [e EXCEPT !.todo = T] \in Execution
      /\ [e EXCEPT !.also = A] \in Execution
      /\ [e EXCEPT !.todo = T].pc = e.pc /\ [e EXCEPT !.also = A].pc = e.pc
      /\ [e EXCEPT !.todo = T].r = e.r /\ [e EXCEPT !.also = A].r = e.r
  BY DEF Execution

LEMMA EditorTypes ==
  ASSUME TypeInv,
         \/ \E w \in Workers : StartDelete(w) \/ DeleteNext(w)
         \/ EditSummary
         \/ \E r \in Recordings : OverrideSpeakers(r)
  PROVE  TypeInv'
  <1>0. RunInv
    BY TypeInvRun
  <1>1. ASSUME NEW w \in Workers, StartDelete(w) PROVE TypeInv'
    <2> DEFINE T == {r \in Recordings : recs[r].exists}
               A == {i \in {"analysis", "job"} :
                        IF i = "job" THEN job.form = "full" ELSE analysis.exists}
               e == [Idle EXCEPT !.via = "delete", !.pc = "deleting", !.todo = T, !.also = A]
    <2>1. left' \in Budget
      BY <1>1, SpentType DEF StartDelete
    <2>2. T \in SUBSET Recordings /\ A \in SUBSET {"analysis", "job"}
      OBVIOUS
    <2>3. run' = [run EXCEPT ![w] = e]
      BY <1>1 DEF StartDelete
    <2>4. e \in Execution /\ e.pc = "deleting"
      <3> HIDE DEF T, A
      <3> QED  BY <2>2 DEF Idle, Execution, HandlerSteps
    <2>5. RunInv'
      <3> HIDE DEF e
      <3> QED  BY <1>0, <2>3, <2>4, ExecutionMoves DEF RecordingSteps, NodeSteps, PipelineStep
    <2> QED  BY <1>1, <2>1, <2>5 DEF StartDelete, items, queues, TypeInv, TypeOK, RunInv
  <1>2. ASSUME NEW w \in Workers, DeleteNext(w) PROVE TypeInv'
    <2>1. /\ run[w] \in Execution /\ run[w].pc = "deleting"
          /\ run[w].todo \in SUBSET Recordings /\ run[w].also \in SUBSET {"analysis", "job"}
      BY <1>0, <1>2 DEF DeleteNext, At, RunInv, Execution
    <2>2. "deleting" \notin RecordingSteps
      BY DEF RecordingSteps, NodeSteps, PipelineStep
    <2>3. NoJob \in Job /\ NoRecording \in Recording /\ NoAnalysis \in Analysis /\ NoTasting \in Tasting
      BY DEF NoJob, Job, NoRecording, Recording, NoAnalysis, Analysis, NoTasting, Tasting
    <2>4. /\ job' \in Job /\ recs' \in [Recordings -> Recording]
          /\ analysis' \in Analysis /\ tasting' \in Tasting
      BY <1>2, <2>3 DEF DeleteNext, TypeInv, TypeOK
    <2>5. ASSUME NEW r \in run[w].todo, run' = [run EXCEPT ![w].todo = @ \ {r}]
          PROVE  RunInv'
      <3> DEFINE e == [run[w] EXCEPT !.todo = @ \ {r}]
      <3>1. run[w].todo \ {r} \in SUBSET Recordings
        BY <2>1
      <3>2. e \in Execution /\ e.pc = run[w].pc
        BY <2>1, <3>1 DEF Execution
      <3>3. run' = [run EXCEPT ![w] = e]
        BY <2>5
      <3> HIDE DEF e
      <3> QED  BY <1>0, <2>1, <2>2, <3>2, <3>3, ExecutionMoves
    <2>6. ASSUME NEW A \in SUBSET {"analysis", "job"}, run' = [run EXCEPT ![w].also = A]
          PROVE  RunInv'
      <3> DEFINE e == [run[w] EXCEPT !.also = A]
      <3>1. e \in Execution /\ e.pc = run[w].pc
        BY <2>1 DEF Execution
      <3>2. run' = [run EXCEPT ![w] = e]
        BY <2>6
      <3> HIDE DEF e
      <3> QED  BY <1>0, <2>1, <2>2, <3>1, <3>2, ExecutionMoves
    <2>7. RunInv'
      <3>1. CASE \E r \in run[w].todo : run' = [run EXCEPT ![w].todo = @ \ {r}]
        BY <2>5, <3>1
      <3>2. CASE run' = [run EXCEPT ![w].also = @ \ {"analysis"}]
        <4>1. run[w].also \ {"analysis"} \in SUBSET {"analysis", "job"}
          BY <2>1
        <4> QED  BY <2>6, <3>2, <4>1
      <3>3. CASE run' = [run EXCEPT ![w].also = {}]
        <4>1. {} \in SUBSET {"analysis", "job"}
          OBVIOUS
        <4> QED  BY <2>6, <3>3, <4>1
      <3>4. CASE Quit(w)
        BY <1>0, <3>4, QuitMoves
      <3> QED  BY <1>2, <3>1, <3>2, <3>3, <3>4 DEF DeleteNext
    <2> QED  BY <1>2, <2>4, <2>7 DEF DeleteNext, queues, TypeInv, TypeOK, RunInv
  <1>3. CASE EditSummary
    <2>1. /\ left' \in Budget /\ analysis \in Analysis /\ tasting \in Tasting
          /\ analysis.rev + 1 \in Nat /\ tasting.rev + 1 \in Nat
      BY <1>3, SpentType, RevType DEF EditSummary, TypeInv, TypeOK
    <2>2. /\ \A d \in Analysis, n \in Nat : [d EXCEPT !.edited = TRUE, !.rev = n] \in Analysis
          /\ \A d \in Tasting, n \in Nat : [d EXCEPT !.rev = n] \in Tasting
      BY DEF Analysis, Tasting
    <2>3. [analysis EXCEPT !.edited = TRUE, !.rev = @ + 1] \in Analysis
      BY <2>1, <2>2, Zenon
    <2>4. [tasting EXCEPT !.rev = @ + 1] \in Tasting
      BY <2>1, <2>2, Zenon
    <2>5. analysis' \in Analysis /\ tasting' \in Tasting
      BY <1>3, <2>1, <2>3, <2>4 DEF EditSummary
    <2> QED  BY <1>3, <2>1, <2>5 DEF EditSummary, queues, TypeInv, TypeOK, OnRecording
  <1>4. ASSUME NEW r \in Recordings, OverrideSpeakers(r) PROVE TypeInv'
    <2>1. left' \in Budget /\ recs \in [Recordings -> Recording]
      BY <1>4, SpentType DEF OverrideSpeakers, TypeInv, TypeOK
    <2>2. [recs EXCEPT ![r].speakers = "manual", ![r].rev = @ + 1] \in [Recordings -> Recording]
      <3>1. "manual" \in {"auto", "manual"}
        OBVIOUS
      <3> QED  BY <2>1, <3>1, RecordingPatched, Zenon
    <2>3. recs' \in [Recordings -> Recording]
      BY <1>4, <2>2 DEF OverrideSpeakers
    <2> QED  BY <1>4, <2>1, <2>3 DEF OverrideSpeakers, queues, TypeInv, TypeOK, OnRecording
  <1> QED  BY <1>1, <1>2, <1>3, <1>4

LEMMA FailureTypes ==
  ASSUME TypeInv, NEW w \in Workers, Crash(w) \/ NodeFault(w)
  PROVE  TypeInv'
  <1>0. RunInv
    BY TypeInvRun
  <1>1. RunInv'
    BY <1>0, QuitMoves, NodeFailsMoves DEF Crash, NodeFault
  <1>2. left' \in Budget
    BY SpentType DEF Crash, NodeFault
  <1> QED
    BY <1>1, <1>2 DEF Crash, NodeFault, items, queues, TypeInv, TypeOK, RunInv

-----------------------------------------------------------------------------
(* Type correctness                                                        *)

LEMMA InitTypes == Init => TypeInv
  <1> SUFFICES ASSUME Init PROVE TypeInv
    OBVIOUS
  <1>1. job \in Job /\ analysis \in Analysis /\ tasting \in Tasting
    BY DEF Init, NoJob, Job, NoAnalysis, Analysis, NoTasting, Tasting
  <1>2. recs \in [Recordings -> Recording]
    BY DEF Init, NoRecording, Recording
  <1>3. /\ uploads \in [Recordings -> Delivery] /\ events \in [Recordings -> Delivery]
        /\ transcribe \in [Recordings -> {"none", "running", "COMPLETED", "FAILED"}]
    BY DEF Init, NotSent, Delivery
  <1>4. run \in [Workers -> Execution] /\ OnRecording
    BY IdleType, PcsType DEF Init, OnRecording
  <1>5. left \in Budget
    BY BoundsAssumption DEF Init, Budget
  <1> QED  BY <1>1, <1>2, <1>3, <1>4, <1>5 DEF TypeInv, TypeOK

LEMMA StepTypes == TypeInv /\ [Next]_vars => TypeInv'
  <1> SUFFICES ASSUME TypeInv, [Next]_vars PROVE TypeInv'
    OBVIOUS
  <1>1. CASE UNCHANGED vars
    BY <1>1 DEF vars, TypeInv, TypeOK, OnRecording
  <1>2. CASE \E r \in Recordings : Upload(r) \/ TranscribeEnds(r)
    BY <1>2, ServiceTypes
  <1>3. CASE \E w \in Workers, r \in Recordings : TriggerUpload(w, r) \/ TriggerTranscribe(w, r)
    BY <1>3, UploadTriggerTypes, EventTypes
  <1>4. CASE \/ \E w \in Workers : StartDelete(w) \/ DeleteNext(w)
             \/ EditSummary
             \/ \E r \in Recordings : OverrideSpeakers(r)
    BY <1>4, EditorTypes
  <1>5. CASE \E w \in Workers : Continue(w) \/ Reanalyze(w) \/ Crash(w) \/ NodeFault(w)
    BY <1>5, SharedTypes, TriggerTypes, SessionATypes, SessionBTypes, RouteTypes, EditorTypes,
       FailureTypes
    DEF Continue
  <1> QED  BY <1>1, <1>2, <1>3, <1>4, <1>5 DEF Next

\* Every value the items, the messages and the executions take is of the type
\* the schemas of packages/schemas and the handlers give it.
THEOREM TypeCorrect == Spec => []TypeOK
  <1>1. Spec => []TypeInv
    BY InitTypes, StepTypes, PTL DEF Spec
  <1>2. TypeInv => TypeOK
    BY DEF TypeInv
  <1> QED  BY <1>1, <1>2, PTL
-----------------------------------------------------------------------------
(* What is stored stays stored, unless it is deleted                       *)

\* Only deletion takes anything away.
Grows ==
    /\ \A r \in Recordings :
          /\ transcribe[r] # "none" => transcribe'[r] # "none"
          /\ recs[r].exists => recs'[r].exists
          /\ recs[r].acoustic => recs'[r].acoustic
          /\ recs[r].transcript => recs'[r].transcript
          /\ recs[r].speakers # "none" => recs'[r].speakers # "none"
    /\ analysis.exists => analysis'.exists

\* No write brings a recording or the tasting back, or removes the tasting.
SameItems ==
    /\ \A r \in Recordings : recs'[r].exists => recs[r].exists
    /\ tasting'.exists = tasting.exists

\* Only w moves, and not into a deletion.
Alone(w) ==
    /\ \A v \in Workers \ {w} : run'[v] = run[v]
    /\ run'[w].pc # "deleting"

LEMMA GotoAlone ==
  ASSUME RunInv, NEW w \in Workers, NEW pc, Goto(w, pc), pc # "deleting"
  PROVE  Alone(w)
  BY DEF RunInv, Goto, Alone, Execution

LEMMA SeenAlone ==
  ASSUME RunInv, NEW w \in Workers, NEW pc, NEW rev, Seen(w, rev, pc), pc # "deleting"
  PROVE  Alone(w)
  BY DEF RunInv, Seen, Alone, Execution

LEMMA NodeDoneAlone ==
  ASSUME RunInv, NEW w \in Workers, NEW s \in PipelineStep, NodeDone(w, s)
  PROVE  Alone(w)
  <1>1. After[s] # "deleting"
    BY AfterType DEF PipelineStep
  <1> QED  BY <1>1 DEF RunInv, NodeDone, Alone, Execution

LEMMA NodeFailsAlone ==
  ASSUME RunInv, NEW w \in Workers, NodeFails(w)
  PROVE  Alone(w)
  BY DEF RunInv, NodeFails, Alone, Execution

LEMMA QuitAlone ==
  ASSUME RunInv, NEW w \in Workers, Quit(w)
  PROVE  Alone(w)
  BY IdleType DEF RunInv, Quit, Alone

LEMMA SessionAEffect ==
  ASSUME TypeInv, NEW w \in Workers, SessionA(w)
  PROVE  Alone(w) /\ Grows /\ SameItems
  <1>0. RunInv
    BY TypeInvRun
  <1>1. Alone(w)
    BY <1>0, GotoAlone, SeenAlone, NodeDoneAlone, NodeFailsAlone
    DEF SessionA, EnsureJob, EnsureJobPut, CheckTranscription, StartTranscription, ReadJobForName,
        PatchJobName, ReadAcoustic, PatchAcoustic, PipelineStep
  <1>2. Grows
    BY DEF SessionA, EnsureJob, EnsureJobPut, CheckTranscription, StartTranscription, ReadJobForName,
        PatchJobName, ReadAcoustic, PatchAcoustic, items, queues, Grows, TypeInv, TypeOK, Recording
  <1>3. SameItems
    BY DEF SessionA, EnsureJob, EnsureJobPut, CheckTranscription, StartTranscription, ReadJobForName,
        PatchJobName, ReadAcoustic, PatchAcoustic, items, SameItems, TypeInv, TypeOK, Recording
  <1> QED  BY <1>1, <1>2, <1>3
LEMMA SessionBEffect ==
  ASSUME TypeInv, NEW w \in Workers, SessionB(w)
  PROVE  Alone(w) /\ Grows /\ SameItems
  <1>0. RunInv
    BY TypeInvRun
  <1>1. CASE LoadJob(w) \/ LoadRecording(w) \/ PatchTranscript(w)
             \/ ReadForSpeakers(w) \/ PatchSpeakers(w)
    <2>1. Alone(w)
      <3>1. CASE run' = [run EXCEPT ![w].named = job.named, ![w].pc = "load_recording"]
        BY <1>0, <3>1 DEF RunInv, Alone, Execution
      <3> QED
        BY <1>0, <1>1, <3>1, SeenAlone, NodeDoneAlone, NodeFailsAlone
        DEF LoadJob, LoadRecording, PatchTranscript, ReadForSpeakers, PatchSpeakers, PipelineStep
    <2>2. Grows /\ SameItems
      <3>0. ASSUME UNCHANGED <<analysis, tasting, transcribe>>,
                   \A r \in Recordings :
                      /\ recs'[r].exists = recs[r].exists /\ recs'[r].acoustic = recs[r].acoustic
                      /\ recs[r].transcript => recs'[r].transcript
                      /\ recs'[r].speakers \in {recs[r].speakers, "auto"}
            PROVE  Grows /\ SameItems
        BY ONLY <3>0 DEF Grows, SameItems
      <3>2. CASE UNCHANGED <<items, queues, left>>
        <4>1. UNCHANGED <<analysis, tasting, transcribe>> /\ recs' = recs
          BY <3>2 DEF items, queues
        <4> QED  BY ONLY <3>0, <4>1
      <3>t. recs \in [Recordings -> Recording]
        BY DEF TypeInv, TypeOK
      <3>3. CASE PatchTranscript(w)
        <4>1. UNCHANGED <<analysis, tasting, transcribe>>
          BY <3>3 DEF PatchTranscript, queues
        <4>2. recs' = recs \/ recs' = [recs EXCEPT ![run[w].r].transcript = TRUE, ![run[w].r].rev = @ + 1]
          BY <3>3, Zenon DEF PatchTranscript
        <4>3. CASE recs' = recs
          BY ONLY <3>0, <4>1, <4>3
        <4>4. CASE recs' = [recs EXCEPT ![run[w].r].transcript = TRUE, ![run[w].r].rev = @ + 1]
          <5>1. \A r \in Recordings :
                   /\ recs'[r].exists = recs[r].exists /\ recs'[r].acoustic = recs[r].acoustic
                   /\ recs[r].transcript => recs'[r].transcript
                   /\ recs'[r].speakers = recs[r].speakers
            BY ONLY <3>t, <4>4 DEF Recording
          <5> QED  BY ONLY <3>0, <4>1, <5>1
        <4> QED  BY <4>2, <4>3, <4>4
      <3>4. CASE PatchSpeakers(w)
        <4>1. UNCHANGED <<analysis, tasting, transcribe>>
          BY <3>4 DEF PatchSpeakers, queues
        <4>2. recs' = recs \/ recs' = [recs EXCEPT ![run[w].r].speakers = "auto", ![run[w].r].rev = @ + 1]
          BY <3>4, Zenon DEF PatchSpeakers
        <4>3. CASE recs' = recs
          BY ONLY <3>0, <4>1, <4>3
        <4>4. CASE recs' = [recs EXCEPT ![run[w].r].speakers = "auto", ![run[w].r].rev = @ + 1]
          <5>1. \A r \in Recordings :
                   /\ recs'[r].exists = recs[r].exists /\ recs'[r].acoustic = recs[r].acoustic
                   /\ recs'[r].transcript = recs[r].transcript
                   /\ recs'[r].speakers \in {recs[r].speakers, "auto"}
            BY ONLY <3>t, <4>4 DEF Recording
          <5> QED  BY ONLY <3>0, <4>1, <5>1
        <4> QED  BY <4>2, <4>3, <4>4
      <3> QED  BY <1>1, <3>2, <3>3, <3>4, Zenon DEF LoadJob, LoadRecording, ReadForSpeakers
    <2> QED  BY <2>1, <2>2
  <1>2. CASE SommelierAnalysis(w) \/ ConditionalNode(w) \/ ReadAnalysis(w)
    <2>1. Alone(w)
      <3>1. \A s \in PipelineStep : After[s] # "deleting"
        BY AfterType DEF PipelineStep
      <3>2. CASE SommelierAnalysis(w)
        <4>1. CASE NodeFails(w)
          BY <1>0, <4>1, NodeFailsAlone
        <4>2. CASE ~NodeFails(w)
          <5>1. After["sommelier_analysis"] # "deleting"
            BY <3>1 DEF PipelineStep
          <5>2. run'[w].pc = After["sommelier_analysis"] /\ \A v \in Workers \ {w} : run'[v] = run[v]
            <6> DEFINE B == {i \in Input : IF i = "transcript" THEN recs[run[w].r].transcript
                                                              ELSE recs[run[w].r].acoustic}
            <6>1. run' = [run EXCEPT ![w].output = TRUE, ![w].basis = B,
                                     ![w].fresh = @ \union {"sommelier_analysis"},
                                     ![w].pc = After["sommelier_analysis"]]
              BY <3>2, <4>2 DEF SommelierAnalysis
            <6> HIDE DEF B
            <6> QED  BY <1>0, <6>1 DEF RunInv, Execution
          <5> QED  BY <5>1, <5>2 DEF Alone
        <4> QED  BY <4>1, <4>2
      <3>3. CASE ConditionalNode(w)
        BY <1>0, <3>1, <3>3, GotoAlone, NodeDoneAlone DEF ConditionalNode, PipelineStep
      <3>4. CASE ReadAnalysis(w)
        BY <1>0, <3>4, SeenAlone, NodeFailsAlone DEF ReadAnalysis
      <3> QED  BY <1>2, <3>2, <3>3, <3>4
    <2>2. Grows /\ SameItems
      BY <1>2 DEF SommelierAnalysis, ConditionalNode, ReadAnalysis, items, queues, Grows, SameItems
    <2> QED  BY <2>1, <2>2
  <1>3. CASE WriteAnalysis(w) \/ ReadJobForDone(w) \/ PatchJobDone(w)
             \/ ReadTasting(w) \/ PatchTasting(w) \/ Publish(w)
    <2>1. Alone(w)
      BY <1>0, <1>3, GotoAlone, SeenAlone, NodeDoneAlone, NodeFailsAlone
      DEF WriteAnalysis, ReadJobForDone, PatchJobDone, ReadTasting, PatchTasting, Publish, PipelineStep
    <2>2. Grows /\ SameItems
      BY <1>3 DEF WriteAnalysis, ReadJobForDone, PatchJobDone, ReadTasting, PatchTasting, Publish,
         items, queues, Grows, SameItems, TypeInv, TypeOK, Analysis, Tasting, NoAnalysis
    <2> QED  BY <2>1, <2>2
  <1> QED  BY <1>1, <1>2, <1>3 DEF SessionB

LEMMA HandlerEffect ==
  ASSUME TypeInv, NEW w \in Workers,
         \/ PutJob(w) \/ MarkTranscribing(w) \/ EnterSessionA(w)
         \/ MarkAnalyzing(w) \/ EnterSessionB(w)
         \/ SkipNode(w) \/ IndexJob(w) \/ ReadJobForMerge(w) \/ MergeSteps(w)
         \/ ResetJob(w) \/ ResetJobPut(w) \/ Crash(w) \/ NodeFault(w)
  PROVE  Alone(w) /\ Grows /\ SameItems
  <1>0. RunInv
    BY TypeInvRun
  <1>1. Grows /\ SameItems
    BY DEF PutJob, MarkTranscribing, EnterSessionA, MarkAnalyzing, EnterSessionB, SkipNode, IndexJob,
       ReadJobForMerge, MergeSteps, ResetJob, ResetJobPut, Crash, NodeFault, Finish,
       items, queues, Grows, SameItems
  <1>2. CASE EnterSessionA(w) \/ EnterSessionB(w) \/ ReadJobForMerge(w)
    <2>1. CASE Quit(w)
      BY <1>0, <1>1, <2>1, QuitAlone
    <2>2. CASE run' = [run EXCEPT ![w].steps = job.steps, ![w].pc = "ensure_job"]
      BY <1>0, <1>1, <2>2 DEF RunInv, Alone, Execution
    <2>3. ASSUME NEW r, run' = [run EXCEPT ![w].r = r, ![w].steps = job.steps, ![w].pc = "load_state"]
          PROVE  Alone(w)
      BY <1>0, <2>3 DEF RunInv, Alone, Execution
    <2>4. CASE run' = [run EXCEPT ![w].rev = job.rev, ![w].steps = job.steps, ![w].pc = "merge_patch"]
      BY <1>0, <1>1, <2>4 DEF RunInv, Alone, Execution
    <2>5. CASE EnterSessionA(w)
      BY <2>1, <2>2, <2>5, Zenon DEF EnterSessionA, Finish
    <2>6. CASE EnterSessionB(w)
      BY <1>1, <2>1, <2>3, <2>6, Zenon DEF EnterSessionB, Finish
    <2>7. CASE ReadJobForMerge(w)
      BY <2>1, <2>4, <2>7, Zenon DEF ReadJobForMerge, Finish
    <2> QED  BY <1>2, <2>5, <2>6, <2>7
  <1>3. CASE SkipNode(w)
    <2>1. After[run[w].pc] # "deleting"
      BY <1>0, <1>3, AfterType DEF SkipNode, RunInv, Execution, PipelineStep
    <2> QED  BY <1>0, <1>1, <1>3, <2>1, GotoAlone DEF SkipNode
  <1>4. CASE \/ PutJob(w) \/ MarkTranscribing(w) \/ MarkAnalyzing(w) \/ IndexJob(w) \/ MergeSteps(w)
             \/ ResetJob(w) \/ ResetJobPut(w) \/ Crash(w) \/ NodeFault(w)
    <2>1. Alone(w)
      BY <1>0, <1>4, GotoAlone, QuitAlone, NodeDoneAlone, NodeFailsAlone
      DEF PutJob, MarkTranscribing, MarkAnalyzing, IndexJob, MergeSteps, ResetJob, ResetJobPut,
          Crash, NodeFault, Finish, PipelineStep
    <2> QED  BY <1>1, <2>1
  <1> QED  BY <1>2, <1>3, <1>4

LEMMA StartEffect ==
  ASSUME TypeInv, NEW w \in Workers,
         Reanalyze(w) \/ \E r \in Recordings : TriggerUpload(w, r) \/ TriggerTranscribe(w, r)
  PROVE  Alone(w) /\ Grows /\ SameItems
  <1>1. Grows /\ SameItems
    BY DEF Reanalyze, TriggerUpload, TriggerTranscribe, items, queues, Grows, SameItems
  <1>2. run[w].pc = "idle" /\ run \in [Workers -> Execution]
    BY DEF Reanalyze, TriggerUpload, TriggerTranscribe, At, TypeInv, TypeOK
  <1>3. CASE Reanalyze(w)
    <2> DEFINE pc == IF job.form = "full" THEN "reset_patch" ELSE "reset_put"
               e == [Idle EXCEPT !.via = "route", !.rev = IF job.form = "full" THEN job.rev ELSE unseen,
                                 !.pc = pc]
    <2>1. e.pc = pc /\ pc # "deleting"
      BY DEF Idle
    <2>2. UNCHANGED run \/ run' = [run EXCEPT ![w] = e]
      BY <1>3, Zenon DEF Reanalyze
    <2> HIDE DEF e
    <2> QED  BY <1>1, <1>2, <2>1, <2>2 DEF Alone
  <1>4. ASSUME NEW r \in Recordings, TriggerUpload(w, r) PROVE Alone(w)
    BY <1>2, <1>4 DEF TriggerUpload, Idle, Alone
  <1>5. ASSUME NEW r \in Recordings, TriggerTranscribe(w, r) PROVE Alone(w)
    BY <1>2, <1>5 DEF TriggerTranscribe, Idle, Alone
  <1> QED  BY <1>1, <1>3, <1>4, <1>5

LEMMA OutsideEffect ==
  ASSUME TypeInv,
         EditSummary \/ \E r \in Recordings : Upload(r) \/ TranscribeEnds(r) \/ OverrideSpeakers(r)
  PROVE  run' = run /\ Grows /\ SameItems
  <1>1. CASE EditSummary
    BY <1>1 DEF EditSummary, queues, TypeInv, TypeOK, Analysis, Tasting, Grows, SameItems
  <1>2. ASSUME NEW r \in Recordings, Upload(r) PROVE run' = run /\ Grows /\ SameItems
    BY <1>2 DEF Upload, items, Grows, SameItems
  <1>3. ASSUME NEW r \in Recordings, TranscribeEnds(r) PROVE run' = run /\ Grows /\ SameItems
    BY <1>3 DEF TranscribeEnds, items, TypeInv, TypeOK, Grows, SameItems
  <1>4. ASSUME NEW r \in Recordings, OverrideSpeakers(r) PROVE run' = run /\ Grows /\ SameItems
    BY <1>4 DEF OverrideSpeakers, queues, TypeInv, TypeOK, Recording, Grows, SameItems
  <1> QED  BY <1>1, <1>2, <1>3, <1>4

\* Every step is a deletion's, or leaves everything stored in place.
LEMMA StepEffect ==
  ASSUME TypeInv, [Next]_vars
  PROVE  \/ \E w \in Workers : StartDelete(w) \/ DeleteNext(w)
         \/ Grows /\ SameItems /\ (run' = run \/ \E w \in Workers : Alone(w))
  <1>1. CASE UNCHANGED vars
    BY <1>1 DEF vars, Grows, SameItems
  <1>2. CASE Next
    BY <1>2, SessionAEffect, SessionBEffect, HandlerEffect, StartEffect, OutsideEffect
    DEF Next, Continue
  <1> QED  BY <1>1, <1>2
-----------------------------------------------------------------------------
(* A deleted tasting leaves no recording                                   *)

\* Whatever recordings a deletion has not yet removed are still on its list.
DeletionCovers ==
    \A w \in Workers : run[w].pc = "deleting" =>
        \A r \in Recordings : recs[r].exists => r \in run[w].todo

OrphanInv == TypeInv /\ DeletionCovers /\ NoOrphanRecording

LEMMA InitOrphan == Init => DeletionCovers /\ NoOrphanRecording
  BY IdleType DEF Init, DeletionCovers, NoOrphanRecording, NoTasting

LEMMA StepOrphan == OrphanInv /\ [Next]_vars => OrphanInv'
  <1> SUFFICES ASSUME OrphanInv, [Next]_vars PROVE OrphanInv'
    OBVIOUS
  <1>0. TypeInv /\ TypeInv'
    BY StepTypes DEF OrphanInv
  <1>1. CASE Grows /\ SameItems /\ (run' = run \/ \E w \in Workers : Alone(w))
    <2>1. DeletionCovers'
      BY <1>1 DEF OrphanInv, DeletionCovers, SameItems, Alone
    <2>2. NoOrphanRecording'
      BY <1>1 DEF OrphanInv, NoOrphanRecording, SameItems
    <2> QED  BY <1>0, <2>1, <2>2 DEF OrphanInv
  <1>2. ASSUME NEW w \in Workers, StartDelete(w) PROVE OrphanInv'
    <2>1. /\ \A v \in Workers \ {w} : run'[v] = run[v]
          /\ run'[w].todo = {r \in Recordings : recs[r].exists}
      BY <1>0, <1>2 DEF StartDelete, Idle, TypeInv, TypeOK
    <2> QED  BY <1>0, <1>2, <2>1 DEF StartDelete, items, OrphanInv, DeletionCovers, NoOrphanRecording
  <1>3. ASSUME NEW w \in Workers, DeleteNext(w) PROVE OrphanInv'
    <2>1. run[w].pc = "deleting" /\ run[w] \in Execution
      BY <1>0, <1>3 DEF DeleteNext, At, TypeInv, TypeOK
    <2>2. \A v \in Workers \ {w} : run'[v] = run[v]
      BY <1>0, <1>3 DEF DeleteNext, Quit, TypeInv, TypeOK
    <2>3. CASE \E r \in run[w].todo :
                  /\ recs' = [recs EXCEPT ![r] = NoRecording]
                  /\ run' = [run EXCEPT ![w].todo = @ \ {r}]
                  /\ UNCHANGED <<job, analysis, tasting>>
      <3>1. PICK r \in run[w].todo : /\ recs' = [recs EXCEPT ![r] = NoRecording]
                                     /\ run' = [run EXCEPT ![w].todo = @ \ {r}]
                                     /\ tasting' = tasting
        BY <2>3
      <3>2. run'[w].todo = run[w].todo \ {r}
        BY <1>0, <3>1 DEF TypeInv, TypeOK, Execution
      <3>3. \A q \in Recordings : recs'[q].exists => recs[q].exists /\ q # r
        BY <1>0, <3>1 DEF TypeInv, TypeOK, NoRecording
      <3> QED
        BY <1>0, <2>1, <2>2, <3>1, <3>2, <3>3 DEF OrphanInv, DeletionCovers, NoOrphanRecording
    <2>4. CASE recs' = recs /\ tasting' = tasting /\ run'[w].todo = run[w].todo
      BY <1>0, <2>1, <2>2, <2>4 DEF OrphanInv, DeletionCovers, NoOrphanRecording
    <2>5. CASE run[w].todo = {} /\ recs' = recs /\ Quit(w)
      <3>1. run'[w].pc = "idle"
        BY <1>0, <2>5, IdleType DEF Quit, TypeInv, TypeOK
      <3> QED
        BY <1>0, <2>1, <2>2, <2>5, <3>1 DEF OrphanInv, DeletionCovers, NoOrphanRecording
    <2> QED
      BY <1>0, <1>3, <2>1, <2>3, <2>4, <2>5 DEF DeleteNext, TypeInv, TypeOK, Execution
  <1> QED  BY <1>0, <1>1, <1>2, <1>3, StepEffect

\* deleteTasting removes META last and every other write asks for an existing
\* item, so no execution that outlives the tasting leaves a recording behind.
THEOREM NoRecordingOutlivesTasting == Spec => []NoOrphanRecording
  <1>1. Init => OrphanInv
    BY InitTypes, InitOrphan DEF OrphanInv
  <1>2. Spec => []OrphanInv
    BY <1>1, StepOrphan, PTL DEF Spec
  <1>3. OrphanInv => NoOrphanRecording
    BY DEF OrphanInv
  <1> QED  BY <1>2, <1>3, PTL
-----------------------------------------------------------------------------
(* What a job and an analysis claim is stored                              *)

\* The steps whose effect is stored, and the sommelier's inputs that are.
Backed == {s \in PipelineStep : Earned({s})}

Held == {i \in Input : \E r \in Recordings : IF i = "transcript" THEN recs[r].transcript
                                                                ELSE recs[r].acoustic}

NameSteps == {"name_read", "name_patch", "name_index"}
PublishSteps == {"done_read", "done_patch", "done_index", "tasting_read", "tasting_patch", "publish"}

\* An execution carries nothing that is not stored; past StartTranscriptionJob
\* the Transcribe job is there, past the write of the analysis the analysis.
WorkerSupported(w) ==
    /\ run[w].steps \subseteq Backed /\ run[w].fresh \subseteq Backed
    /\ run[w].basis \subseteq Held
    /\ run[w].pc \in NameSteps => "start_transcription" \in Backed
    /\ run[w].pc \in PublishSteps => "persist_and_publish" \in Backed
    /\ run[w].pc = "acoustic_patch" => run[w].rev # unseen

JobSupported ==
    /\ job.steps \subseteq Backed
    /\ job.form = "full" /\ job.status = "completed" => "persist_and_publish" \in Backed

Supported ==
    /\ \A w \in Workers : run[w].pc # "deleting" /\ WorkerSupported(w)
    /\ \A r \in Recordings : recs[r].exists
    /\ JobSupported
    /\ analysis.basis \subseteq Held

ClaimInv ==
    /\ TypeInv
    /\ left.deletes <= MaxDeletes
    /\ NeverDeleted => Supported

LEMMA EarnedBacked == \A S \in SUBSET PipelineStep : Earned(S) <=> S \subseteq Backed
  BY DEF Backed, Earned

LEMMA Unclaimed ==
  {"ensure_job", "load_state", "sommelier_analysis", "refresh_taste_profile", "run_discovery"}
      \subseteq Backed
  BY DEF Backed, Earned, PipelineStep

LEMMA PersistBacked == "persist_and_publish" \in Backed <=> analysis.exists
  BY DEF Backed, Earned, PipelineStep

LEMMA BackedGrows ==
  ASSUME Grows
  PROVE  Backed \subseteq Backed' /\ Held \subseteq Held'
  BY DEF Grows, Backed, Earned, Held

Later == Backed \subseteq Backed' /\ Held \subseteq Held'

LEMMA GotoSupported ==
  ASSUME RunInv, NEW w \in Workers, WorkerSupported(w), Later,
         NEW pc, Goto(w, pc), pc # "acoustic_patch",
         pc \in NameSteps => "start_transcription" \in Backed',
         pc \in PublishSteps => "persist_and_publish" \in Backed'
  PROVE  WorkerSupported(w)'
  BY DEF RunInv, Execution, Goto, WorkerSupported, Later

LEMMA SeenSupported ==
  ASSUME RunInv, NEW w \in Workers, WorkerSupported(w), Later,
         NEW pc, NEW rev, Seen(w, rev, pc), pc = "acoustic_patch" => rev # unseen,
         pc \in NameSteps => "start_transcription" \in Backed',
         pc \in PublishSteps => "persist_and_publish" \in Backed'
  PROVE  WorkerSupported(w)'
  BY DEF RunInv, Execution, Seen, WorkerSupported, Later

LEMMA NodeDoneSupported ==
  ASSUME RunInv, NEW w \in Workers, WorkerSupported(w), Later,
         NEW s \in PipelineStep, NodeDone(w, s), s \in Backed'
  PROVE  WorkerSupported(w)'
  <1>1. After[s] \notin NameSteps \union PublishSteps \union {"acoustic_patch"}
    BY AfterType DEF PipelineStep, NameSteps, PublishSteps
  <1>2. /\ run'[w].fresh = run[w].fresh \union {s} /\ run'[w].pc = After[s]
        /\ run'[w].steps = run[w].steps /\ run'[w].basis = run[w].basis
    BY DEF RunInv, Execution, NodeDone
  <1> QED  BY <1>1, <1>2 DEF WorkerSupported, Later

LEMMA NodeFailsSupported ==
  ASSUME RunInv, NEW w \in Workers, WorkerSupported(w), Later, NodeFails(w)
  PROVE  WorkerSupported(w)'
  BY DEF RunInv, Execution, NodeFails, WorkerSupported, Later, NameSteps, PublishSteps

LEMMA IdleSupported ==
  ASSUME RunInv, NEW w \in Workers, run'[w].steps = {}, run'[w].fresh = {}, run'[w].basis = {},
         run'[w].pc \in HandlerSteps \union {"idle"}
  PROVE  WorkerSupported(w)'
  BY DEF WorkerSupported, HandlerSteps, NameSteps, PublishSteps

LEMMA QuitSupported ==
  ASSUME RunInv, NEW w \in Workers, Quit(w)
  PROVE  WorkerSupported(w)'
  <1>1. run'[w] = Idle
    BY DEF RunInv, Quit
  <1> QED  BY <1>1, IdleSupported DEF Idle
\* The steps that need nothing stored.
LEMMA FreeStep ==
  ASSUME Later, NEW s \in {"ensure_job", "load_state", "sommelier_analysis",
                           "refresh_taste_profile", "run_discovery"}
  PROVE  s \in PipelineStep /\ s \in Backed'
  BY Unclaimed DEF Later, PipelineStep

LEMMA SessionASupported ==
  ASSUME TypeInv, TypeInv', Supported, Later, NEW w \in Workers, SessionA(w)
  PROVE  JobSupported' /\ analysis' = analysis /\ WorkerSupported(w)'
  <1>0. RunInv /\ WorkerSupported(w) /\ JobSupported /\ "start_transcription" \in PipelineStep
    BY TypeInvRun DEF Supported, PipelineStep
  <1>1. JobSupported' /\ analysis' = analysis
    BY <1>0 DEF SessionA, EnsureJob, EnsureJobPut, CheckTranscription, StartTranscription,
       ReadJobForName, PatchJobName, ReadAcoustic, PatchAcoustic, items, NewJob, NoJob,
       TypeInv, TypeOK, Job, JobSupported, Later
  <1>2. run[w].pc \in RecordingSteps => run[w].r \in Recordings
    BY HasRecording
  <1>3. CASE EnsureJob(w) \/ EnsureJobPut(w)
    <2>1. WorkerSupported(w)'
      BY <1>0, <1>3, FreeStep, GotoSupported, NodeDoneSupported, NodeFailsSupported
      DEF EnsureJob, EnsureJobPut, NameSteps, PublishSteps
    <2> QED  BY <1>1, <2>1
  <1>4. CASE CheckTranscription(w) \/ StartTranscription(w)
    <2>1. run[w].r \in Recordings
      BY <1>2, <1>4 DEF CheckTranscription, StartTranscription, Runs, At, RecordingSteps, NodeSteps,
         PipelineStep
    <2>2. CASE NodeFails(w) \/ Goto(w, "transcribe_start")
      BY <1>0, <1>1, <2>2, GotoSupported, NodeFailsSupported DEF NameSteps, PublishSteps
    <2>3. CASE Goto(w, "name_read") /\ transcribe'[run[w].r] # "none"
      <3>1. "start_transcription" \in Backed'
        BY <2>1, <2>3 DEF Backed, Earned, PipelineStep
      <3> QED  BY <1>0, <1>1, <2>3, <3>1, GotoSupported DEF NameSteps, PublishSteps
    <2>4. transcribe \in [Recordings -> {"none", "running", "COMPLETED", "FAILED"}]
      BY DEF TypeInv, TypeOK
    <2> QED
      BY <1>4, <2>1, <2>2, <2>3, <2>4 DEF CheckTranscription, StartTranscription, queues
  <1>5. CASE ReadJobForName(w) \/ PatchJobName(w)
    <2>1. "start_transcription" \in Backed /\ "start_transcription" \in Backed'
      BY <1>0, <1>5 DEF ReadJobForName, PatchJobName, At, WorkerSupported, NameSteps, Later
    <2>2. WorkerSupported(w)'
      BY <1>0, <1>5, <2>1, GotoSupported, SeenSupported, NodeDoneSupported, NodeFailsSupported
      DEF ReadJobForName, PatchJobName, NameSteps, PublishSteps
    <2> QED  BY <1>1, <2>2
  <1>6. CASE ReadAcoustic(w) \/ PatchAcoustic(w)
    <2>1. run[w].r \in Recordings
      BY <1>2, <1>6 DEF ReadAcoustic, PatchAcoustic, Runs, At, RecordingSteps, NodeSteps, PipelineStep
    <2>2. recs'[run[w].r].acoustic => "extract_acoustic" \in Backed'
      BY <2>1 DEF Backed, Earned, PipelineStep
    <2>3. CASE ReadAcoustic(w)
      <3>1. recs[run[w].r].exists /\ recs[run[w].r].rev # unseen
        BY <2>1, RevType DEF Supported, unseen
      <3>2. recs[run[w].r].acoustic => "extract_acoustic" \in Backed'
        BY <2>2, <2>3 DEF ReadAcoustic, items
      <3>3. CASE recs[run[w].r].acoustic /\ NodeDone(w, "extract_acoustic")
        BY <1>0, <1>1, <3>2, <3>3, NodeDoneSupported DEF PipelineStep
      <3>4. CASE Seen(w, recs[run[w].r].rev, "acoustic_patch")
        BY <1>0, <1>1, <3>1, <3>4, SeenSupported DEF NameSteps, PublishSteps
      <3> QED  BY <2>3, <3>1, <3>3, <3>4 DEF ReadAcoustic
    <2>4. CASE PatchAcoustic(w)
      <3>1. run[w].rev # unseen
        BY <1>0, <2>4 DEF PatchAcoustic, At, WorkerSupported
      <3>2. CASE NodeFails(w)
        BY <1>0, <1>1, <3>2, NodeFailsSupported
      <3>3. CASE /\ recs' = [recs EXCEPT ![run[w].r].acoustic = TRUE, ![run[w].r].rev = @ + 1]
                 /\ NodeDone(w, "extract_acoustic")
        <4>t. recs \in [Recordings -> Recording]
          BY DEF TypeInv, TypeOK
        <4>1. recs'[run[w].r].acoustic
          BY ONLY <2>1, <3>3, <4>t DEF Recording
        <4> QED  BY <1>0, <1>1, <2>2, <3>3, <4>1, NodeDoneSupported DEF PipelineStep
      <3> QED  BY <2>4, <3>1, <3>2, <3>3 DEF PatchAcoustic
    <2> QED  BY <1>6, <2>3, <2>4
  <1> QED  BY <1>3, <1>4, <1>5, <1>6 DEF SessionA

LEMMA SessionBSupported ==
  ASSUME TypeInv, TypeInv', Supported, Later, NEW w \in Workers, SessionB(w)
  PROVE  JobSupported' /\ analysis'.basis \subseteq Held' /\ WorkerSupported(w)'
  <1>0. RunInv /\ WorkerSupported(w) /\ JobSupported /\ analysis.basis \subseteq Held'
    BY TypeInvRun DEF Supported, Later
  <1>1. run[w].pc \in RecordingSteps => run[w].r \in Recordings
    BY HasRecording
  <1>2. CASE LoadJob(w) \/ LoadRecording(w) \/ PatchTranscript(w) \/ ReadForSpeakers(w)
    <2>1. JobSupported' /\ analysis' = analysis
      BY <1>0, <1>2 DEF LoadJob, LoadRecording, PatchTranscript, ReadForSpeakers, items, JobSupported, Later
    <2>2. CASE run' = [run EXCEPT ![w].named = job.named, ![w].pc = "load_recording"]
      <3>1. WorkerSupported(w)'
        BY <1>0, <2>2 DEF RunInv, Execution, WorkerSupported, Later, NameSteps, PublishSteps
      <3> QED  BY <1>0, <2>1, <3>1
    <2>3. CASE ~(run' = [run EXCEPT ![w].named = job.named, ![w].pc = "load_recording"])
      <3>1. WorkerSupported(w)'
        BY <1>0, <1>2, <2>3, FreeStep, SeenSupported, NodeDoneSupported, NodeFailsSupported
        DEF LoadJob, LoadRecording, PatchTranscript, ReadForSpeakers, NameSteps, PublishSteps
      <3> QED  BY <1>0, <2>1, <3>1
    <2> QED  BY <2>2, <2>3
  <1>3. CASE PatchSpeakers(w)
    <2>1. JobSupported' /\ analysis' = analysis
      BY <1>0, <1>3 DEF PatchSpeakers, JobSupported, Later
    <2>2. run[w].r \in Recordings
      BY <1>1, <1>3 DEF PatchSpeakers, At, RecordingSteps, NodeSteps
    <2>3. CASE NodeFails(w)
      BY <1>0, <2>1, <2>3, NodeFailsSupported
    <2>4. CASE /\ recs' = [recs EXCEPT ![run[w].r].speakers = "auto", ![run[w].r].rev = @ + 1]
               /\ NodeDone(w, "map_speakers")
      <3>t. recs \in [Recordings -> Recording]
        BY DEF TypeInv, TypeOK
      <3>1. recs'[run[w].r].speakers # "none"
        BY ONLY <2>2, <2>4, <3>t DEF Recording
      <3>2. "map_speakers" \in Backed' /\ "map_speakers" \in PipelineStep
        BY <2>2, <3>1 DEF Backed, Earned, PipelineStep
      <3> QED  BY <1>0, <2>1, <2>4, <3>2, NodeDoneSupported
    <2> QED  BY <1>3, <2>3, <2>4 DEF PatchSpeakers
  <1>4. CASE SommelierAnalysis(w)
    <2> DEFINE B == {i \in Input : IF i = "transcript" THEN recs[run[w].r].transcript
                                                      ELSE recs[run[w].r].acoustic}
    <2>1. JobSupported' /\ analysis' = analysis
      BY <1>0, <1>4 DEF SommelierAnalysis, items, JobSupported, Later
    <2>2. run[w].r \in Recordings
      BY <1>1, <1>4 DEF SommelierAnalysis, Runs, At, RecordingSteps, NodeSteps, PipelineStep
    <2>3. CASE NodeFails(w)
      BY <1>0, <2>1, <2>3, NodeFailsSupported
    <2>4. CASE run' = [run EXCEPT ![w].output = TRUE, ![w].basis = B,
                                  ![w].fresh = @ \union {"sommelier_analysis"},
                                  ![w].pc = After["sommelier_analysis"]]
      <3>1. B \subseteq Held'
        BY <2>2 DEF Held, Later
      <3>2. "sommelier_analysis" \in Backed' /\ After["sommelier_analysis"] = "refresh_taste_profile"
        BY FreeStep DEF After, PipelineStep
      <3>3. /\ run'[w].basis = B /\ run'[w].fresh = run[w].fresh \union {"sommelier_analysis"}
            /\ run'[w].steps = run[w].steps /\ run'[w].pc = After["sommelier_analysis"]
        <4> HIDE DEF B
        <4> QED  BY <1>0, <2>4 DEF RunInv, Execution
      <3>4. WorkerSupported(w)'
        <4> HIDE DEF B
        <4> QED  BY <1>0, <3>1, <3>2, <3>3 DEF WorkerSupported, Later, NameSteps, PublishSteps
      <3> QED  BY <1>0, <2>1, <3>4
    <2> QED  BY <1>4, <2>3, <2>4 DEF SommelierAnalysis
  <1>5. CASE ConditionalNode(w)
    <2>1. JobSupported' /\ analysis' = analysis
      BY <1>0, <1>5 DEF ConditionalNode, items, JobSupported, Later
    <2>2. PICK s \in {"refresh_taste_profile", "run_discovery"} :
              Runs(w, s) /\ (NodeDone(w, s) \/ Goto(w, After[s]))
      BY <1>5 DEF ConditionalNode
    <2>3. /\ s \in PipelineStep /\ s \in Backed'
          /\ After[s] \notin NameSteps \union PublishSteps \union {"acoustic_patch"}
      BY FreeStep, AfterType DEF PipelineStep, NameSteps, PublishSteps
    <2>4. WorkerSupported(w)'
      BY <1>0, <2>2, <2>3, GotoSupported, NodeDoneSupported
    <2> QED  BY <1>0, <2>1, <2>4
  <1>6. CASE ReadAnalysis(w)
    <2>1. JobSupported' /\ analysis' = analysis
      BY <1>0, <1>6 DEF ReadAnalysis, items, JobSupported, Later
    <2>2. WorkerSupported(w)'
      BY <1>0, <1>6, SeenSupported, NodeFailsSupported DEF ReadAnalysis, NameSteps, PublishSteps
    <2> QED  BY <1>0, <2>1, <2>2
  <1>7. CASE WriteAnalysis(w)
    <2>1. JobSupported'
      BY <1>0, <1>7 DEF WriteAnalysis, JobSupported, Later
    <2>2. CASE NodeFails(w) /\ analysis' = analysis
      BY <1>0, <2>1, <2>2, NodeFailsSupported
    <2>3. CASE analysis'.exists /\ analysis'.basis = run[w].basis /\ Goto(w, "done_read")
      <3>1. "persist_and_publish" \in Backed'
        BY <2>3 DEF Backed, Earned, PipelineStep
      <3>2. WorkerSupported(w)'
        BY <1>0, <2>3, <3>1, GotoSupported DEF NameSteps, PublishSteps
      <3>3. analysis'.basis \subseteq Held'
        BY <1>0, <2>3 DEF WorkerSupported, Later
      <3> QED  BY <2>1, <3>2, <3>3
    <2> QED
      BY <1>7, <2>2, <2>3 DEF WriteAnalysis, NoAnalysis, TypeInv, TypeOK, Analysis
  <1>8. CASE ReadJobForDone(w) \/ PatchJobDone(w) \/ ReadTasting(w) \/ PatchTasting(w) \/ Publish(w)
    <2>1. "persist_and_publish" \in Backed /\ "persist_and_publish" \in Backed'
      BY <1>0, <1>8 DEF ReadJobForDone, PatchJobDone, ReadTasting, PatchTasting, Publish, At,
         WorkerSupported, PublishSteps, Later
    <2>2. JobSupported' /\ analysis' = analysis
      BY <1>0, <1>8, <2>1 DEF ReadJobForDone, PatchJobDone, ReadTasting, PatchTasting, Publish, items,
         JobSupported, Later, TypeInv, TypeOK, Job
    <2>3. WorkerSupported(w)'
      BY <1>0, <1>8, <2>1, GotoSupported, SeenSupported, NodeDoneSupported, NodeFailsSupported
      DEF ReadJobForDone, PatchJobDone, ReadTasting, PatchTasting, Publish, NameSteps, PublishSteps,
          PipelineStep
    <2> QED  BY <1>0, <2>2, <2>3
  <1> QED  BY <1>2, <1>3, <1>4, <1>5, <1>6, <1>7, <1>8 DEF SessionB
LEMMA HandlerSupported ==
  ASSUME TypeInv, Supported, Later, NEW w \in Workers,
         \/ PutJob(w) \/ MarkTranscribing(w) \/ EnterSessionA(w)
         \/ MarkAnalyzing(w) \/ EnterSessionB(w)
         \/ SkipNode(w) \/ IndexJob(w) \/ ReadJobForMerge(w) \/ MergeSteps(w)
         \/ ResetJob(w) \/ ResetJobPut(w) \/ Crash(w) \/ NodeFault(w)
  PROVE  JobSupported' /\ analysis' = analysis /\ WorkerSupported(w)'
  <1>0. RunInv /\ WorkerSupported(w) /\ JobSupported
    BY TypeInvRun DEF Supported
  <1>1. CASE PutJob(w) \/ MarkTranscribing(w) \/ MarkAnalyzing(w) \/ ResetJob(w) \/ ResetJobPut(w)
    <2>1. JobSupported' /\ analysis' = analysis
      BY <1>0, <1>1 DEF PutJob, MarkTranscribing, MarkAnalyzing, ResetJob, ResetJobPut, NewJob, NoJob,
         TypeInv, TypeOK, Job, JobSupported, Later
    <2>2. WorkerSupported(w)'
      BY <1>0, <1>1, GotoSupported, QuitSupported
      DEF PutJob, MarkTranscribing, MarkAnalyzing, ResetJob, ResetJobPut, NameSteps, PublishSteps
    <2> QED  BY <2>1, <2>2
  <1>2. CASE EnterSessionA(w) \/ EnterSessionB(w) \/ ReadJobForMerge(w)
    <2>1. JobSupported' /\ analysis' = analysis
      BY <1>0, <1>2 DEF EnterSessionA, EnterSessionB, ReadJobForMerge, items, JobSupported, Later
    <2>2. CASE Quit(w)
      BY <1>0, <2>1, <2>2, QuitSupported
    <2>3. CASE ~Quit(w)
      <3>1. /\ run'[w].steps = job.steps /\ run'[w].fresh = run[w].fresh
            /\ run'[w].basis = run[w].basis
            /\ run'[w].pc \in {"ensure_job", "load_state", "merge_patch"}
        <4>1. CASE run' = [run EXCEPT ![w].steps = job.steps, ![w].pc = "ensure_job"]
          BY <1>0, <4>1 DEF RunInv, Execution
        <4>2. ASSUME NEW r, run' = [run EXCEPT ![w].r = r, ![w].steps = job.steps, ![w].pc = "load_state"]
              PROVE  /\ run'[w].steps = job.steps /\ run'[w].fresh = run[w].fresh
                     /\ run'[w].basis = run[w].basis /\ run'[w].pc = "load_state"
          BY <1>0, <4>2 DEF RunInv, Execution
        <4>3. CASE run' = [run EXCEPT ![w].rev = job.rev, ![w].steps = job.steps, ![w].pc = "merge_patch"]
          BY <1>0, <4>3 DEF RunInv, Execution
        <4>4. CASE EnterSessionA(w)
          BY <2>3, <4>1, <4>4, Zenon DEF EnterSessionA, Finish
        <4>5. CASE EnterSessionB(w)
          <5>1. PICK r : run' = [run EXCEPT ![w].r = r, ![w].steps = job.steps, ![w].pc = "load_state"]
            BY <2>3, <4>5, Zenon DEF EnterSessionB, Finish
          <5> QED  BY <4>2, <5>1
        <4>6. CASE ReadJobForMerge(w)
          BY <2>3, <4>3, <4>6, Zenon DEF ReadJobForMerge, Finish
        <4> QED  BY <1>2, <4>4, <4>5, <4>6
      <3> QED
        BY <1>0, <2>1, <3>1 DEF WorkerSupported, JobSupported, Later, NameSteps, PublishSteps
    <2> QED  BY <2>2, <2>3
  <1>3. CASE SkipNode(w)
    <2>1. run[w].pc \in PipelineStep
      BY <1>0, <1>3 DEF SkipNode, RunInv, Execution
    <2>2. After[run[w].pc] \notin NameSteps \union PublishSteps \union {"acoustic_patch"}
      BY <2>1, AfterType DEF PipelineStep, NameSteps, PublishSteps
    <2>3. WorkerSupported(w)'
      BY <1>0, <1>3, <2>2, GotoSupported DEF SkipNode
    <2> QED  BY <1>0, <1>3, <2>3 DEF SkipNode, items, JobSupported, Later
  <1>4. CASE IndexJob(w)
    <2>1. JobSupported' /\ analysis' = analysis
      BY <1>0, <1>4 DEF IndexJob, TypeInv, TypeOK, Job, JobSupported, Later
    <2>2. /\ At(w, "name_index") => "start_transcription" \in Backed'
          /\ At(w, "done_index") => "persist_and_publish" \in Backed'
      BY <1>0 DEF At, WorkerSupported, NameSteps, PublishSteps, Later
    <2>3. WorkerSupported(w)'
      BY <1>0, <1>4, <2>2, GotoSupported, NodeDoneSupported, QuitSupported
      DEF IndexJob, Finish, NameSteps, PublishSteps, PipelineStep
    <2> QED  BY <2>1, <2>3
  <1>5. CASE MergeSteps(w)
    <2>1. run[w].steps \union run[w].fresh \subseteq Backed'
      BY <1>0 DEF WorkerSupported, Later
    <2>2. JobSupported' /\ analysis' = analysis
      BY <1>0, <1>5, <2>1 DEF MergeSteps, TypeInv, TypeOK, Job, JobSupported, Later
    <2>3. WorkerSupported(w)'
      BY <1>0, <1>5, GotoSupported, QuitSupported DEF MergeSteps, NameSteps, PublishSteps
    <2> QED  BY <2>2, <2>3
  <1>6. CASE Crash(w) \/ NodeFault(w)
    <2>1. WorkerSupported(w)'
      BY <1>0, <1>6, QuitSupported, NodeFailsSupported DEF Crash, NodeFault
    <2> QED  BY <1>0, <1>6, <2>1 DEF Crash, NodeFault, items, JobSupported, Later
  <1> QED  BY <1>1, <1>2, <1>3, <1>4, <1>5, <1>6

LEMMA StartSupported ==
  ASSUME TypeInv, Supported, Later, NEW w \in Workers,
         Reanalyze(w) \/ \E r \in Recordings : TriggerUpload(w, r) \/ TriggerTranscribe(w, r)
  PROVE  JobSupported' /\ analysis' = analysis /\ WorkerSupported(w)'
  <1>0. RunInv /\ WorkerSupported(w) /\ JobSupported /\ run[w].pc = "idle"
    BY TypeInvRun DEF Supported, Reanalyze, TriggerUpload, TriggerTranscribe, At
  <1>1. JobSupported' /\ analysis' = analysis
    BY <1>0 DEF Reanalyze, TriggerUpload, TriggerTranscribe, items, JobSupported, Later
  <1>2. CASE run' = run
    BY <1>0, <1>1, <1>2 DEF WorkerSupported, Later
  <1>3. CASE run' # run
    <2>1. /\ run'[w].steps = {} /\ run'[w].fresh = {} /\ run'[w].basis = {}
          /\ run'[w].pc \in HandlerSteps
      <3>1. CASE Reanalyze(w)
        <4> DEFINE rev == IF job.form = "full" THEN job.rev ELSE unseen
                   pc == IF job.form = "full" THEN "reset_patch" ELSE "reset_put"
        <4>1. run'[w] = [Idle EXCEPT !.via = "route", !.rev = rev, !.pc = pc]
          BY <1>0, <1>3, <3>1 DEF Reanalyze, RunInv
        <4>2. pc \in HandlerSteps
          BY DEF HandlerSteps
        <4> HIDE DEF rev, pc
        <4> QED  BY <4>1, <4>2 DEF Idle
      <3>2. ASSUME NEW r \in Recordings, TriggerUpload(w, r) PROVE <2>1!:
        BY <1>0, <1>3, <3>2 DEF TriggerUpload, RunInv, Idle, HandlerSteps
      <3>3. ASSUME NEW r \in Recordings, TriggerTranscribe(w, r) PROVE <2>1!:
        BY <1>0, <1>3, <3>3 DEF TriggerTranscribe, RunInv, Idle, HandlerSteps
      <3> QED  BY <3>1, <3>2, <3>3
    <2> QED  BY <1>0, <1>1, <2>1, IdleSupported
  <1> QED  BY <1>2, <1>3

LEMMA OutsideSupported ==
  ASSUME TypeInv, Supported, Later,
         EditSummary \/ \E r \in Recordings : Upload(r) \/ TranscribeEnds(r) \/ OverrideSpeakers(r)
  PROVE  JobSupported' /\ analysis'.basis \subseteq Held'
  BY DEF EditSummary, Upload, TranscribeEnds, OverrideSpeakers, items, TypeInv, TypeOK, Analysis,
     Supported, JobSupported, Later

LEMMA InitClaims == Init => ClaimInv
  <1> SUFFICES ASSUME Init PROVE ClaimInv
    OBVIOUS
  <1>1. left.deletes <= MaxDeletes
    BY BoundsAssumption DEF Init
  <1>2. Supported
    BY IdleType DEF Init, Supported, WorkerSupported, JobSupported, Idle, NameSteps, PublishSteps,
       NoJob, NoAnalysis, NoRecording
  <1> QED  BY <1>1, <1>2, InitTypes DEF ClaimInv

\* deletes only counts down, so a deletion that has started stays counted.
LEMMA DeletesSpent ==
  ASSUME ClaimInv, [Next]_vars
  PROVE  /\ left'.deletes <= MaxDeletes
         /\ NeverDeleted' => NeverDeleted /\ ~ \E w \in Workers : StartDelete(w)
  <1>1. left \in Budget /\ MaxDeletes \in Nat
    BY BoundsAssumption DEF ClaimInv, TypeInv, TypeOK
  <1>2. CASE \E w \in Workers : StartDelete(w)
    <2>1. left.deletes \in Nat /\ left.deletes <= MaxDeletes
      BY <1>1 DEF ClaimInv, Budget
    <2>2. left' = [left EXCEPT !.deletes = @ - 1]
      BY <1>2 DEF StartDelete
    <2>3. left'.deletes = left.deletes - 1
      BY <1>1, <2>2 DEF Budget
    <2> QED  BY <1>1, <2>1, <2>3 DEF NeverDeleted
  <1>3. CASE ~ \E w \in Workers : StartDelete(w)
    <2>1. left'.deletes = left.deletes
      <3>1. CASE UNCHANGED vars
        BY <3>1 DEF vars
      <3>2. CASE \E r \in Recordings : Upload(r) \/ TranscribeEnds(r) \/ OverrideSpeakers(r)
        BY <1>1, <3>2 DEF Upload, TranscribeEnds, OverrideSpeakers, Budget
      <3>3. CASE \E w \in Workers, r \in Recordings : TriggerUpload(w, r) \/ TriggerTranscribe(w, r)
        BY <3>3 DEF TriggerUpload, TriggerTranscribe
      <3>4. CASE EditSummary \/ \E w \in Workers : Reanalyze(w) \/ Crash(w) \/ NodeFault(w)
        BY <1>1, <3>4 DEF EditSummary, Reanalyze, Crash, NodeFault, Budget
      <3>5. ASSUME NEW w \in Workers, Continue(w) PROVE left' = left
        <4>1. CASE SessionA(w)
          BY <4>1 DEF SessionA, EnsureJob, EnsureJobPut, CheckTranscription, StartTranscription,
             ReadJobForName, PatchJobName, ReadAcoustic, PatchAcoustic
        <4>2. CASE SessionB(w)
          BY <4>2 DEF SessionB, LoadJob, LoadRecording, PatchTranscript, ReadForSpeakers,
             PatchSpeakers, SommelierAnalysis, ConditionalNode, ReadAnalysis, WriteAnalysis,
             ReadJobForDone, PatchJobDone, ReadTasting, PatchTasting, Publish
        <4>3. CASE ~SessionA(w) /\ ~SessionB(w)
          BY <3>5, <4>3 DEF Continue, PutJob, MarkTranscribing, EnterSessionA, MarkAnalyzing,
             EnterSessionB, SkipNode, IndexJob, ReadJobForMerge, MergeSteps, ResetJob, ResetJobPut,
             DeleteNext
        <4> QED  BY <4>1, <4>2, <4>3
      <3> QED  BY <1>3, <3>1, <3>2, <3>3, <3>4, <3>5 DEF Next
    <2> QED  BY <1>3, <2>1 DEF ClaimInv, NeverDeleted
  <1> QED  BY <1>2, <1>3

LEMMA StepClaims == ClaimInv /\ [Next]_vars => ClaimInv'
  <1> SUFFICES ASSUME ClaimInv, [Next]_vars, NeverDeleted' PROVE Supported'
    BY StepTypes, DeletesSpent DEF ClaimInv
  <1>1. TypeInv /\ TypeInv' /\ Supported /\ ~ \E w \in Workers : StartDelete(w)
    BY StepTypes, DeletesSpent DEF ClaimInv
  <1>2. ~ \E w \in Workers : DeleteNext(w)
    BY <1>1 DEF Supported, DeleteNext, At
  <1>3. Grows /\ (run' = run \/ \E w \in Workers : Alone(w))
    BY <1>1, <1>2, StepEffect
  <1>4. Later
    BY <1>3, BackedGrows DEF Later
  <1>5. \A r \in Recordings : recs'[r].exists
    BY <1>1, <1>3 DEF Grows, Supported
  <1>6. ASSUME NEW w \in Workers, run'[w] = run[w]
        PROVE  run'[w].pc # "deleting" /\ WorkerSupported(w)'
    BY <1>1, <1>4, <1>6 DEF Supported, WorkerSupported, Later
  <1>7. ASSUME NEW w \in Workers, Alone(w), WorkerSupported(w)',
               JobSupported', analysis'.basis \subseteq Held'
        PROVE  Supported'
    BY <1>5, <1>6, <1>7 DEF Alone, Supported
  <1>8. CASE UNCHANGED vars
    <2>1. JobSupported' /\ analysis'.basis \subseteq Held'
      BY <1>1, <1>4, <1>8 DEF vars, Supported, JobSupported, Later
    <2> QED  BY <1>5, <1>6, <1>8, <2>1 DEF vars, Supported
  <1>9. CASE \/ EditSummary
             \/ \E r \in Recordings : Upload(r) \/ TranscribeEnds(r) \/ OverrideSpeakers(r)
    BY <1>1, <1>4, <1>5, <1>6, <1>9, OutsideSupported, OutsideEffect DEF Supported
  <1>10. ASSUME NEW w \in Workers, SessionA(w) PROVE Supported'
    <2>1. analysis'.basis \subseteq Held'
      BY <1>1, <1>4, <1>10, SessionASupported DEF Supported, Later
    <2> QED  BY <1>1, <1>4, <1>7, <1>10, <2>1, SessionASupported, SessionAEffect
  <1>11. ASSUME NEW w \in Workers, SessionB(w) PROVE Supported'
    BY <1>1, <1>4, <1>7, <1>11, SessionBSupported, SessionBEffect
  <1>12. ASSUME NEW w \in Workers,
                \/ PutJob(w) \/ MarkTranscribing(w) \/ EnterSessionA(w)
                \/ MarkAnalyzing(w) \/ EnterSessionB(w)
                \/ SkipNode(w) \/ IndexJob(w) \/ ReadJobForMerge(w) \/ MergeSteps(w)
                \/ ResetJob(w) \/ ResetJobPut(w) \/ Crash(w) \/ NodeFault(w)
         PROVE  Supported'
    <2>1. JobSupported' /\ analysis' = analysis /\ WorkerSupported(w)'
      BY <1>1, <1>4, <1>12, HandlerSupported
    <2>2. Alone(w)
      BY <1>1, <1>12, HandlerEffect
    <2> QED  BY <1>1, <1>4, <1>7, <2>1, <2>2 DEF Supported, Later
  <1>13. ASSUME NEW w \in Workers,
                Reanalyze(w) \/ \E r \in Recordings : TriggerUpload(w, r) \/ TriggerTranscribe(w, r)
         PROVE  Supported'
    <2>1. JobSupported' /\ analysis' = analysis /\ WorkerSupported(w)'
      BY <1>1, <1>4, <1>13, StartSupported
    <2>2. Alone(w)
      BY <1>1, <1>13, StartEffect
    <2> QED  BY <1>1, <1>4, <1>7, <2>1, <2>2 DEF Supported, Later
  <1> QED
    BY <1>1, <1>2, <1>8, <1>9, <1>10, <1>11, <1>12, <1>13 DEF Next, Continue

LEMMA ClaimsHold == Spec => []ClaimInv
  BY InitClaims, StepClaims, PTL DEF Spec

\* Job.completedSteps never names a step whose effect is not stored: the
\* sessions that skip by it (executePipeline) skip nothing that is missing.
THEOREM RecordedStepsEarned == Spec => []StepsEarned
  <1>1. ClaimInv => StepsEarned
    <2> SUFFICES ASSUME ClaimInv, NeverDeleted PROVE Earned(job.steps)
      BY DEF StepsEarned
    <2>1. job.steps \in SUBSET PipelineStep /\ job.steps \subseteq Backed
      BY DEF ClaimInv, Supported, JobSupported, TypeInv, TypeOK, Job
    <2> QED  BY <2>1, EarnedBacked
  <1> QED  BY <1>1, ClaimsHold, PTL

\* persist_and_publish writes the analysis before it marks the job, and no
\* interleaving brings the mark without the analysis.
THEOREM CompletedShowsAnalysis == Spec => []CompletedHasAnalysis
  <1>1. ClaimInv => CompletedHasAnalysis
    BY PersistBacked DEF ClaimInv, Supported, JobSupported, CompletedHasAnalysis
  <1> QED  BY <1>1, ClaimsHold, PTL

\* The analysis rests only on a transcript and on features that are stored.
THEOREM AnalysisRestsOnStored == Spec => []BasisStored
  <1>1. ClaimInv => BasisStored
    BY DEF ClaimInv, Supported, Held, BasisStored
  <1> QED  BY <1>1, ClaimsHold, PTL
-----------------------------------------------------------------------------
(* Where the steps of an execution lead                                    *)

\* The awaits that an execution comes to in one way only.
Entries == {"job_put", "reset_patch", "reset_put", "reset_index", "merge_patch", "analysis_write",
            "ensure_put", "deleting"}

\* w goes to pc with its recording and what started it.
Comes(w, pc) ==
    /\ \A v \in Workers \ {w} : run'[v] = run[v]
    /\ run'[w].pc = pc /\ run'[w].via = run[w].via /\ run'[w].r = run[w].r

LEMMA GotoComes ==
  ASSUME RunInv, NEW w \in Workers, NEW pc, Goto(w, pc)
  PROVE  Comes(w, pc)
  BY DEF RunInv, Goto, Comes, Execution

LEMMA SeenComes ==
  ASSUME RunInv, NEW w \in Workers, NEW pc, NEW rev, Seen(w, rev, pc)
  PROVE  Comes(w, pc)
  BY DEF RunInv, Seen, Comes, Execution

LEMMA NodeDoneComes ==
  ASSUME RunInv, NEW w \in Workers, NEW s \in PipelineStep, NodeDone(w, s)
  PROVE  Comes(w, After[s]) /\ After[s] \notin Entries
  <1>1. Comes(w, After[s])
    BY DEF RunInv, NodeDone, Comes, Execution
  <1> QED  BY <1>1, AfterType DEF PipelineStep, Entries

LEMMA NodeFailsComes ==
  ASSUME RunInv, NEW w \in Workers, NodeFails(w)
  PROVE  Comes(w, "merge_read")
  BY DEF RunInv, NodeFails, Comes, Execution

LEMMA QuitComes ==
  ASSUME RunInv, NEW w \in Workers, Quit(w)
  PROVE  (\A v \in Workers \ {w} : run'[v] = run[v]) /\ run'[w] = Idle
  BY DEF RunInv, Quit

\* An execution ends, or goes on to an await that is no entry, or passes the
\* entry by the one action that leads there.
Proceeds(w) ==
    /\ \A v \in Workers \ {w} : run'[v] = run[v]
    /\ run'[w] = Idle \/ run'[w].via = run[w].via
    /\ run'[w].pc \in Entries =>
          \/ run'[w].pc = "ensure_put" /\ EnsureJob(w) /\ job.form = "none"
          \/ run'[w].pc = "reset_index" /\ run[w].pc = "reset_patch"
          \/ run'[w].pc = "merge_patch" /\ ReadJobForMerge(w) /\ job.form = "full"
          \/ run'[w].pc = "analysis_write" /\ ReadAnalysis(w)

LEMMA ComesProceeds ==
  ASSUME NEW w \in Workers, NEW pc, Comes(w, pc), pc \notin Entries
  PROVE  Proceeds(w)
  BY DEF Comes, Proceeds

LEMMA IdleNoEntry == Idle.pc = "idle" /\ Idle.via = "none" /\ Idle.r = NoRec /\ "idle" \notin Entries
  BY DEF Idle, Entries

LEMMA QuitProceeds ==
  ASSUME RunInv, NEW w \in Workers, Quit(w)
  PROVE  Proceeds(w)
  BY QuitComes, IdleNoEntry DEF Proceeds

LEMMA SessionAProceeds ==
  ASSUME TypeInv, NEW w \in Workers, SessionA(w)
  PROVE  Proceeds(w)
  <1>0. RunInv
    BY TypeInvRun
  <1>1. CASE EnsureJob(w)
    <2>1. CASE Goto(w, "ensure_put") /\ job.form = "none"
      BY <1>0, <1>1, <2>1, GotoComes DEF Comes, Proceeds
    <2> QED
      BY <1>0, <1>1, <2>1, NodeDoneComes, NodeFailsComes, ComesProceeds
      DEF EnsureJob, PipelineStep, Entries
  <1>2. CASE EnsureJobPut(w) \/ CheckTranscription(w) \/ StartTranscription(w) \/ ReadJobForName(w)
             \/ PatchJobName(w) \/ ReadAcoustic(w) \/ PatchAcoustic(w)
    BY <1>0, <1>2, GotoComes, SeenComes, NodeDoneComes, NodeFailsComes, ComesProceeds
    DEF EnsureJobPut, CheckTranscription, StartTranscription, ReadJobForName, PatchJobName,
        ReadAcoustic, PatchAcoustic, PipelineStep, Entries
  <1> QED  BY <1>1, <1>2 DEF SessionA

LEMMA SessionBProceeds ==
  ASSUME TypeInv, NEW w \in Workers, SessionB(w)
  PROVE  Proceeds(w)
  <1>0. RunInv
    BY TypeInvRun
  <1>1. CASE LoadJob(w)
    <2>1. CASE run' = [run EXCEPT ![w].named = job.named, ![w].pc = "load_recording"]
      <3>1. Comes(w, "load_recording")
        BY <1>0, <2>1 DEF RunInv, Comes, Execution
      <3> QED  BY <3>1, ComesProceeds DEF Entries
    <2> QED
      BY <1>0, <1>1, <2>1, NodeFailsComes, ComesProceeds DEF LoadJob, Entries
  <1>2. CASE LoadRecording(w) \/ PatchTranscript(w) \/ ReadForSpeakers(w) \/ PatchSpeakers(w)
    BY <1>0, <1>2, SeenComes, NodeDoneComes, NodeFailsComes, ComesProceeds
    DEF LoadRecording, PatchTranscript, ReadForSpeakers, PatchSpeakers, PipelineStep, Entries
  <1>3. CASE SommelierAnalysis(w)
    <2>1. CASE NodeFails(w)
      BY <1>0, <2>1, NodeFailsComes, ComesProceeds DEF Entries
    <2>2. CASE ~NodeFails(w)
      <3> DEFINE B == {i \in Input : IF i = "transcript" THEN recs[run[w].r].transcript
                                                        ELSE recs[run[w].r].acoustic}
      <3>1. run' = [run EXCEPT ![w].output = TRUE, ![w].basis = B,
                               ![w].fresh = @ \union {"sommelier_analysis"},
                               ![w].pc = After["sommelier_analysis"]]
        BY <1>3, <2>2 DEF SommelierAnalysis
      <3> HIDE DEF B
      <3>2. Comes(w, After["sommelier_analysis"])
        BY <1>0, <3>1 DEF RunInv, Comes, Execution
      <3>3. After["sommelier_analysis"] \notin Entries
        BY AfterType DEF PipelineStep, Entries
      <3> QED  BY <3>2, <3>3, ComesProceeds
    <2> QED  BY <2>1, <2>2
  <1>4. CASE ConditionalNode(w)
    <2>1. \A s \in PipelineStep : After[s] \notin Entries
      BY AfterType DEF PipelineStep, Entries
    <2> QED
      BY <1>0, <1>4, <2>1, GotoComes, NodeDoneComes, ComesProceeds DEF ConditionalNode, PipelineStep
  <1>5. CASE ReadAnalysis(w)
    <2>1. CASE run[w].output
      <3>1. Comes(w, "analysis_write")
        BY <1>0, <1>5, <2>1, SeenComes DEF ReadAnalysis
      <3> QED  BY <1>5, <3>1 DEF Comes, Proceeds
    <2> QED  BY <1>0, <1>5, <2>1, NodeFailsComes, ComesProceeds DEF ReadAnalysis, Entries
  <1>6. CASE WriteAnalysis(w) \/ ReadJobForDone(w) \/ PatchJobDone(w)
             \/ ReadTasting(w) \/ PatchTasting(w) \/ Publish(w)
    BY <1>0, <1>6, GotoComes, SeenComes, NodeDoneComes, NodeFailsComes, ComesProceeds
    DEF WriteAnalysis, ReadJobForDone, PatchJobDone, ReadTasting, PatchTasting, Publish,
        PipelineStep, Entries
  <1> QED  BY <1>1, <1>2, <1>3, <1>4, <1>5, <1>6 DEF SessionB

LEMMA HandlerProceeds ==
  ASSUME TypeInv, NEW w \in Workers,
         \/ PutJob(w) \/ MarkTranscribing(w) \/ EnterSessionA(w)
         \/ MarkAnalyzing(w) \/ EnterSessionB(w)
         \/ SkipNode(w) \/ IndexJob(w) \/ ReadJobForMerge(w) \/ MergeSteps(w)
         \/ ResetJob(w) \/ ResetJobPut(w) \/ Crash(w) \/ NodeFault(w)
  PROVE  Proceeds(w)
  <1>0. RunInv
    BY TypeInvRun
  <1>1. CASE PutJob(w) \/ MarkTranscribing(w) \/ MarkAnalyzing(w) \/ IndexJob(w) \/ MergeSteps(w)
             \/ ResetJobPut(w) \/ Crash(w) \/ NodeFault(w)
    BY <1>0, <1>1, GotoComes, NodeDoneComes, NodeFailsComes, QuitProceeds, ComesProceeds
    DEF PutJob, MarkTranscribing, MarkAnalyzing, IndexJob, MergeSteps, ResetJobPut, Crash,
        NodeFault, Finish, PipelineStep, Entries
  <1>2. CASE ResetJob(w)
    BY <1>0, <1>2, GotoComes, QuitProceeds DEF ResetJob, At, Comes, Proceeds
  <1>3. CASE SkipNode(w)
    <2>1. run[w].pc \in PipelineStep
      BY <1>0, <1>3 DEF SkipNode, RunInv, Execution
    <2>2. After[run[w].pc] \notin Entries
      BY <2>1, AfterType DEF PipelineStep, Entries
    <2> QED  BY <1>0, <1>3, <2>2, GotoComes, ComesProceeds DEF SkipNode
  <1>4. CASE Quit(w)
    BY <1>0, <1>4, QuitProceeds
  <1>5. CASE EnterSessionA(w) /\ ~Quit(w)
    <2>1. Comes(w, "ensure_job")
      BY <1>0, <1>5 DEF EnterSessionA, Finish, RunInv, Execution, Comes
    <2> QED  BY <2>1, ComesProceeds DEF Entries
  <1>6. CASE EnterSessionB(w) /\ ~Quit(w)
    BY <1>0, <1>6 DEF EnterSessionB, Finish, RunInv, Execution, Proceeds, Entries
  <1>7. CASE ReadJobForMerge(w) /\ ~Quit(w)
    BY <1>0, <1>7 DEF ReadJobForMerge, Finish, RunInv, Execution, Proceeds
  <1> QED  BY <1>1, <1>2, <1>3, <1>4, <1>5, <1>6, <1>7
-----------------------------------------------------------------------------
(* The job of a tasting that nobody deletes                                *)

\* Once made, the job stays a whole item: every execution past its start has
\* it, so no unconditional update makes a stub, and ensure_job puts none.
JobFirst ==
    /\ job.form # "stub" /\ job.rec = NoRec
    /\ job.form = "none" => job.steps = {} /\ job.status = "unset"
    /\ \A w \in Workers :
          /\ run[w].pc # "ensure_put"
          /\ run[w].pc \notin {"idle", "job_put", "reset_put"} => job.form = "full"

FirstInv == ClaimInv /\ (NeverDeleted => JobFirst)

\* What a write may do to the job.
JobGoesOn ==
    /\ job'.form \in {job.form, "full"} /\ job'.rec = NoRec
    /\ job'.form = "none" => job' = job

LEMMA SessionJob ==
  ASSUME TypeInv, JobFirst, NEW w \in Workers, SessionA(w) \/ SessionB(w)
  PROVE  JobGoesOn
  <1>1. CASE SessionA(w)
    <2>1. ~EnsureJobPut(w)
      BY DEF EnsureJobPut, At, JobFirst
    <2> QED
      BY <1>1, <2>1 DEF SessionA, EnsureJob, CheckTranscription, StartTranscription, ReadJobForName,
         PatchJobName, JobUnchanged, ReadAcoustic, PatchAcoustic, items, TypeInv, TypeOK, Job,
         JobFirst, JobGoesOn
  <1>2. CASE SessionB(w)
    BY <1>2 DEF SessionB, LoadJob, LoadRecording, PatchTranscript, ReadForSpeakers, PatchSpeakers,
       SommelierAnalysis, ConditionalNode, ReadAnalysis, WriteAnalysis, ReadJobForDone,
       PatchJobDone, JobUnchanged, ReadTasting, PatchTasting, Publish, items, TypeInv, TypeOK, Job,
       JobFirst, JobGoesOn
  <1> QED  BY <1>1, <1>2

LEMMA HandlerJob ==
  ASSUME TypeInv, JobFirst, NEW w \in Workers,
         \/ PutJob(w) \/ MarkTranscribing(w) \/ EnterSessionA(w)
         \/ MarkAnalyzing(w) \/ EnterSessionB(w)
         \/ SkipNode(w) \/ IndexJob(w) \/ ReadJobForMerge(w) \/ MergeSteps(w)
         \/ ResetJob(w) \/ ResetJobPut(w) \/ Crash(w) \/ NodeFault(w)
  PROVE  /\ JobGoesOn
         /\ run[w].pc \in {"job_put", "reset_put"} => job'.form = "full" \/ run'[w] = Idle
  <1>1. CASE PutJob(w) \/ ResetJobPut(w)
    BY <1>1 DEF PutJob, ResetJobPut, NewJob, NoJob, JobGoesOn
  <1>2. CASE \/ MarkTranscribing(w) \/ MarkAnalyzing(w) \/ IndexJob(w) \/ MergeSteps(w) \/ ResetJob(w)
    <2>1. job.form = "full"
      BY <1>2 DEF MarkTranscribing, MarkAnalyzing, IndexJob, MergeSteps, ResetJob, At, JobFirst
    <2> QED
      BY <1>2, <2>1 DEF MarkTranscribing, MarkAnalyzing, IndexJob, MergeSteps, ResetJob, TypeInv,
         TypeOK, Job, JobFirst, JobGoesOn
  <1>3. CASE \/ EnterSessionA(w) \/ EnterSessionB(w) \/ SkipNode(w) \/ ReadJobForMerge(w)
             \/ NodeFault(w)
    <2>1. job' = job /\ run[w].pc \in Pcs
      BY <1>3, PcsType DEF EnterSessionA, EnterSessionB, SkipNode, ReadJobForMerge, NodeFault, items,
         TypeInv, TypeOK, Execution, Pcs
    <2>2. run[w].pc \notin {"job_put", "reset_put"}
      BY <1>3 DEF EnterSessionA, EnterSessionB, SkipNode, ReadJobForMerge, NodeFault, At, TypeInv,
         TypeOK, Execution, NodeSteps, PipelineStep
    <2> QED  BY <2>1, <2>2 DEF JobFirst, JobGoesOn
  <1>4. CASE Crash(w)
    <2>1. job' = job /\ run'[w] = Idle
      BY <1>4, QuitComes, TypeInvRun DEF Crash, items
    <2> QED  BY <2>1 DEF JobFirst, JobGoesOn
  <1> QED  BY <1>1, <1>2, <1>3, <1>4

\* How the executions begin.
LEMMA UploadStarts ==
  ASSUME TypeInv, NEW w \in Workers, NEW r \in Recordings, TriggerUpload(w, r)
  PROVE  /\ \A v \in Workers \ {w} : run'[v] = run[v]
         /\ \/ run' = run
            \/ /\ run'[w].via = "upload" /\ run'[w].r = r
               /\ run'[w].pc = IF job.form = "none" THEN "job_put" ELSE "mark_transcribing"
  <1> DEFINE pc == IF job.form = "none" THEN "job_put" ELSE "mark_transcribing"
  <1>1. run' = run \/ run' = [run EXCEPT ![w] = [Idle EXCEPT !.via = "upload", !.r = r, !.pc = pc]]
    BY DEF TriggerUpload
  <1>2. run \in [Workers -> Execution]
    BY DEF TypeInv, TypeOK
  <1> HIDE DEF pc
  <1>3. \/ run' = run
        \/ run'[w].via = "upload" /\ run'[w].r = r /\ run'[w].pc = pc
    BY <1>1, <1>2 DEF Idle
  <1>4. \A v \in Workers \ {w} : run'[v] = run[v]
    BY <1>1, <1>2
  <1> QED  BY <1>3, <1>4 DEF pc

LEMMA EventStarts ==
  ASSUME TypeInv, NEW w \in Workers, NEW r \in Recordings, TriggerTranscribe(w, r)
  PROVE  /\ \A v \in Workers \ {w} : run'[v] = run[v]
         /\ \/ run' = run
            \/ /\ run'[w].via = "event" /\ run'[w].pc = "mark_analyzing"
               /\ job.form # "none"
  BY DEF TriggerTranscribe, Idle, TypeInv, TypeOK

LEMMA RouteStarts ==
  ASSUME TypeInv, NEW w \in Workers, Reanalyze(w)
  PROVE  /\ \A v \in Workers \ {w} : run'[v] = run[v]
         /\ \/ run' = run
            \/ /\ run'[w].via = "route" /\ run'[w].r = NoRec
               /\ run'[w].pc = IF job.form = "full" THEN "reset_patch" ELSE "reset_put"
  <1> DEFINE pc == IF job.form = "full" THEN "reset_patch" ELSE "reset_put"
             rev == IF job.form = "full" THEN job.rev ELSE unseen
  <1>1. run' = run \/ run' = [run EXCEPT ![w] = [Idle EXCEPT !.via = "route", !.rev = rev, !.pc = pc]]
    BY DEF Reanalyze
  <1>2. run \in [Workers -> Execution]
    BY DEF TypeInv, TypeOK
  <1> HIDE DEF pc, rev
  <1>3. \/ run' = run
        \/ run'[w].via = "route" /\ run'[w].r = NoRec /\ run'[w].pc = pc
    BY <1>1, <1>2 DEF Idle
  <1>4. \A v \in Workers \ {w} : run'[v] = run[v]
    BY <1>1, <1>2
  <1> QED  BY <1>3, <1>4 DEF pc

\* A step at which nobody deletes and no deletion runs.
LEMMA FirstStep ==
  ASSUME TypeInv, JobFirst, Next,
         ~ \E w \in Workers : StartDelete(w) \/ DeleteNext(w)
  PROVE  JobFirst'
  <1>1. ASSUME JobGoesOn, NEW w \in Workers, Proceeds(w),
               run[w].pc \in {"idle", "job_put", "reset_put"} => job'.form = "full" \/ run'[w] = Idle
        PROVE  JobFirst'
    <2>1. job'.form = "full" \/ (job' = job /\ job.form = "none")
      BY <1>1 DEF JobFirst, JobGoesOn, TypeInv, TypeOK, Job
    <2>2. job.form = "full" => job'.form = "full"
      BY <1>1 DEF JobGoesOn
    <2>3. run'[w].pc # "ensure_put" /\ (run'[w].pc \notin {"idle", "job_put", "reset_put"}
                                         => job'.form = "full")
      <3>1. CASE run'[w].pc = "ensure_put"
        BY <1>1, <3>1, IdleNoEntry DEF Proceeds, Entries, EnsureJob, Runs, At, JobFirst
      <3>2. CASE run'[w].pc # "ensure_put"
        BY <1>1, <2>2, <3>2, IdleNoEntry DEF JobFirst
      <3> QED  BY <3>1, <3>2
    <2>4. \A v \in Workers \ {w} : run'[v] = run[v]
      BY <1>1 DEF Proceeds
    <2> QED  BY <1>1, <2>1, <2>2, <2>3, <2>4 DEF JobFirst, JobGoesOn
  <1>2. ASSUME NEW w \in Workers, SessionA(w) \/ SessionB(w) PROVE JobFirst'
    <2>1. run[w].pc \notin {"idle", "job_put", "reset_put"}
      <3>1. CASE SessionA(w)
        BY <3>1 DEF SessionA, EnsureJob, EnsureJobPut, CheckTranscription, StartTranscription,
           ReadJobForName, PatchJobName, ReadAcoustic, PatchAcoustic, Runs, At
      <3>2. CASE SessionB(w)
        BY <3>2 DEF SessionB, LoadJob, LoadRecording, PatchTranscript, ReadForSpeakers, PatchSpeakers,
           SommelierAnalysis, ConditionalNode, ReadAnalysis, WriteAnalysis, ReadJobForDone,
           PatchJobDone, ReadTasting, PatchTasting, Publish, Runs, At
      <3> QED  BY <1>2, <3>1, <3>2
    <2> QED  BY <1>1, <1>2, <2>1, SessionJob, SessionAProceeds, SessionBProceeds
  <1>3. ASSUME NEW w \in Workers,
               \/ PutJob(w) \/ MarkTranscribing(w) \/ EnterSessionA(w)
               \/ MarkAnalyzing(w) \/ EnterSessionB(w)
               \/ SkipNode(w) \/ IndexJob(w) \/ ReadJobForMerge(w) \/ MergeSteps(w)
               \/ ResetJob(w) \/ ResetJobPut(w) \/ Crash(w) \/ NodeFault(w)
        PROVE  JobFirst'
    <2>1. run[w].pc # "idle"
      BY <1>3 DEF PutJob, MarkTranscribing, EnterSessionA, MarkAnalyzing, EnterSessionB, SkipNode,
         IndexJob, ReadJobForMerge, MergeSteps, ResetJob, ResetJobPut, Crash, NodeFault, At, TypeInv,
         TypeOK, Execution, NodeSteps, PipelineStep
    <2> QED  BY <1>1, <1>3, <2>1, HandlerJob, HandlerProceeds
  <1>4. ASSUME NEW w \in Workers,
               Reanalyze(w) \/ \E r \in Recordings : TriggerUpload(w, r) \/ TriggerTranscribe(w, r)
        PROVE  JobFirst'
    <2>1. job' = job /\ run[w].pc = "idle"
      BY <1>4 DEF Reanalyze, TriggerUpload, TriggerTranscribe, items, At
    <2>2. \A v \in Workers \ {w} : run'[v] = run[v]
      BY <1>4, UploadStarts, EventStarts, RouteStarts
    <2>3. /\ job.form = "none" => run'[w].pc \in {"idle", "job_put", "reset_put"}
          /\ run'[w].pc # "ensure_put"
      BY <1>4, <2>1, UploadStarts, EventStarts, RouteStarts
    <2>4. job.form \in {"none", "full"}
      BY DEF JobFirst, TypeInv, TypeOK, Job
    <2> QED  BY <2>1, <2>2, <2>3, <2>4 DEF JobFirst
  <1>5. CASE EditSummary \/ \E r \in Recordings : Upload(r) \/ TranscribeEnds(r) \/ OverrideSpeakers(r)
    BY <1>5 DEF EditSummary, Upload, TranscribeEnds, OverrideSpeakers, items, JobFirst
  <1> QED  BY <1>2, <1>3, <1>4, <1>5 DEF Next, Continue

LEMMA FirstStarts == Init => FirstInv
  <1> SUFFICES ASSUME Init PROVE JobFirst
    BY InitClaims DEF FirstInv
  <1> QED  BY IdleNoEntry DEF Init, JobFirst, NoJob

LEMMA FirstStays == FirstInv /\ [Next]_vars => FirstInv'
  <1> SUFFICES ASSUME FirstInv, [Next]_vars, NeverDeleted' PROVE JobFirst'
    BY StepClaims DEF FirstInv
  <1>1. TypeInv /\ Supported /\ JobFirst /\ ~ \E w \in Workers : StartDelete(w)
    BY DeletesSpent DEF FirstInv, ClaimInv
  <1>2. ~ \E w \in Workers : DeleteNext(w)
    BY <1>1 DEF Supported, DeleteNext, At
  <1>3. CASE UNCHANGED vars
    BY <1>1, <1>3 DEF vars, JobFirst
  <1> QED  BY <1>1, <1>2, <1>3, FirstStep

-----------------------------------------------------------------------------
(* A crash keeps the upload                                                *)

\* Continuing an execution costs no budget.
LEMMA ContinueSpends ==
  ASSUME NEW w \in Workers, Continue(w)
  PROVE  left' = left
  <1>1. CASE SessionA(w)
    BY <1>1 DEF SessionA, EnsureJob, EnsureJobPut, CheckTranscription, StartTranscription,
       ReadJobForName, PatchJobName, ReadAcoustic, PatchAcoustic
  <1>2. CASE SessionB(w)
    BY <1>2 DEF SessionB, LoadJob, LoadRecording, PatchTranscript, ReadForSpeakers,
       PatchSpeakers, SommelierAnalysis, ConditionalNode, ReadAnalysis, WriteAnalysis,
       ReadJobForDone, PatchJobDone, ReadTasting, PatchTasting, Publish
  <1>3. CASE ~SessionA(w) /\ ~SessionB(w)
    BY <1>3 DEF Continue, PutJob, MarkTranscribing, EnterSessionA, MarkAnalyzing,
       EnterSessionB, SkipNode, IndexJob, ReadJobForMerge, MergeSteps, ResetJob, ResetJobPut,
       DeleteNext
  <1> QED  BY <1>1, <1>2, <1>3

BudgetsKept == left.nodeFaults <= MaxNodeFaults /\ left.reanalyses <= MaxReanalyses

LEMMA BudgetsFall ==
  ASSUME TypeInv, BudgetsKept, [Next]_vars
  PROVE  /\ BudgetsKept'
         /\ left'.nodeFaults = MaxNodeFaults =>
               left.nodeFaults = MaxNodeFaults /\ ~ \E w \in Workers : NodeFault(w)
         /\ left'.reanalyses = MaxReanalyses =>
               left.reanalyses = MaxReanalyses /\ ~ \E w \in Workers : Reanalyze(w)
  <1>1. /\ left \in Budget /\ left.nodeFaults \in Nat /\ left.reanalyses \in Nat
        /\ MaxNodeFaults \in Nat /\ MaxReanalyses \in Nat
    BY BoundsAssumption DEF TypeInv, TypeOK, Budget
  <1>2. CASE \E w \in Workers : NodeFault(w)
    <2>1. left' = [left EXCEPT !.nodeFaults = @ - 1]
      BY <1>2 DEF NodeFault
    <2>2. left'.nodeFaults = left.nodeFaults - 1 /\ left'.reanalyses = left.reanalyses
      BY <1>1, <2>1 DEF Budget
    <2>3. ~ \E w \in Workers : Reanalyze(w)
      <3>1. SUFFICES ASSUME NEW w \in Workers, Reanalyze(w) PROVE FALSE
        OBVIOUS
      <3>2. left'.reanalyses = left.reanalyses - 1
        BY <1>1, <3>1 DEF Reanalyze, Budget
      <3> QED  BY <1>1, <2>2, <3>2
    <2> QED  BY <1>1, <2>2, <2>3 DEF BudgetsKept
  <1>3. CASE \E w \in Workers : Reanalyze(w)
    <2>1. left' = [left EXCEPT !.reanalyses = @ - 1]
      BY <1>3 DEF Reanalyze
    <2>2. left'.nodeFaults = left.nodeFaults /\ left'.reanalyses = left.reanalyses - 1
      BY <1>1, <2>1 DEF Budget
    <2>3. CASE ~ \E w \in Workers : NodeFault(w)
      BY <1>1, <2>2, <2>3 DEF BudgetsKept
    <2> QED  BY <1>2, <2>3
  <1>4. CASE ~(\E w \in Workers : NodeFault(w) \/ Reanalyze(w))
    <2>1. left'.reanalyses = left.reanalyses /\ left'.nodeFaults \in {left.nodeFaults, left.nodeFaults - 1}
      <3>1. CASE UNCHANGED vars
        BY <3>1 DEF vars
      <3>2. CASE \E r \in Recordings : Upload(r) \/ TranscribeEnds(r) \/ OverrideSpeakers(r)
        BY <1>1, <3>2 DEF Upload, TranscribeEnds, OverrideSpeakers, Budget
      <3>3. CASE \E w \in Workers, r \in Recordings : TriggerUpload(w, r) \/ TriggerTranscribe(w, r)
        BY <3>3 DEF TriggerUpload, TriggerTranscribe
      <3>4. CASE EditSummary \/ \E w \in Workers : StartDelete(w) \/ Crash(w)
        BY <1>1, <3>4 DEF EditSummary, StartDelete, Crash, Budget
      <3> QED  BY <1>4, <3>1, <3>2, <3>3, <3>4, ContinueSpends DEF Next
    <2> QED  BY <1>1, <1>4, <2>1 DEF BudgetsKept
  <1> QED  BY <1>2, <1>3, <1>4

Unfailed == OneRecording /\ NeverDeleted /\ left.nodeFaults = MaxNodeFaults
Started == \A r \in Recordings : transcribe[r] # "none"

\* The awaits an execution can be at before StartTranscriptionJob.
EarlySteps ==
    {"idle", "job_put", "mark_transcribing", "enter_a", "ensure_job", "start_transcription",
     "transcribe_start", "enter_b", "reset_patch", "reset_put", "reset_index"}

\* Those of them that only the re-analysis route comes to, without a recording.
RouteSteps == {"enter_b", "reset_patch", "reset_put", "reset_index"}

\* Nothing has happened by which a message could be taken as dealt with.
NotYet ==
    /\ job.status \notin BeyondQueued
    /\ \A r \in Recordings : ~uploads[r].acked /\ ~events[r].sent
    /\ \A w \in Workers : /\ run[w].pc \in EarlySteps
                          /\ run[w].pc \in RouteSteps => run[w].r = NoRec

CrashInv == FirstInv /\ BudgetsKept /\ (Unfailed => Started \/ NotYet)

\* With one recording a step of session A either starts the transcription or
\* leaves everything unsaid.
LEMMA NotYetStep ==
  ASSUME TypeInv, TypeInv', Supported, JobFirst, OneRecording, NotYet, NEW w \in Workers,
         \A r \in Recordings : transcribe[r] = "none",
         \/ PutJob(w) \/ MarkTranscribing(w) \/ EnterSessionA(w)
         \/ EnsureJob(w) \/ CheckTranscription(w) \/ StartTranscription(w)
         \/ SkipNode(w) \/ IndexJob(w) \/ EnterSessionB(w)
         \/ ResetJob(w) \/ ResetJobPut(w) \/ Crash(w)
  PROVE  Started' \/ NotYet'
  <1>0. RunInv /\ run[w].pc \in EarlySteps /\ JobFirst /\ WorkerSupported(w)
    BY TypeInvRun DEF NotYet, Supported
  <1>1. ASSUME job'.status \notin BeyondQueued, uploads' = uploads, events' = events,
               \A v \in Workers \ {w} : run'[v] = run[v],
               run'[w].pc \in EarlySteps, run'[w].pc \in RouteSteps => run'[w].r = NoRec
        PROVE  NotYet'
    BY <1>1 DEF NotYet
  <1>2. ASSUME NEW pc \in EarlySteps, Comes(w, pc), pc \in RouteSteps => run[w].r = NoRec,
               job'.status \notin BeyondQueued, uploads' = uploads, events' = events
        PROVE  NotYet'
    BY <1>1, <1>2 DEF Comes
  <1>3. ASSUME Quit(w), job'.status \notin BeyondQueued, uploads' = uploads, events' = events
        PROVE  NotYet'
    BY <1>0, <1>1, <1>3, QuitComes, IdleNoEntry DEF EarlySteps, RouteSteps
  <1>4. CASE PutJob(w) \/ MarkTranscribing(w)
    BY <1>0, <1>2, <1>4, GotoComes DEF PutJob, MarkTranscribing, queues, NewJob, NoJob, BeyondQueued,
       EarlySteps, RouteSteps, TypeInv, TypeOK, Job
  <1>5. CASE EnterSessionA(w)
    <2>1. job.form = "full" /\ job.status \notin BeyondQueued
      BY <1>5 DEF EnterSessionA, At, JobFirst, NotYet
    <2>2. run' = [run EXCEPT ![w].steps = job.steps, ![w].pc = "ensure_job"] /\ UNCHANGED queues
      BY <1>5, <2>1 DEF EnterSessionA
    <2>3. Comes(w, "ensure_job")
      BY <1>0, <2>2 DEF RunInv, Execution, Comes
    <2> QED  BY <1>2, <1>5, <2>1, <2>2, <2>3 DEF EnterSessionA, items, queues, EarlySteps, RouteSteps
  <1>6. CASE EnsureJob(w)
    <2>1. job.form = "full"
      BY <1>6 DEF EnsureJob, Runs, At, JobFirst
    <2>2. NodeDone(w, "ensure_job")
      BY <1>6, <2>1 DEF EnsureJob
    <2>3. Comes(w, "start_transcription")
      <3>1. "ensure_job" \in PipelineStep /\ After["ensure_job"] = "start_transcription"
        BY DEF After, PipelineStep
      <3> QED  BY <1>0, <2>2, <3>1, NodeDoneComes
    <2> QED  BY <1>2, <1>6, <2>3 DEF EnsureJob, items, queues, EarlySteps, RouteSteps, NotYet
  <1>7. CASE CheckTranscription(w) \/ StartTranscription(w)
    <2>1. run[w].r \in Recordings
      BY <1>7, HasRecording DEF CheckTranscription, StartTranscription, Runs, At, RecordingSteps, NodeSteps,
         PipelineStep
    <2>2. CASE Goto(w, "transcribe_start") /\ UNCHANGED <<items, queues>>
      BY <1>0, <1>2, <2>2, GotoComes DEF items, queues, EarlySteps, RouteSteps, NotYet
    <2>3. CASE transcribe' = [transcribe EXCEPT ![run[w].r] = "running"]
      <3>1. transcribe'[run[w].r] # "none"
        BY <2>1, <2>3 DEF TypeInv, TypeOK
      <3> QED  BY <2>1, <3>1 DEF Started, OneRecording
    <2> QED  BY <1>7, <2>1, <2>2, <2>3 DEF CheckTranscription, StartTranscription
  <1>8. CASE SkipNode(w)
    <2>1. "start_transcription" \notin run[w].steps
      BY <1>0 DEF WorkerSupported, Backed, Earned
    <2>2. run[w].pc = "ensure_job"
      BY <1>0, <1>8, <2>1 DEF SkipNode, EarlySteps, RunInv, Execution, PipelineStep
    <2>3. After["ensure_job"] = "start_transcription"
      BY DEF After, PipelineStep
    <2>4. Comes(w, "start_transcription")
      BY <1>0, <1>8, <2>2, <2>3, GotoComes DEF SkipNode
    <2> QED  BY <1>2, <1>8, <2>4 DEF SkipNode, items, queues, EarlySteps, RouteSteps, NotYet
  <1>9. CASE IndexJob(w)
    <2>1. run[w].pc = "reset_index"
      BY <1>0, <1>9 DEF IndexJob, EarlySteps
    <2>2. Comes(w, "enter_b") /\ UNCHANGED queues
      BY <1>0, <1>9, <2>1, GotoComes DEF IndexJob, At
    <2>3. job'.status \notin BeyondQueued
      BY <1>9 DEF IndexJob, NotYet, TypeInv, TypeOK, Job
    <2>4. run[w].r = NoRec
      BY <2>1 DEF NotYet, RouteSteps
    <2> QED  BY <1>2, <2>2, <2>3, <2>4 DEF queues, EarlySteps, RouteSteps
  <1>10. CASE EnterSessionB(w)
    <2>1. run[w].r = NoRec /\ job.rec = NoRec /\ job.form # "stub" /\ job.status # "completed"
      BY <1>10 DEF EnterSessionB, At, NotYet, RouteSteps, JobFirst, BeyondQueued
    <2>2. Quit(w) /\ UNCHANGED queues
      BY <1>10, <2>1 DEF EnterSessionB
    <2> QED  BY <1>3, <1>10, <2>2 DEF EnterSessionB, items, queues, NotYet
  <1>11. CASE ResetJob(w) \/ ResetJobPut(w)
    <2>1. run[w].r = NoRec
      BY <1>11 DEF ResetJob, ResetJobPut, At, NotYet, RouteSteps
    <2>2. job' \in {job, NewJob, [job EXCEPT !.status = "queued", !.steps = {}, !.rev = @ + 1]}
      BY <1>11, Zenon DEF ResetJob, ResetJobPut
    <2>3. job'.status \notin BeyondQueued
      BY <2>2 DEF NotYet, NewJob, NoJob, BeyondQueued, TypeInv, TypeOK, Job
    <2>4. Quit(w) \/ Comes(w, "reset_index") \/ Comes(w, "enter_b")
      BY <1>0, <1>11, GotoComes DEF ResetJob, ResetJobPut
    <2>5. UNCHANGED queues
      BY <1>11 DEF ResetJob, ResetJobPut
    <2>6. CASE Quit(w)
      BY <1>3, <2>3, <2>5, <2>6 DEF queues, NotYet
    <2>7. CASE Comes(w, "reset_index") \/ Comes(w, "enter_b")
      BY <1>2, <2>1, <2>3, <2>5, <2>7 DEF queues, NotYet, EarlySteps, RouteSteps
    <2> QED  BY <2>4, <2>6, <2>7
  <1>12. CASE Crash(w)
    BY <1>3, <1>12 DEF Crash, items, queues, NotYet
  <1> QED  BY <1>4, <1>5, <1>6, <1>7, <1>8, <1>9, <1>10, <1>11, <1>12

LEMMA StepCrash == CrashInv /\ [Next]_vars => CrashInv'
  <1> SUFFICES ASSUME CrashInv, [Next]_vars, FirstInv', Unfailed'
               PROVE  Started' \/ NotYet'
    BY FirstStays, BudgetsFall DEF CrashInv, FirstInv, ClaimInv
  <1>1. /\ TypeInv /\ TypeInv' /\ Supported /\ JobFirst
        /\ Unfailed /\ (Started \/ NotYet)
        /\ ~ \E w \in Workers : StartDelete(w) \/ DeleteNext(w) \/ NodeFault(w)
    <2>1. /\ TypeInv /\ TypeInv' /\ ClaimInv /\ BudgetsKept /\ NeverDeleted /\ Unfailed
          /\ ~ \E w \in Workers : StartDelete(w) \/ NodeFault(w)
      BY DeletesSpent, BudgetsFall DEF CrashInv, FirstInv, ClaimInv, Unfailed, OneRecording
    <2>2. ~ \E w \in Workers : DeleteNext(w)
      BY <2>1 DEF ClaimInv, Supported, DeleteNext, At
    <2> QED  BY <2>1, <2>2 DEF CrashInv, FirstInv, ClaimInv
  <1>2. CASE Started
    <2>1. Grows
      BY <1>1, StepEffect
    <2> QED  BY <1>2, <2>1 DEF Started, Grows
  <1>3. CASE ~Started
    <2>1. NotYet /\ OneRecording /\ \A r \in Recordings : transcribe[r] = "none"
      BY <1>1, <1>3 DEF Started, Unfailed, OneRecording
    <2>2. ASSUME run' = run, job' = job, \A r \in Recordings : ~uploads'[r].acked /\ ~events'[r].sent
          PROVE  NotYet'
      BY <2>1, <2>2 DEF NotYet
    <2>3. CASE UNCHANGED vars
      BY <2>1, <2>2, <2>3 DEF vars, NotYet
    <2>4. CASE EditSummary \/ \E r \in Recordings : OverrideSpeakers(r)
      BY <2>1, <2>2, <2>4 DEF EditSummary, OverrideSpeakers, queues, NotYet
    <2>5. ASSUME NEW r \in Recordings, Upload(r) PROVE NotYet'
      BY <1>1, <2>1, <2>2, <2>5 DEF Upload, items, NotYet, TypeInv, TypeOK, Delivery
    <2>6. ASSUME NEW r \in Recordings, TranscribeEnds(r) PROVE FALSE
      BY <2>1, <2>6 DEF TranscribeEnds
    <2>7. ASSUME NEW w \in Workers, NEW r \in Recordings, TriggerUpload(w, r) PROVE NotYet'
      <3>1. \A q \in Recordings : ~uploads'[q].acked
        <4>1. ~(job.form # "none" /\ job.status \in BeyondQueued)
          BY <2>1 DEF NotYet
        <4>2. uploads' = [uploads EXCEPT ![r].got = @ + 1, ![r].acked = @ \/ FALSE]
          BY <2>7, <4>1 DEF TriggerUpload
        <4> QED  BY <1>1, <2>1, <4>2 DEF NotYet, TypeInv, TypeOK, Delivery
      <3>2. /\ \A v \in Workers \ {w} : run'[v] = run[v]
            /\ run' = run \/ run'[w].pc \in {"job_put", "mark_transcribing"}
        BY <1>1, <2>7, UploadStarts
      <3>3. job' = job /\ events' = events
        BY <2>7 DEF TriggerUpload, items
      <3> QED  BY <2>1, <3>1, <3>2, <3>3 DEF NotYet, EarlySteps, RouteSteps
    <2>8. ASSUME NEW w \in Workers, NEW r \in Recordings, TriggerTranscribe(w, r) PROVE FALSE
      BY <2>1, <2>8 DEF TriggerTranscribe, NotYet
    <2>9. ASSUME NEW w \in Workers, Reanalyze(w) PROVE NotYet'
      <3>1. /\ \A v \in Workers \ {w} : run'[v] = run[v]
            /\ run' = run \/ (run'[w].pc \in {"reset_patch", "reset_put"} /\ run'[w].r = NoRec)
        BY <1>1, <2>9, RouteStarts
      <3> QED
        BY <2>1, <2>9, <3>1 DEF Reanalyze, items, queues, NotYet, EarlySteps, RouteSteps
    <2>10. ASSUME NEW w \in Workers, Crash(w) \/ Continue(w) PROVE Started' \/ NotYet'
      <3>1. run[w].pc \in EarlySteps
        BY <2>1 DEF NotYet
      <3>2. ~EnsureJobPut(w) /\ ~ReadJobForName(w) /\ ~PatchJobName(w) /\ ~ReadAcoustic(w) /\ ~PatchAcoustic(w)
        BY <3>1 DEF EnsureJobPut, ReadJobForName, PatchJobName, ReadAcoustic, PatchAcoustic, Runs, At, EarlySteps
      <3>3. ~SessionB(w)
        BY <3>1 DEF SessionB, LoadJob, LoadRecording, PatchTranscript, ReadForSpeakers, PatchSpeakers,
           SommelierAnalysis, ConditionalNode, ReadAnalysis, WriteAnalysis, ReadJobForDone,
           PatchJobDone, ReadTasting, PatchTasting, Publish, Runs, At, EarlySteps
      <3>4. ~MarkAnalyzing(w) /\ ~ReadJobForMerge(w) /\ ~MergeSteps(w)
        BY <3>1 DEF MarkAnalyzing, ReadJobForMerge, MergeSteps, At, EarlySteps
      <3> QED
        BY <1>1, <2>1, <2>10, <3>2, <3>3, <3>4, NotYetStep DEF Continue, SessionA
    <2> QED  BY <1>1, <2>3, <2>4, <2>5, <2>6, <2>7, <2>8, <2>9, <2>10 DEF Next
  <1> QED  BY <1>2, <1>3

LEMMA CrashHolds == Spec => []CrashInv
  <1>1. Init => CrashInv
    <2> SUFFICES ASSUME Init PROVE BudgetsKept /\ NotYet
      BY FirstStarts DEF CrashInv
    <2>1. BudgetsKept
      BY BoundsAssumption DEF Init, BudgetsKept
    <2>2. NotYet
      BY IdleNoEntry DEF Init, NotYet, NoJob, BeyondQueued, NotSent, EarlySteps, RouteSteps
    <2> QED  BY <2>1, <2>2
  <1> QED  BY <1>1, StepCrash, PTL DEF Spec

\* A crash anywhere between the receive and StartTranscriptionJob loses no
\* upload: SQS keeps the message of a tasting with one recording until its
\* transcription has been started, unless a node has failed.
THEOREM CrashesKeepUploads == Spec => []CrashKeepsUpload
  <1>1. CrashInv => CrashKeepsUpload
    BY DEF CrashInv, Unfailed, Started, NotYet, CrashKeepsUpload, UploadStarted
  <1> QED  BY <1>1, CrashHolds, PTL
-----------------------------------------------------------------------------
(* Sessions that merge their steps at once lose none                       *)

\* The execution of the one upload message is the only one that may put the
\* job, and does so before anybody has it; a merge whose rev still is the
\* job's has read the job's steps.
MergeOk ==
    \A w \in Workers :
        /\ run[w].pc \notin {"reset_patch", "reset_put", "reset_index"}
        /\ run[w].via = "upload" =>
              /\ \A r \in Recordings : uploads[r].got >= 1
              /\ \A v \in Workers : run[v].via = "upload" => v = w
        /\ run[w].pc = "job_put" => job.form = "none" /\ run[w].via = "upload"
        /\ run[w].pc = "merge_patch" =>
              /\ run[w].rev <= job.rev
              /\ run[w].rev = job.rev => job.steps \subseteq run[w].steps

MergeInv == FirstInv /\ BudgetsKept /\ (NeverDeleted /\ JobMadeOnce => MergeOk)

\* What every step but the first put leaves of the job.
JobGrows ==
    /\ job.rev <= job'.rev
    /\ job.rev = job'.rev => job'.steps = job.steps
    /\ job.steps \subseteq job'.steps

LEMMA JobPatches ==
  ASSUME TypeInv, NEW st, NEW steps, job.steps \subseteq steps
  PROVE  /\ job' = job => JobGrows
         /\ job' = [job EXCEPT !.named = TRUE, !.status = st, !.rev = @ + 1] => JobGrows
         /\ job' = [job EXCEPT !.status = st, !.rev = @ + 1] => JobGrows
         /\ job' = [job EXCEPT !.steps = steps, !.rev = @ + 1] => JobGrows
         /\ job' = [job EXCEPT !.status = st] => JobGrows
         /\ job' = [job EXCEPT !.status = st, !.form = IF @ = "none" THEN "stub" ELSE @] => JobGrows
         /\ job' = [job EXCEPT !.form = "stub"] => JobGrows
  <1>0. job.rev \in Nat /\ job.rev <= job.rev + 1 /\ job.rev # job.rev + 1 /\ job.rev <= job.rev
    BY RevType
  <1>1. ASSUME job'.rev \in {job.rev, job.rev + 1}, job.steps \subseteq job'.steps,
               job'.rev = job.rev => job'.steps = job.steps
        PROVE  JobGrows
    BY <1>0, <1>1 DEF JobGrows
  <1>2. job \in Job
    BY DEF TypeInv, TypeOK
  <1>3. job' = job => JobGrows
    BY <1>1
  <1>4. job' = [job EXCEPT !.named = TRUE, !.status = st, !.rev = @ + 1] => JobGrows
    BY <1>1, <1>2 DEF Job
  <1>5. job' = [job EXCEPT !.status = st, !.rev = @ + 1] => JobGrows
    BY <1>1, <1>2 DEF Job
  <1>6. job' = [job EXCEPT !.steps = steps, !.rev = @ + 1] => JobGrows
    <2> SUFFICES ASSUME job' = [job EXCEPT !.steps = steps, !.rev = @ + 1] PROVE JobGrows
      OBVIOUS
    <2>1. job'.rev = job.rev + 1 /\ job'.steps = steps
      BY <1>2 DEF Job
    <2> QED  BY <1>0, <1>1, <2>1
  <1>7. job' = [job EXCEPT !.status = st] => JobGrows
    BY <1>1, <1>2 DEF Job
  <1>8. job' = [job EXCEPT !.status = st, !.form = IF @ = "none" THEN "stub" ELSE @] => JobGrows
    BY <1>1, <1>2 DEF Job
  <1>9. job' = [job EXCEPT !.form = "stub"] => JobGrows
    BY <1>1, <1>2 DEF Job
  <1> QED  BY <1>3, <1>4, <1>5, <1>6, <1>7, <1>8, <1>9

LEMMA SessionGrows ==
  ASSUME TypeInv, JobFirst, NEW w \in Workers, SessionA(w) \/ SessionB(w)
  PROVE  JobGrows
  <1>1. CASE SessionA(w)
    <2>1. ~EnsureJobPut(w)
      BY DEF EnsureJobPut, At, JobFirst
    <2> QED
      BY <1>1, <2>1, JobPatches DEF SessionA, EnsureJob, CheckTranscription, StartTranscription,
         ReadJobForName, PatchJobName, ReadAcoustic, PatchAcoustic, items
  <1>2. CASE SessionB(w)
    BY <1>2, JobPatches DEF SessionB, LoadJob, LoadRecording, PatchTranscript, ReadForSpeakers, PatchSpeakers,
       SommelierAnalysis, ConditionalNode, ReadAnalysis, WriteAnalysis, ReadJobForDone,
       PatchJobDone, ReadTasting, PatchTasting, Publish, items
  <1> QED  BY <1>1, <1>2

LEMMA HandlerGrows ==
  ASSUME TypeInv, JobFirst, MergeOk, NEW w \in Workers,
         \/ PutJob(w) \/ MarkTranscribing(w) \/ EnterSessionA(w)
         \/ MarkAnalyzing(w) \/ EnterSessionB(w)
         \/ SkipNode(w) \/ IndexJob(w) \/ ReadJobForMerge(w) \/ MergeSteps(w)
         \/ ResetJob(w) \/ ResetJobPut(w) \/ Crash(w) \/ NodeFault(w)
  PROVE  /\ PutJob(w) => job.form = "none" /\ job.steps = {}
         /\ ~PutJob(w) => JobGrows
         /\ job.steps \subseteq job'.steps
  <1>1. ~ResetJob(w) /\ ~ResetJobPut(w)
    BY DEF ResetJob, ResetJobPut, At, MergeOk
  <1>2. CASE PutJob(w)
    <2>1. job.form = "none" /\ job.steps = {}
      BY <1>2 DEF PutJob, At, MergeOk, JobFirst
    <2> QED  BY <1>2, <2>1
  <1>3. CASE MergeSteps(w)
    <2>1. run[w].rev = job.rev => job.steps \subseteq run[w].steps
      BY <1>3 DEF MergeSteps, At, MergeOk
    <2>2. JobGrows
      <3>1. CASE job' = job
        BY <3>1, JobPatches
      <3>2. CASE job' # job
        <4>1. job.steps \subseteq run[w].steps \union run[w].fresh
          BY <1>3, <2>1, <3>2 DEF MergeSteps, JobUnchanged
        <4>2. job' = [job EXCEPT !.steps = run[w].steps \union run[w].fresh, !.rev = @ + 1]
          BY <1>3, <3>2 DEF MergeSteps
        <4> QED  BY <4>1, <4>2, JobPatches
      <3> QED  BY <3>1, <3>2
    <2>3. ~PutJob(w)
      BY <1>3 DEF MergeSteps, PutJob, At
    <2> QED  BY <2>2, <2>3 DEF JobGrows
  <1>4. CASE \/ MarkTranscribing(w) \/ EnterSessionA(w) \/ MarkAnalyzing(w) \/ EnterSessionB(w)
             \/ SkipNode(w) \/ IndexJob(w) \/ ReadJobForMerge(w) \/ Crash(w) \/ NodeFault(w)
    <2>1. JobGrows
      BY <1>4, JobPatches DEF MarkTranscribing, EnterSessionA, MarkAnalyzing, EnterSessionB, SkipNode,
         IndexJob, ReadJobForMerge, Crash, NodeFault, items
    <2> QED  BY <1>2, <2>1 DEF JobGrows
  <1> QED  BY <1>1, <1>2, <1>3, <1>4

\* A message is received one time more at most.
LEMMA ReceivesOnce ==
  ASSUME TypeInv, [Next]_vars
  PROVE  \A r \in Recordings : uploads[r].got <= uploads'[r].got
  <1> SUFFICES ASSUME NEW r \in Recordings PROVE uploads[r].got <= uploads'[r].got
    OBVIOUS
  <1>0. uploads \in [Recordings -> Delivery] /\ uploads[r].got \in Nat
    BY DEF TypeInv, TypeOK, Delivery
  <1>1. CASE uploads' = uploads
    BY <1>0, <1>1
  <1>2. ASSUME NEW q \in Recordings, Upload(q) PROVE uploads[r].got <= uploads'[r].got
    BY <1>0, <1>2 DEF Upload, Delivery
  <1>3. ASSUME NEW w \in Workers, NEW q \in Recordings, TriggerUpload(w, q)
        PROVE  uploads[r].got <= uploads'[r].got
    BY <1>0, <1>3 DEF TriggerUpload, Delivery
  <1>4. ASSUME NEW w \in Workers, Finish(w) PROVE uploads[r].got <= uploads'[r].got
    BY <1>0, <1>4 DEF Finish, Delivery
  <1>5. ASSUME NEW w \in Workers, Continue(w) PROVE uploads[r].got <= uploads'[r].got
    <2>1. CASE SessionA(w)
      BY <1>1, <2>1 DEF SessionA, EnsureJob, EnsureJobPut, CheckTranscription, StartTranscription,
         ReadJobForName, PatchJobName, ReadAcoustic, PatchAcoustic, queues
    <2>2. CASE SessionB(w)
      BY <1>1, <2>2 DEF SessionB, LoadJob, LoadRecording, PatchTranscript, ReadForSpeakers, PatchSpeakers,
         SommelierAnalysis, ConditionalNode, ReadAnalysis, WriteAnalysis, ReadJobForDone,
         PatchJobDone, ReadTasting, PatchTasting, Publish, queues
    <2>3. CASE ~SessionA(w) /\ ~SessionB(w)
      BY <1>1, <1>4, <1>5, <2>3 DEF Continue, PutJob, MarkTranscribing, EnterSessionA, MarkAnalyzing,
         EnterSessionB, SkipNode, IndexJob, ReadJobForMerge, MergeSteps, ResetJob, ResetJobPut,
         DeleteNext, queues
    <2> QED  BY <2>1, <2>2, <2>3
  <1>6. CASE EditSummary \/ \E q \in Recordings : TranscribeEnds(q) \/ OverrideSpeakers(q)
    BY <1>1, <1>6 DEF EditSummary, TranscribeEnds, OverrideSpeakers, queues
  <1>7. CASE \E w \in Workers : \/ Reanalyze(w) \/ StartDelete(w) \/ Crash(w) \/ NodeFault(w)
                               \/ \E q \in Recordings : TriggerTranscribe(w, q)
    BY <1>1, <1>7 DEF Reanalyze, StartDelete, Crash, NodeFault, TriggerTranscribe, queues
  <1>8. CASE UNCHANGED vars
    BY <1>1, <1>8 DEF vars
  <1> QED  BY <1>2, <1>3, <1>5, <1>6, <1>7, <1>8 DEF Next

\* An execution that goes on, by a step that lets the job grow or is the first put.
LEMMA OwnStepMerges ==
  ASSUME TypeInv, TypeInv', JobFirst, MergeOk, NEW w \in Workers, Proceeds(w), run[w].pc # "idle",
         \A r \in Recordings : uploads[r].got <= uploads'[r].got,
         JobGrows \/ job.form = "none",
         ReadJobForMerge(w) => job' = job
  PROVE  MergeOk'
  <1>1. \A x \in Workers : run'[x].via = "upload" => run[x].via = "upload"
    BY IdleNoEntry DEF Proceeds
  <1>2. \A r \in Recordings : uploads[r].got \in Nat /\ uploads'[r].got \in Nat
    BY DEF TypeInv, TypeOK, Delivery
  <1>3. ASSUME NEW x \in Workers, run'[x].via = "upload"
        PROVE  /\ \A r \in Recordings : uploads'[r].got >= 1
               /\ \A v \in Workers : run'[v].via = "upload" => v = x
    BY <1>1, <1>2, <1>3 DEF MergeOk
  <1>4. ASSUME NEW x \in Workers \ {w}, run[x].pc = "job_put" PROVE FALSE
    <2>1. job.form = "none" /\ run[x].via = "upload"
      BY <1>4 DEF MergeOk
    <2>2. run[w].pc = "job_put"
      BY <2>1 DEF JobFirst, MergeOk
    <2>3. run[w].via = "upload"
      BY <2>2 DEF MergeOk
    <2> QED  BY <2>1, <2>3 DEF MergeOk
  <1>5. /\ job.rev \in Nat /\ job'.rev \in Nat
        /\ \A x \in Workers : run[x].rev \in Int
    BY DEF TypeInv, TypeOK, Job, Execution, unseen
  <1>6. ASSUME NEW x \in Workers \ {w}, run[x].pc = "merge_patch"
        PROVE  /\ run'[x].rev <= job'.rev
               /\ run'[x].rev = job'.rev => job'.steps \subseteq run'[x].steps
    <2>1. job.form = "full"
      BY <1>6 DEF JobFirst
    <2>2. run[x].rev <= job.rev /\ (run[x].rev = job.rev => job.steps \subseteq run[x].steps)
      BY <1>6 DEF MergeOk
    <2>3. JobGrows /\ run'[x] = run[x]
      BY <2>1 DEF Proceeds
    <2>4. job.rev <= job'.rev /\ (job.rev = job'.rev => job'.steps = job.steps)
      BY <2>3 DEF JobGrows
    <2>5. run[x].rev = job'.rev => job.rev = job'.rev /\ run[x].rev = job.rev
      BY <1>5, <2>2, <2>4
    <2>6. run[x].rev <= job'.rev
      BY <1>5, <2>2, <2>4
    <2> QED  BY <2>2, <2>3, <2>4, <2>5, <2>6
  <1>7. ASSUME run'[w].pc = "merge_patch"
        PROVE  /\ run'[w].rev <= job'.rev
               /\ run'[w].rev = job'.rev => job'.steps \subseteq run'[w].steps
    <2>1. ReadJobForMerge(w) /\ job' = job
      BY <1>7 DEF Proceeds, Entries
    <2>2. ~Quit(w)
      BY <1>7, QuitComes, IdleNoEntry, TypeInvRun
    <2>3. run' = [run EXCEPT ![w].rev = job.rev, ![w].steps = job.steps, ![w].pc = "merge_patch"]
      BY <2>1, <2>2 DEF ReadJobForMerge, Finish
    <2>4. run'[w].rev = job.rev /\ run'[w].steps = job.steps
      BY <2>3 DEF TypeInv, TypeOK, Execution
    <2> QED  BY <1>5, <2>1, <2>4
  <1>8. run'[w].pc \notin {"job_put", "reset_patch", "reset_put", "reset_index"}
    BY DEF Proceeds, Entries, MergeOk
  <1> QED  BY <1>3, <1>4, <1>6, <1>7, <1>8 DEF MergeOk, Proceeds

\* Only the first receive of the message begins an execution that may put.
LEMMA ReceiveMerges ==
  ASSUME TypeInv, MergeOk, OneRecording, NEW w \in Workers, NEW r \in Recordings,
         TriggerUpload(w, r), uploads'[r].got <= 1
  PROVE  MergeOk'
  <1>1. uploads[r].got \in Nat /\ uploads'[r].got = uploads[r].got + 1
    BY DEF TriggerUpload, TypeInv, TypeOK, Delivery
  <1>2. \A x \in Workers : run[x].via # "upload"
    BY <1>1 DEF MergeOk
  <1>3. \A q \in Recordings : uploads'[q].got >= 1
    BY <1>1 DEF OneRecording
  <1>4. job' = job
    BY DEF TriggerUpload, items
  <1>5. /\ \A v \in Workers \ {w} : run'[v] = run[v]
        /\ \/ run' = run
           \/ /\ run'[w].via = "upload" /\ run'[w].r = r
              /\ run'[w].pc = IF job.form = "none" THEN "job_put" ELSE "mark_transcribing"
    BY UploadStarts
  <1>6. run'[w].pc \in {"job_put", "mark_transcribing"} \/ run' = run
    BY <1>5
  <1>7. run'[w].pc = "job_put" => run' = run \/ (job.form = "none" /\ run'[w].via = "upload")
    BY <1>5
  <1> QED  BY <1>2, <1>3, <1>4, <1>5, <1>6, <1>7 DEF MergeOk

\* What the invariant rests on in both states of a step.
LEMMA MergeGround ==
  ASSUME MergeInv, [Next]_vars, NeverDeleted, JobMadeOnce
  PROVE  /\ TypeInv /\ TypeInv' /\ JobFirst /\ MergeOk /\ OneRecording
         /\ \A r \in Recordings : uploads[r].got <= uploads'[r].got
         /\ ~ \E w \in Workers : DeleteNext(w)
  <1>1. TypeInv /\ TypeInv' /\ Supported /\ JobFirst /\ MergeOk /\ OneRecording
    BY StepTypes DEF MergeInv, FirstInv, ClaimInv, JobMadeOnce
  <1>2. ~ \E w \in Workers : DeleteNext(w)
    BY <1>1 DEF Supported, DeleteNext, At
  <1> QED  BY <1>1, <1>2, ReceivesOnce

LEMMA StepsStay ==
  ASSUME MergeInv, [Next]_vars, NeverDeleted, JobMadeOnce
  PROVE  job.steps \subseteq job'.steps
  <1>1. TypeInv /\ JobFirst /\ MergeOk /\ ~ \E w \in Workers : DeleteNext(w)
    BY MergeGround
  <1>2. CASE \E w \in Workers : SessionA(w) \/ SessionB(w)
    BY <1>1, <1>2, SessionGrows DEF JobGrows
  <1>3. CASE \E w \in Workers :
                \/ PutJob(w) \/ MarkTranscribing(w) \/ EnterSessionA(w)
                \/ MarkAnalyzing(w) \/ EnterSessionB(w)
                \/ SkipNode(w) \/ IndexJob(w) \/ ReadJobForMerge(w) \/ MergeSteps(w)
                \/ ResetJob(w) \/ ResetJobPut(w) \/ Crash(w) \/ NodeFault(w)
    BY <1>1, <1>3, HandlerGrows
  <1>4. CASE job' = job
    BY <1>4
  <1>5. CASE \/ UNCHANGED vars \/ EditSummary
             \/ \E r \in Recordings : Upload(r) \/ TranscribeEnds(r) \/ OverrideSpeakers(r)
             \/ \E w \in Workers : \/ Reanalyze(w) \/ StartDelete(w)
                                  \/ \E r \in Recordings : TriggerUpload(w, r) \/ TriggerTranscribe(w, r)
    BY <1>4, <1>5 DEF vars, EditSummary, Upload, TranscribeEnds, OverrideSpeakers, Reanalyze, StartDelete,
       TriggerUpload, TriggerTranscribe, items
  <1> QED  BY <1>1, <1>2, <1>3, <1>5 DEF Next, Continue

LEMMA StepMerge == MergeInv /\ [Next]_vars => MergeInv'
  <1> SUFFICES ASSUME MergeInv, [Next]_vars, NeverDeleted', JobMadeOnce' PROVE MergeOk'
    BY FirstStays, BudgetsFall DEF MergeInv, FirstInv, ClaimInv
  <1>1. NeverDeleted /\ ~ \E w \in Workers : StartDelete(w)
    BY DeletesSpent DEF MergeInv, FirstInv
  <1>2. JobMadeOnce /\ ~ \E w \in Workers : Reanalyze(w)
    <2>1. TypeInv /\ TypeInv' /\ BudgetsKept
      BY StepTypes DEF MergeInv, FirstInv, ClaimInv
    <2>2. \A r \in Recordings : uploads[r].got \in Nat /\ uploads'[r].got \in Nat
      BY <2>1 DEF TypeInv, TypeOK, Delivery
    <2>3. \A r \in Recordings : uploads[r].got <= 1
      BY <2>1, <2>2, ReceivesOnce DEF JobMadeOnce
    <2> QED  BY <2>1, <2>3, BudgetsFall DEF JobMadeOnce, OneRecording
  <1>3. /\ TypeInv /\ TypeInv' /\ JobFirst /\ MergeOk /\ OneRecording
        /\ \A r \in Recordings : uploads[r].got <= uploads'[r].got
        /\ ~ \E w \in Workers : DeleteNext(w)
    BY <1>1, <1>2, MergeGround
  <1>4. ASSUME run' = run, job' = job PROVE MergeOk'
    <2>1. \A r \in Recordings : uploads[r].got \in Nat /\ uploads'[r].got \in Nat
      BY <1>3 DEF TypeInv, TypeOK, Delivery
    <2>2. \A r \in Recordings : uploads[r].got >= 1 => uploads'[r].got >= 1
      BY <1>3, <2>1
    <2> QED  BY <1>3, <1>4, <2>2 DEF MergeOk
  <1>5. CASE \/ UNCHANGED vars \/ EditSummary
             \/ \E r \in Recordings : Upload(r) \/ TranscribeEnds(r) \/ OverrideSpeakers(r)
    BY <1>4, <1>5 DEF vars, EditSummary, Upload, TranscribeEnds, OverrideSpeakers, items
  <1>6. ASSUME NEW w \in Workers, SessionA(w) \/ SessionB(w) PROVE MergeOk'
    <2>1. run[w].pc # "idle"
      <3>1. CASE SessionA(w)
        BY <3>1 DEF SessionA, EnsureJob, EnsureJobPut, CheckTranscription, StartTranscription,
           ReadJobForName, PatchJobName, ReadAcoustic, PatchAcoustic, Runs, At
      <3>2. CASE SessionB(w)
        BY <3>2 DEF SessionB, LoadJob, LoadRecording, PatchTranscript, ReadForSpeakers, PatchSpeakers,
           SommelierAnalysis, ConditionalNode, ReadAnalysis, WriteAnalysis, ReadJobForDone,
           PatchJobDone, ReadTasting, PatchTasting, Publish, Runs, At
      <3> QED  BY <1>6, <3>1, <3>2
    <2>2. Proceeds(w) /\ JobGrows
      BY <1>3, <1>6, SessionAProceeds, SessionBProceeds, SessionGrows
    <2>3. ReadJobForMerge(w) => job' = job
      BY DEF ReadJobForMerge, items
    <2> QED  BY <1>3, <2>1, <2>2, <2>3, OwnStepMerges
  <1>7. ASSUME NEW w \in Workers,
               \/ PutJob(w) \/ MarkTranscribing(w) \/ EnterSessionA(w)
               \/ MarkAnalyzing(w) \/ EnterSessionB(w)
               \/ SkipNode(w) \/ IndexJob(w) \/ ReadJobForMerge(w) \/ MergeSteps(w)
               \/ ResetJob(w) \/ ResetJobPut(w) \/ Crash(w) \/ NodeFault(w)
        PROVE  MergeOk'
    <2>1. run[w].pc # "idle"
      BY <1>3, <1>7 DEF PutJob, MarkTranscribing, EnterSessionA, MarkAnalyzing, EnterSessionB, SkipNode,
         IndexJob, ReadJobForMerge, MergeSteps, ResetJob, ResetJobPut, Crash, NodeFault, At, TypeInv,
         TypeOK, Execution, NodeSteps, PipelineStep
    <2>2. Proceeds(w) /\ (JobGrows \/ job.form = "none")
      BY <1>3, <1>7, HandlerProceeds, HandlerGrows
    <2>3. ReadJobForMerge(w) => job' = job
      BY DEF ReadJobForMerge, items
    <2> QED  BY <1>3, <2>1, <2>2, <2>3, OwnStepMerges
  <1>8. ASSUME NEW w \in Workers, NEW r \in Recordings, TriggerUpload(w, r) PROVE MergeOk'
    <2>1. uploads'[r].got <= 1
      BY DEF JobMadeOnce
    <2> QED  BY <1>3, <1>8, <2>1, ReceiveMerges
  <1>9. ASSUME NEW w \in Workers, NEW r \in Recordings, TriggerTranscribe(w, r) PROVE MergeOk'
    <2>1. job' = job /\ uploads' = uploads
      BY <1>9 DEF TriggerTranscribe, items
    <2>2. CASE run' = run
      BY <1>4, <2>1, <2>2
    <2>3. CASE run' # run
      <3>1. /\ \A v \in Workers \ {w} : run'[v] = run[v]
            /\ run'[w].via = "event" /\ run'[w].pc = "mark_analyzing"
        BY <1>3, <1>9, <2>3, EventStarts
      <3> QED  BY <1>3, <2>1, <3>1 DEF MergeOk
    <2> QED  BY <2>2, <2>3
  <1> QED  BY <1>1, <1>2, <1>3, <1>5, <1>6, <1>7, <1>8, <1>9 DEF Next, Continue

LEMMA MergeHolds == Spec => []MergeInv
  <1>1. Init => MergeInv
    <2> SUFFICES ASSUME Init PROVE BudgetsKept /\ MergeOk
      BY FirstStarts DEF MergeInv
    <2>1. BudgetsKept
      BY BoundsAssumption DEF Init, BudgetsKept
    <2>2. MergeOk
      BY IdleNoEntry DEF Init, MergeOk
    <2> QED  BY <2>1, <2>2
  <1> QED  BY <1>1, StepMerge, PTL DEF Spec

\* completedSteps only grows, however sessions overlap, fail and merge their
\* lists, as long as the job is made once (the rev that patchJob compares).
THEOREM MergedStepsStay == Spec => StepsKept
  <1>1. MergeInv /\ [Next]_vars => [NeverDeleted /\ JobMadeOnce => job.steps \subseteq job'.steps]_job
    BY StepsStay
  <1> QED  BY <1>1, MergeHolds, PTL DEF Spec, StepsKept
-----------------------------------------------------------------------------
(* The editor's text survives executions that follow one another           *)

\* A session that puts a whole analysis has read that there is none.
EditOk ==
    /\ analysis.edited => analysis.exists
    /\ \A w \in Workers :
          run[w].pc = "analysis_write" /\ run[w].rev = unseen => ~analysis.exists

EditInv == ClaimInv /\ EditOk

OneExecution == \A v, w \in Workers : v = w

LEMMA EditWrites ==
  ASSUME OneExecution, TypeInv, EditOk, NEW w \in Workers, WriteAnalysis(w)
  PROVE  EditOk' /\ (analysis.edited => analysis'.edited)
  <1>1. run'[w].pc # "analysis_write"
    BY TypeInvRun, GotoComes, NodeFailsComes DEF WriteAnalysis, Comes
  <1>2. /\ analysis'.edited => analysis'.exists
        /\ analysis.edited => analysis'.edited
    BY DEF WriteAnalysis, At, EditOk, NoAnalysis, TypeInv, TypeOK, Analysis
  <1> QED  BY <1>1, <1>2 DEF EditOk, OneExecution

LEMMA EditKeeps ==
  ASSUME OneExecution, TypeInv, EditOk, [Next]_vars,
         ~ \E w \in Workers : WriteAnalysis(w)
  PROVE  /\ EditOk'
         /\ (~ \E w \in Workers : DeleteNext(w)) /\ analysis.edited => analysis'.edited
  <1>1. ASSUME run' = run, analysis'.exists = analysis.exists,
               analysis'.edited => analysis'.exists
        PROVE  EditOk'
    BY <1>1 DEF EditOk
  <1>2. ASSUME NEW w \in Workers, analysis' = analysis, run'[w].pc # "analysis_write"
        PROVE  EditOk'
    BY <1>2 DEF EditOk, OneExecution
  <1>3. CASE EditSummary
    <2>1. run' = run /\ analysis'.exists = analysis.exists /\ (analysis'.edited => analysis'.exists)
          /\ (analysis.edited => analysis'.edited)
      BY <1>3 DEF EditSummary, EditOk, TypeInv, TypeOK, Analysis
    <2> QED  BY <1>1, <2>1
  <1>4. CASE UNCHANGED vars \/ \E r \in Recordings : Upload(r) \/ TranscribeEnds(r) \/ OverrideSpeakers(r)
    <2>1. run' = run /\ analysis' = analysis
      BY <1>4 DEF vars, Upload, TranscribeEnds, OverrideSpeakers, items
    <2> QED  BY <1>1, <2>1 DEF EditOk
  <1>5. ASSUME NEW w \in Workers, Proceeds(w), analysis' = analysis
        PROVE  EditOk'
    <2>1. CASE run'[w].pc # "analysis_write"
      BY <1>2, <1>5, <2>1
    <2>2. CASE run'[w].pc = "analysis_write"
      <3>1. ReadAnalysis(w)
        BY <1>5, <2>2 DEF Proceeds, Entries
      <3>2. ~NodeFails(w)
        BY <2>2, TypeInvRun, NodeFailsComes DEF Comes
      <3>3. run'[w].rev = IF analysis.exists THEN analysis.rev ELSE unseen
        BY <3>1, <3>2 DEF ReadAnalysis, Seen, TypeInv, TypeOK, Execution
      <3>4. analysis.rev # unseen
        BY RevType DEF unseen
      <3> QED  BY <1>5, <3>3, <3>4 DEF EditOk, OneExecution
    <2> QED  BY <2>1, <2>2
  <1>6. ASSUME NEW w \in Workers, SessionA(w) \/ SessionB(w) PROVE EditOk' /\ analysis' = analysis
    <2>1. analysis' = analysis
      <3>1. CASE SessionA(w)
        BY <3>1 DEF SessionA, EnsureJob, EnsureJobPut, CheckTranscription, StartTranscription,
           ReadJobForName, PatchJobName, ReadAcoustic, PatchAcoustic, items
      <3>2. CASE SessionB(w)
        BY <3>2 DEF SessionB, LoadJob, LoadRecording, PatchTranscript, ReadForSpeakers, PatchSpeakers,
           SommelierAnalysis, ConditionalNode, ReadAnalysis, ReadJobForDone, PatchJobDone, ReadTasting,
           PatchTasting, Publish, items
      <3> QED  BY <1>6, <3>1, <3>2
    <2> QED  BY <1>5, <1>6, <2>1, SessionAProceeds, SessionBProceeds
  <1>7. ASSUME NEW w \in Workers,
               \/ PutJob(w) \/ MarkTranscribing(w) \/ EnterSessionA(w)
               \/ MarkAnalyzing(w) \/ EnterSessionB(w)
               \/ SkipNode(w) \/ IndexJob(w) \/ ReadJobForMerge(w) \/ MergeSteps(w)
               \/ ResetJob(w) \/ ResetJobPut(w) \/ Crash(w) \/ NodeFault(w)
        PROVE  EditOk' /\ analysis' = analysis
    <2>1. analysis' = analysis
      BY <1>7 DEF PutJob, MarkTranscribing, EnterSessionA, MarkAnalyzing, EnterSessionB, SkipNode, IndexJob,
         ReadJobForMerge, MergeSteps, ResetJob, ResetJobPut, Crash, NodeFault, items
    <2> QED  BY <1>5, <1>7, <2>1, HandlerProceeds
  <1>8. ASSUME NEW w \in Workers,
               \/ Reanalyze(w) \/ StartDelete(w)
               \/ \E r \in Recordings : TriggerUpload(w, r) \/ TriggerTranscribe(w, r)
        PROVE  EditOk' /\ analysis' = analysis
    <2>1. analysis' = analysis /\ run[w].pc = "idle"
      BY <1>8 DEF Reanalyze, StartDelete, TriggerUpload, TriggerTranscribe, At, items
    <2>2. run'[w].pc # "analysis_write"
      <3>1. CASE StartDelete(w)
        BY <3>1 DEF StartDelete, Idle, TypeInv, TypeOK
      <3>2. CASE ~StartDelete(w)
        BY <1>8, <2>1, <3>2, UploadStarts, EventStarts, RouteStarts
      <3> QED  BY <3>1, <3>2
    <2> QED  BY <1>2, <2>1, <2>2
  <1>9. ASSUME NEW w \in Workers, DeleteNext(w) PROVE EditOk'
    <2>1. run'[w].pc # "analysis_write"
      BY <1>9, TypeInvRun, QuitComes, IdleNoEntry DEF DeleteNext, At, TypeInv, TypeOK, Execution
    <2>2. analysis' \in {analysis, NoAnalysis}
      BY <1>9 DEF DeleteNext
    <2> QED  BY <2>1, <2>2 DEF EditOk, OneExecution, NoAnalysis
  <1> QED
    BY <1>3, <1>4, <1>6, <1>7, <1>8, <1>9 DEF Next, Continue, vars, Upload, TranscribeEnds, OverrideSpeakers, items

\* A summary the editor has rewritten stays, however often the analysis is
\* generated again (patchAnalysis leaves the text alone), when executions of
\* the pipeline follow one another.
THEOREM EditedTextStays == OneExecution /\ Spec => EditKept
  <1> SUFFICES ASSUME OneExecution PROVE Spec => EditKept
    OBVIOUS
  <1> DEFINE Kept == NeverDeleted /\ analysis.edited => analysis'.edited
  <1>1. EditInv /\ [Next]_vars => EditInv' /\ [Kept]_analysis
    <2> SUFFICES ASSUME EditInv, [Next]_vars PROVE EditOk' /\ Kept
      BY StepClaims DEF EditInv
    <2>1. TypeInv /\ EditOk /\ (NeverDeleted => ~ \E w \in Workers : DeleteNext(w))
      BY DEF EditInv, ClaimInv, Supported, DeleteNext, At
    <2>2. CASE \E w \in Workers : WriteAnalysis(w)
      BY <2>1, <2>2, EditWrites
    <2>3. CASE ~ \E w \in Workers : WriteAnalysis(w)
      BY <2>1, <2>3, EditKeeps
    <2> QED  BY <2>2, <2>3
  <1>2. Init => EditInv
    <2> SUFFICES ASSUME Init PROVE EditOk
      BY InitClaims DEF EditInv
    <2> QED  BY IdleNoEntry DEF Init, EditOk, NoAnalysis
  <1> QED  BY <1>1, <1>2, PTL DEF Spec, EditKept
=============================================================================
