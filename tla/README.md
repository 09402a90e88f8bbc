# Waganda in TLA+

Waganda is a wine-tasting diary: an editor registers a tasting, photographs the
label, records the conversation at the table, and a pipeline of Lambdas and
agent sessions turns the recording into an analysis that is then published.
This directory holds TLA+ modules translated from that code, the TLC
configurations that check them, and proofs that TLAPS checks.

    tlc -workers 2 -config PipelineOverlap.cfg MCPipeline
    tlc -workers 2 -config CatalogCalls.cfg MCCatalog
    tlc -workers 2 -config Parts.cfg MCParts
    tlapm PipelineProofs.tla
    tlapm CatalogProofs.tla
    tlapm AccessProofs.tla
    tlapm BrowserProofs.tla
    tlapm ReadProofs.tla
    tlapm AgentProofs.tla
    tlapm DiaryProofs.tla
    tlapm PartsProofs.tla

`PipelineProofs` takes about five minutes, `DiaryProofs` two, the others less.

## Inventory

| component (source) | state it keeps | operations | what is hard, what makes it correct |
|---|---|---|---|
| trigger Lambdas (`infrastructure/lambda/`) | none; write the JOB item directly | SQS record of an upload, EventBridge event of a transcription | delivered at least once, unconditional writes, the message is acknowledged by returning normally. An upload is not lost; a repeated delivery does no harm |
| agent sessions A and B (`agent/src/entrypoint.ts`, `agent/src/graph/`) | `ctx` of one execution: steps done, sommelier output | `analyze_upload`, `analyze_transcribed` | long awaits (audio Lambda, model) between reads and writes; a failing node stops the graph; a retry skips by `completedSteps`. Recorded steps are real; `completed` means there is an analysis |
| re-analysis route (`app/api/tastings/[id]/analyze`) | none | POST | resets a job other sessions may be working on |
| repository (`lib/db/`) | DynamoDB items with a `rev` | get, put, patch with expected rev, delete, list | some writes are conditional and some are not; an unconditional update creates a missing item |
| tasting service (`lib/services/tastings.ts`) | META, REC#, ANALYSIS, JOB of a tasting | create, attach wine, update, delete, recordings, speaker override, food photos | several items written one after the other; count-then-put limits; lifecycle |
| catalog (`lib/services/wines.ts`, `lib/db/integrity.ts`) | wines, wineries, regions | CRUD with reference checks | check-then-write, region hierarchy. No reference is left dangling |
| insights (`lib/services/discoveries.ts`, `lib/domain/`) | discovery cards, taste profile | find or update a card, hide, refresh the profile | duplicate check then put; first put of the profile |
| budget and rate limit (`agent/src/lib/budget.ts`, `lib/ratelimit.ts`, `middleware.ts`) | a counter per process and day; a counter item per IP and window | check and count | read-judge-increment; slow and repeated updates against the item's expiry |
| editor session (`lib/auth/`, `app/api/auth/`, `WriteActionGuard`) | signed token, two login cookies, the allow list cached per instance | login, logout, write, load | several tabs share the cookies; revocation on running instances |
| recording page (`app/record/page.tsx`, `AudioRecorder`) | the page's steps and tasting, the recorder's clock | capture, photo, typed name, record, pause, send | async flows that work on the state of an older render |
| browser upload (`lib/upload/resume.ts`) | blobs in memory, metadata in sessionStorage | register, attempt, backoff, manual retry, reload | two attempts at once; a reload drops the blob |
| analysis status (`AnalysisStatus`) | the status shown | poll, re-analyse | the job's status goes forward and back, answers overtake each other and the effect that cancels them |
| tasting page and CDN (`app/(public)/tastings/[id]`, `lib/cache/invalidate.ts`, `web-stack.ts`) | the cached page, invalidations in flight | load, rate, photo, delete | responses rendered before a write arrive after its invalidation |
| views and calculations (`lib/views/read.ts`, `lib/domain/profile.ts`, `stats.ts`, `region.ts`) | none | timeline, ranking, wine, Explore, profile fit | five places work out a rating; a region hierarchy with cycles |
| label recognition (`lib/agent/label*.ts`) | none | recognise, enrich | six conflict rules over one another's results |
| local pipeline (`lib/analysis/localPipeline.ts`) | none | run | whole items put by runs that overlap; a throw between the upload of the voice and its deletion |
| sound, transcript, speakers (`audio/features.py`, `lib/analysis/transcript.ts`, `lib/domain/speaker.ts`) | none | silences, voiced segments, word segments, mapping | boundaries that float differences reach from either side, ties, missing data |
| search, agreement, feeds, prompts, tools, CDK stacks, scripts | none of their own | | see "Not modelled" |

How they interact: the browser PUTs a file to S3; S3 notifies an SQS queue;
`trigger-upload` creates or marks the JOB item and awaits session A, which
starts Amazon Transcribe and measures the sound; Transcribe's end becomes an
EventBridge event; `trigger-transcribe` marks the job and awaits session B,
which stores the transcript, maps speakers, asks the model, writes the ANALYSIS
item, marks the job completed and META ready. Nobody holds a lock. All of them,
and the editor's routes, share one DynamoDB partition per tasting; `patchItem`
compares `rev`, other writes compare nothing.

## Modules

| module | what it models | status |
|---|---|---|
| `Pipeline` | the partition of one tasting, both triggers, both sessions, re-analysis, deletion, the editor's changes the pipeline can collide with | done |
| `MCPipeline` | symmetry of the executions, for TLC | done |
| `PipelineProofs` | eight theorems about `Pipeline` | done |
| `RevStore` | the abstract store: the first of two writers that read the same row wins, with no word of revisions | done |
| `Catalog` | references between wines, wineries, regions and tastings; every call that writes them, of several editors at once | done |
| `MCCatalog` | symmetry of editors and regions, for TLC | done |
| `CatalogProofs` | five theorems about `Catalog`, the refinement of `RevStore` among them | done |
| `Diary` | the tasting service's calls on one tasting, each await a step, beside session B | done |
| `DiaryProofs` | six theorems about `Diary`, a refinement of `RevStore` among them | done |
| `Insights` | discovery cards and taste profile: agent runs and service calls | done |
| `Limits` | the request counter of the middleware, the agent's daily counter | done |
| `Access` | login, token, allow list; several tabs and server instances | done |
| `AccessProofs` | four theorems about `Access` and `Limits` | done |
| `Capture` | the recording page and its recorder | done |
| `Upload` | the browser's upload with backoff, retry button and reload | done |
| `Watch` | the status display and its polls | done |
| `BrowserProofs` | four theorems about `Capture`, `Upload` and `Watch` | done |
| `RegionTree` | region updates and deletions, and the functions that read the hierarchy, call by call | done |
| `Pages` | what timeline, ranking, tasting and wine pages, incomplete captures, statistics and profile say of the same tastings | done |
| `Labels` | recognition attempts and the enrichment's conflict rules | done |
| `Local` | overlapping runs of the local pipeline and a deletion | done |
| `Table` | keys, index, paged lists, scans and bundles, upcasting | done |
| `Edge` | a tasting's page in the CDN and the controls on it | done |
| `ReadProofs` | five theorems about `Edge`, `Table`, `Pages` and `RegionTree` | done |
| `AgentProofs` | seven theorems about `Local`, `Labels`, `Insights` and `Voice`, a refinement of `RevStore` among them | done |
| `Voice` | silences, voiced segments, word segments, speaker mapping | done |
| `MCParts` | `Diary` to `Voice` side by side, for TLC | done |
| `PartsProofs` | the types of all parts at once | done |

How they compose. `Pipeline` holds everything that shares a tasting's partition
with the agent sessions; `Diary` looks at the same partition from the service's
side, with the editor's calls split at every await, which `Pipeline` takes as
single steps. `Catalog`, META in `Diary` and the cards of `Insights` are shown to
implement `RevStore`. The other modules share no item with one another: in the
code they meet only through values the modules take as inputs (an answer of a
route, a count of tastings, a signed token). `MCParts` therefore puts them side by side, and an initial state
chooses which of them moves; a product of all their interleavings would only
multiply states that cannot influence each other.

### Pipeline: state and actions

* `job`, `recs`, `analysis`, `tasting` are the items. Of each item the fields
  that decide control remain. `job.form = "stub"` is the item that an
  unconditional update makes out of nothing (the job index update of
  `patchJob`, or the trigger's status update, after a deletion): it has no
  `type`, so `Job.parse` rejects it wherever `getJob` reads it, while the
  triggers, which read the raw item, accept it.
* `transcribe`, `uploads`, `events` are the services around: the transcription
  of each recording and, per message, how often it was handed out and whether
  it is acknowledged. They are external and modelled as the code relies on them.
* `run[w]` is an execution: where it is (`pc` names the next await), what
  started it (`via`), and the locals that survive an await. `rev` is the
  revision last read; a versioned write compares it. Between two actions of one
  execution anything else may happen.
* `left` holds what is left of each budget (`MaxCrashes`, `MaxNodeFaults`,
  `MaxReanalyses`, `MaxEdits`, `MaxDeletes`); `MaxReceive` and `MaxDeliver`
  bound deliveries. Revisions need no bound: every increment belongs to a step
  of an execution, and executions are bounded by deliveries and budgets.

| code | actions |
|---|---|
| `trigger-upload` handler | `TriggerUpload`, `PutJob`, `MarkTranscribing` |
| `handleAnalyzeUpload` | `EnterSessionA`, `EnsureJob(Put)`, `CheckTranscription`, `StartTranscription`, `ReadJobForName`, `PatchJobName`, `ReadAcoustic`, `PatchAcoustic` |
| `trigger-transcribe` handler | `TriggerTranscribe`, `MarkAnalyzing` |
| `handleAnalyzeTranscribed` | `EnterSessionB`, `LoadJob`, `LoadRecording`, `PatchTranscript`, `ReadForSpeakers`, `PatchSpeakers`, `SommelierAnalysis`, `ConditionalNode`, `ReadAnalysis`, `WriteAnalysis`, `ReadJobForDone`, `PatchJobDone`, `ReadTasting`, `PatchTasting`, `Publish` |
| executor and final merge | `SkipNode`, `NodeDone`, `NodeFails`, `ReadJobForMerge`, `MergeSteps`, `IndexJob`, `Finish`, `Quit` |
| re-analysis route | `Reanalyze`, `ResetJob`, `ResetJobPut` |
| `deleteTasting` | `StartDelete`, `DeleteNext` |
| `updateTasting`, `overrideSpeakerMapping` | `EditSummary`, `OverrideSpeakers` |
| failures | `Crash` (the process dies, a handler throws outside the nodes, or the budget refuses the call), `NodeFault` (a service call inside a node throws) |

Abstractions, each on purpose:

* The text of an analysis is one bit (`edited`) and the set of inputs it rests
  on (`basis`). A transcript and acoustic data are present or absent.
* `EditSummary` and `OverrideSpeakers` are single steps with current revisions.
  The editor's own read-to-write window belongs to the Diary module; here they
  are the environment that makes a session's patch fail.
* `refresh_taste_profile` and `run_discovery` write outside the partition:
  here they run, are skipped (`Due`) or fail.
* `Init` has the recordings registered: `createRecording` runs before the
  browser gets the upload address.
* `SlowTranscribe` says that Transcribe answers only after the session that
  started it has ended. It is FALSE wherever overlap is the question.

Reads are taken as current. The code's reads are DynamoDB's eventually consistent
ones (no `ConsistentRead`), so an execution may see less than the model lets it.

### Catalog: state and actions

* `item[i]` is a wine, winery, region or tasting with the items it refers to
  (`ref`, at most one of each kind, as the schemas have one field for each),
  its `rev`, and, of a wine, `draft` and `note`. `note` stands for the fields
  that a label recognition may fill in: not set, set from a label, or written by
  an editor. An id is `fresh` until its creation stores it, then `stored`, then
  `deleted`; ids are random UUIDs and never used twice.
* `call[e]` is the request an editor `e` has under way: the operation, what it
  is about to write, the references still to be read (`todo`), and whether one
  was missing (`broken`). `calm` is a history variable: nobody else has written
  since the call began.
* `left` bounds the number of calls.

| code | actions |
|---|---|
| `createWine`, `createWinery`, `createRegion`, `createTasting` | `Create`, then `CheckRef` per reference, `Write` |
| `updateWine`, `updateWinery`, `updateRegion`, `updateTasting` | `Update`, `CheckRef`, `Write` |
| `attachWineToTasting` | `Attach`, `CheckRef`, `Write` |
| `fillMissingWineFields` | `Fill`, `Write` |
| `deleteWine`, `deleteWinery`, `deleteRegion` | `Delete`, `Scan`, `Remove` |
| `deleteTasting` (its META item) | `Delete`, `Remove` |

Left out: names and other plain fields; the search for duplicate candidates,
which only reads; the lifecycle that `attachWineToTasting` sets, which belongs
to the Diary module. A scan is one step although a large table is read page by
page; an update starts from the current `rev`, since an older one only fails.

### Diary and Insights

* `meta`, `take[r]`, `review`, `queued` are META, the recordings, the analysis
  and the job of one tasting; `act[c]` is a call under way with the `rev` its
  page showed and what it has read; `agent` is a session B with the nodes that
  write here. A call that is `calm` saw no other write.
* Ids of recordings and photos are interchangeable random values, so a new one
  is the next of its set (`NextId`, `Some`): the model keeps one of the
  equivalent choices and TLC needs no symmetry declaration.
* Callers begin with the version of META their page showed; the model lets a
  call begin with any version another call has not yet replaced.
* `Insights`: `cards`, `profile`, runs of session B and service calls. The count
  of completed tastings grows; a run decides by the count it has read. Which
  pattern a run proposes is any.

| code | actions |
|---|---|
| `createTasting`, `attachWineToTasting` | `CreateTasting`, `AttachRead`, `AttachBundle`, `AttachPatch` |
| `updateTasting` | `UpdateMeta`, `UpdateRead`, `UpdateText` |
| `createRecording` | `RecordRead`, `RecordCount`, `RecordPut` |
| `overrideSpeakerMapping` | `OverrideRead`, `OverridePatch` |
| `addFoodPhoto`, `removeFoodPhoto` | `PhotoRead`, `PhotoPatch` |
| `deleteTasting` | `DeleteRead`, `DeleteChild`, `DeleteMeta` |
| `map_speakers`, `persist_and_publish` | `SpeakersRead`, `SpeakersWrite`, `ReviewRead`, `ReviewWrite`, `ReadyRead`, `ReadyWrite`, `AgentConflict` |
| `refresh_taste_profile`, `run_discovery` | `RefreshLoads`, `RefreshRead`, `RefreshWrite`, `DiscoveryLists`, `Propose` |
| `upsertDiscovery`, `hideDiscovery` | `UpsertBegins`, `UpsertWrite`, `HideBegins`, `HideWrite` |

### The browser: Capture, Upload, Watch, Access, Edge

* `Capture`: a flow keeps the tasting and the count of the render in which it was created, as a
  React closure does; its awaits are steps. `photo[n]` is the n-th run of `handlePhoto` or
  `handleManualConfirm`: nothing keeps a second from beginning while one is under way (the name
  field asked for during a photo, a tasting resumed meanwhile). The server answers yes or no, or
  does its part and the answer is lost (`WineAnswerLost`). `FlowEnds` is where the flows differ:
  `handlePhoto` catches what is thrown and shows the name field with a message (`told`),
  `handleManualConfirm` does not and leaves the page at `busy` (its run is `hung`).
* `Upload`: `uploadWithBackoff` and `attemptUpload` by the button are runners over
  one item in memory; `Persist` is the copy in sessionStorage a reload leaves.
* `Watch`: `shown.status` is what `setStatus` was last given, `shown.mounted` the status whose
  effects run. Between the two (`EffectsRun` is the commit with its clean-up) answers to the
  polls of the old effect still count. The status itself is written by both triggers, the
  sessions and the analyze route, each of which may take it back, so it moves any way; `had`
  is the history of what it was since the effects last ran.
* `Access`: a server instance has loaded the configuration or not; a tab is on a
  page, at Google, or in the callback. Only what the cookies carry ties the tabs. `stale` is
  history: the running instances that had loaded the list when an editor was taken off it.
* `Edge`: `current` is the stored version, `edge` the cached page, `screen` what a
  viewer sees, `purging` the invalidations on their way; a write is: the route's
  store, then the invalidation, then the answer and a reload.

### Reads and algorithms: Table, Pages, RegionTree, Labels, Voice, Local

* `Table`: an item is unborn, of schema 1 or 2, half an item, a counter, or gone.
  A reading call goes page by page from `cursor`; `steady` is the history of
  items nobody touched since its start.
* `Pages`, `Labels` build a state step by step (tastings, a label's fields) and state of the functions over it what they promise: each reachable
  state is one input. The functions are translated, the promise is written without them.
* In `Pages` a list is a set in an order: filtering and a stable sort of what the index
  returns depend only on the members and on the index' order, which has the last word. A row may
  have no lifecycle (`OlderItem`), for which each page has a default, and an analysis no rating.
* `RegionTree`: the service's calls change the table a row at a time; one call of
  `checkChain`, or one round of `pathFor` or `regionPath`, is a step. `at` and `visiting`
  are the recursion's argument and its stack (of which `visiting` in the code is the set),
  `verdicts` its memo. The functions read a list loaded before, so the table rests while one
  runs, and a later change makes the built tree one of another page. `buildRegionTree` takes
  the list as the scan returns it, in no order anybody chose: `CheckNext` takes any region.
* `Voice`: a step is one round of the code's loops over frames and words, and `lull`, `talk`
  and `told` are the loops' local variables (`silences` and `cur_start`, `merged` and
  `cur_start`, `segments`). No loop looks ahead, so the answer for a sound that ends here is
  what `Silences` and `Voiced` make of these variables; a run of voiced frames is merged when
  it closes, where the code does it in a second pass over the same runs in the same order.
  A frame is the unit of time. The code compares differences of floats with its three limits;
  one that is exactly the limit comes out below it or above, depending on where it lies
  (84 * 0.01 - 4 * 0.01 < 0.8): `SilenceUnder`, `MergeOver` and `PauseOver` are those places, any
  sets of numbers. Three kinds of input grow apart since no function reads two
  of them except the mapping, which reads pitches and spans.
* `Local`: a run is a process with one step per write or external call. `BreaksOff` is whatever
  throws between the upload of the voice and its deletion: starting the job with another error
  than Conflict, a poll, a result without address, its fetch or its JSON.

## Runs

| run | bounds | checks | distinct states |
|---|---|---|---|
| `PipelineOverlap` | 1 recording, 2 executions, every message twice, 1 crash, 1 node fault | `TypeOK`, `CompletedHasAnalysis`, `StepsEarned`, `BasisStored`, `CrashKeepsUpload` | 2.3 M |
| `PipelineMerge` | 1 recording, 2 executions, event twice, 1 re-analysis, 1 deletion, both conditional nodes due | `NoOrphanRecording`, `StepsKept` | 1.7 M |
| `PipelineCrash` | 1 recording, 1 execution at a time, every message 3 times, 2 crashes, 1 edit | `EditKept`, `UploadPublished` (liveness, fair) | 0.12 M |
| `CatalogCalls` | 1 wine, 1 winery, 2 regions, 1 tasting, 2 editors, 2 calls, from every catalogue these items allow | `TypeOK`, `CalmKeepsReferences`, `FillYields`, `FirstWriterWins` (the refinement) | 1.0 M |
| `Parts` | below | one promise or more of each of the fourteen parts and one type invariant over all | 0.81 M |
| `VOneCapture` | one recording turn, one photo | `OneCapture`, violated | |
| `VDangling` | the same with 1 region | `NoDangling`, violated | |
| `VCompletedStays`, `VFailureRecorded`, `VNoOrphan`, `VQueuedRuns`, `VSecondRecording` | the smallest that shows it | one statement of the docs each, violated | |

Why the bounds suffice. Every property relates at most two executions and one
recording (`UploadStarted` two). Two executions give every pairwise
interleaving of awaits: A with A (duplicate message), A with B, B with B
(duplicate event), either with a re-analysis or a deletion. Two deliveries are
the first duplicate. One crash and one node fault can fall on any await. In
`PipelineCrash` three receives are the code's `maxReceiveCount`, and two
crashes use up all but the last of them: with three crashes the queue would
hand the message to the dead-letter queue, which nothing reads. The theorems
lift the safety properties (`TypeOK`, `CompletedHasAnalysis`, `StepsEarned`,
`BasisStored`, `NoOrphanRecording`, `CrashKeepsUpload`, `StepsKept`, and `EditKept` for
executions one after another) to any number of everything.

In `CatalogCalls` a property relates one call to the writes of one other, so two
calls suffice; two regions give parents, one item of each other kind every kind
of reference. The initial states are all catalogues of these items, so two calls
meet every situation that longer histories would have to build up. The theorems
cover any number of calls and items.

Bounds of `Parts`, chosen so that the case a property is about happens, and
checked by a mutant of each property that it does:

| part | bounds | why enough |
|---|---|---|
| Diary | 2 callers, 3 calls, 1 recording allowed (3 ids), 2 photos, 1 failure, 1 session B | two calls and a session are every pair of writers, the third call makes a page stale; one place taken is the limit's boundary |
| Insights | 2 runs or calls at a time, 3 in all, 2 tastings, 2 patterns, 2 cards | two writers of one card or of the profile, a third after them |
| Limits | 3 requests of one IP, window 2, 5 ticks, 1 repeat; 1 process, days of 2 ticks, 2 invocations | a request at each side of a boundary and one that is late; one midnight. The theorems cover the rest |
| Access | 2 tabs, 2 pages, 1 instance, 1 editor, 2 logins, 1 write | two overlapping logins; an instance that is restarted signs before and judges after, as two would |
| Capture | 2 tastings, 1 turn of the recorder, 2 photos or names | two flows beside each other and one recording, in every order. The theorems cover more of each |
| Upload | 1 backoff loop of 2 attempts, 1 button retry at a time, 2 clicks, 1 reload | the two kinds of attempts overlap in every order |
| Watch | 2 polls under way, 2 writes of the status by others, 1 re-analysis by this display | the status goes forward and back; an answer that is overtaken, and one of the analysis before |
| RegionTree | 4 regions | a cycle of three with a region hanging off it, two cycles of two, any order of the list |
| Pages | 2 tastings, 2 wines, 2 dates, ratings 2 and 4 or none, 2 changes, rows with and without a lifecycle | a pair is what an order or a mean can get wrong |
| Labels | 2 attempts, every combination of the classes | all inputs of the six rules |
| Local | 2 runs and a deletion | each pair of blind writers, one of which breaks off |
| Table | 2 tastings, one with items below, pages of 1 item, 2 writes | every write between any two pages. The theorem covers other kinds, sizes and numbers of writes |
| Edge | 2 viewers, 2 versions, 2 clicks, 1 photo | a stale page and the write that made it stale |
| Voice | 6 levels, or 3 frames with 2 spans, or 3 words | shortest silence at both ends and one below it; medians of one and two samples, even and odd; a pause at and above the limit. One place each where a difference of exactly the limit is rounded to its other side, others where it is not |

The statements:

* `CompletedHasAnalysis`, `StepsEarned`, `BasisStored`: a job's status, its
  list of steps and the stored analysis never claim more than the items hold.
* `StepsKept`: sessions that merge their steps at once lose none. Its condition
  `JobMadeOnce` leaves out what starts a job anew: a re-analysis, which empties the
  list on purpose, and a second message (a second receive or recording), because
  the trigger's put of a new job is unconditional: a duplicate that read "no job"
  can replace a job that has steps. That repeats work and loses no data.
* `CrashKeepsUpload`: with one recording, no node fault and no deletion, a crash
  never loses an upload. Each condition is needed: a failed node is answered with
  HTTP 200 and so acknowledged, a second recording is dropped (`VSecondRecording`),
  and while a deletion takes the job away under a session and a late trigger puts
  one back, three executions can end with an acknowledged message and no
  transcription. That last loss is of a tasting somebody is deleting.
* `NoOrphanRecording`: recordings are only written with a revision, so a
  session cannot bring one back. Analysis and job are written without one
  (`VNoOrphan`).
* `EditKept`: regeneration patches and leaves the editor's text. Executions one
  after the other: when two sessions both read "no analysis" and an edit falls
  between their puts, the second put replaces it.
* `UploadPublished`: an upload ends as an analysis on a ready tasting. An edit
  is excepted since it can fail a patch of the session, and a failed node is
  not retried.

* `CalmKeepsReferences`: a call that no other write disturbs leaves no reference
  dangling that was not: `assertRefsExist` and `assertNoBackrefs` are right when
  calls come one at a time. When they overlap they are not (`VDangling`), since
  the write is not conditional on what was seen.
* `FillYields`: a fill never writes over a field that is set nor takes back an
  editor's confirmation, even if the editor's change lands between its read and
  its patch. The rev comparison carries it.
* `FirstWriterWins`: `RevStore` under the mapping `Rows`, `Intents`: an update, an
  attachment or a fill that has read a row commits only if nobody has changed or
  deleted it since. Creations insert, deletions ask for no revision, as in the code.
  The patch's condition also keeps `UpdateItem` from creating an item that was deleted
  meanwhile: `DeletedStays` follows from the refinement, and no run checks it by itself.
* `MetaFirstWins`, `CardsFirstWin`: the same of META, whose writers are the service's
  calls, the pages they come from and session B, and of the discovery cards. A call
  intends a commit from the read (of the page, of the bundle, of the card) to its patch.
  `CardsFirstWin` lets a card change in no other way, so a candidate can only add one.
  Recordings and the analysis are no rows of such a store: session B puts the
  first analysis whatever is there, and the model uses the id of a recording that was
  deleted again for a new one.
* `OneTextPerVersion`: the analysis has a text of the editor, but its guard is
  META's `rev`: of the editors of one version at most one has its text saved.
* `TakesBounded`: count-then-put passes the limit by at most one per parallel call.
* `CorrectionsKept`, `PhotosAsAnswered`, `CalmCalls`: what an editor was answered
  stays so beside other calls and a session; what cannot be kept is named in the
  property (a correction that the node had read; the last photo, which cannot be removed,
  see Differences; a call that was disturbed).
* `CardsKept`, `ProfileAsRead`: cards that were hidden stay hidden, samples grow, no refresh
  of an existing profile is lost. `NotProposedAgain`, that a run puts no card of a pattern it
  found a card of, is proved and checked by no run.
* `RateWindowBound`: at most the maximum of a window passes by the counter, with
  updates that come late or twice. It needs that a request is killed before an
  expired counter may be deleted (`LimitsAssumption`: the Lambda timeout against
  `TTL_GRACE_SEC`). Requests let through because the counter failed are not counted.
* `RunsPerDay`: per process, since the deployed counters live in memory.
* `ReturnsWhereStarted`: tabs do not exchange their return paths.
* `RevocationTakesHold`: an editor who was taken off the list gets a write applied only through
  an instance that has run since before. It says what is left of the immediate effect that
  `session.ts` claims: the token is no session, each instance judges by the list it loaded, and
  none that starts afterwards lets a token through that an older one signed.
* `NothingSilent`: when the page rests with a wine and a recording, the analysis
  was asked for, or the page says how to, shows an error or the name field with what failed.
  The flows decide this from different renders. It is left waiting for the wine only by a
  typed name whose call was lost (see Differences).
* `DurationExact`: the time of a recording over its pauses.
* `UploadingIsSent`: a recording that is said to be uploading is being sent. Loop, button, a new
  registration and a reload share the status; the display offers its button only for a failed one.
* `ShownIsRecent`: the display changes only to a status the job has had since it last changed,
  although the job goes back as well as forward; so what it shows at rest was true when it
  came. A completion shown is noticed once and not taken back.
* `RegionsFound`: whatever cycles and missing parents there are, exactly the regions whose
  chain of parents reaches no root are promoted, Explore reaches every region by its path,
  and the path of a region that is not lost, in the tree and in `regionPath`, is its whole chain.
* `PagesAgree`: `RatingsAgree`, `MeansAgree`, `OfferedApart`, `FitAsRated`. `OfferedApart` makes an
  exception of a row without lifecycle and recording (see Differences).
* `FilledConsistent`: what is filled in contradicts neither what was read nor itself.
* `LocalRunsSound`: a completed job has an analysis of a transcribed recording, and the voice in
  the transcription bucket is that of a run still on its way, of one that broke off or gave up,
  or one whose deletion failed. A run that goes on leaves none, also when it reuses a job.
* `ReadsWhole`: a paged read names nothing twice and misses nothing that was there
  throughout.
* `PagesFresh`: what the CDN holds is current, or one of the named reasons is there.
* `SavesOverSeen`: an editor never writes over a version that the page did not show.
* `VoiceAsHeard`: `SilencesWhole`, `VoicedWhole`, `SaidWhole`, `NamesSteady`. The first three hold
  whichever differences of exactly a limit are rounded across it; a pause of exactly 1.2 s
  otherwise continues its segment, against the code's comment (see Differences). The last
  says that the mapping does not depend on which voice Transcribe numbers first, and
  that the two parsers of one output (session B's and the local run's) agree unless an
  empty span has a pitch.

### Fairness

`FairSpec` assumes weak fairness of `Continue(w)`: a started execution goes on
(Lambda and AgentCore run it, and every await returns or throws). Transcribe
answers. A message or event that is not acknowledged is delivered again while
receives are left, as SQS's visibility timeout and Lambda's asynchronous retry
do. Nothing is assumed of uploads, the editor, crashes and faults. The
redeliveries of one message need an idle execution; since every execution ends,
one becomes idle and stays so while nothing else starts, so weak fairness is
enough. The other parts claim nothing about what must happen: a browser may be
closed and an editor may stop at any point, so no fairness is justified there.

### What the violations show

1. `VCompletedStays`: `trigger-transcribe` marks the job `analyzing` whatever it
   was. A duplicate event takes a completed job back, and since all its steps
   are in `completedSteps`, nothing sets it to completed again.
2. `VFailureRecorded`: no code sets a job to `failed` when a node of session B
   fails, though the design says so and the executor leaves it to its caller.
3. `VNoOrphan`: a session that outlives a deletion recreates the analysis or
   the job.
4. `VQueuedRuns`: re-analysis sends no `recordingId`, and jobs made by
   `trigger-upload` have none: the job stays queued.
5. `VSecondRecording`: the job is one per tasting, and the second recording's
   message is dropped once the first has moved the job on.
6. `VDangling`: a tasting is created for a wine that another call, which has
 scanned and found no tasting, is about to delete.
7. `VOneCapture`: while "start with a recording" is still creating its tasting, a
   photo (or typed name) works on a render without one and creates another. The
   page's header says that both join the same capture.

### Differences that have no run

Places where the code does other than a text of the repository says, or than its
neighbour does, seen while modelling:

* Two texts of different versions: `updateTasting` reads the analysis after META
  is patched, so of two editors who both were answered, the older text can be
  written last (`tastings.ts:112-122`, `design.md:211`).
* `loadCompletedTastings` counts every tasting, not the completed ones
  (`entrypoint.ts:101-133`); the discovery cadence uses that count
  (`entrypoint.ts:255-258`, `design.md:299`), and a profile refresh that depends
  on a multiple of five is skipped when two tastings are completed at once
  (`requirements.md:247`).
* The daily limit counts per microVM (`entrypoint.ts:52-69`).
* `upsertDiscovery` is called by nobody; two runs at once may put two cards of a
  pattern.
* `UploadStatus`, `AnalysisStatus` and with them `lib/upload/resume.ts`,
  `LabelCapture`, `WineForm` and `DuplicateCandidateDialog` are used by no page.
* The 401 of the guard names the API route as `returnTo` (`guard.ts:33-36`).
* A draft saved on a 401 is not shown again, though `WriteActionGuard.tsx:22` says it is restored:
  the hook reads it in an effect (129-136), after `ManualRatingControl` has given its initial
  value to `useState` (`ManualRatingControl.tsx:44`); the render that gets the draft then
  consumes it (49-52).
* Allow list and secrets are cached for an instance's life (`config.ts:95`), while
  `session.ts:10-12` says that an editor taken off the list is refused at once. An instance
  that runs goes on accepting.
* The last food photo cannot be removed: `removeFoodPhoto` patches `foodImageKeys: undefined`
  (`tastings.ts:301`), which `patchItem` skips (`repository.ts:229`). The route answers 200 with
  the photo still there, where `docs/issues/food-photo-upload.md:11`, `54` and `64` promise its
  removal. `PhotosAsAnswered` excepts it, so no run shows it.
* `handleManualConfirm` catches nothing (`record/page.tsx:402-431`): when a call of
  `createDraftAndTasting` is rejected, the page stays at `analyzing` without a message, where
  `handlePhoto` shows the name field (391-396). A wine or tasting made before the answer was
  lost stays too.
* `attempts` are said to be the automatic retries, which the backoff is computed from
  (`resume.ts:36`). The button's failures count too, and the backoff counts for itself (243-248).
* A row without a lifecycle counts as published (`read.ts:71`); with a wine and no recording it is
  also offered for audio (`read.ts:214`). An analysis written again without a rating keeps the
  old one (`repository.ts:229`).
* The local pipeline deletes the voice so as not to leave it in the cloud
  (`localPipeline.ts:165`), but only when everything before has gone well: after an error of
  `StartTranscriptionJob` (147-149), a poll (154), a result (160-163), a failed transcription or
  the end of the polls (175-183) it stays until the bucket's lifecycle removes it.
* A pause of exactly 1.2 s continues the segment (`transcript.ts:88`, `<=`), where the comment
  (`transcript.ts:60-61`) and the title of a test (`__tests__/analysis/transcript.test.ts:97`,
  which tries 2.5 s) say that 1.2 s or more splits; as floats, some such pauses come out above.
* A silence of exactly 0.8 s is found or not depending on where it begins
  (`features.py:277-279`, `284-286`: 84 * 0.01 - 4 * 0.01 is below 0.8), and a break of exactly
  0.1 s is closed or not (`features.py:234`); `features.py:247` says 0.8 s or more.
* Ending a recording from a pause counts the last stretch twice
  (`AudioRecorder.tsx:189`, `223`); a failed PUT drops the blob
  (`record/page.tsx:480-488`).
* A draft wine without a tasting stays when a later step of the photo flow fails.
  A capture with neither wine nor recording is in no list, nor is one whose first
  analysis failed.
* The timeline is ordered by the date a tasting was created with (`read.ts:597`).
  The home page looks for jobs in progress only among published tastings
  (`read.ts:285`, `303-320`, `requirements.md:290`). The list of wines counts
  unpublished tastings.
* The profile's region keys are ids while `assessFit` compares names; the catalogue
  tool searches one joined string (`tools/catalog.ts:107-111`).
* Readers upcast old items only in lists and scans: `getX` and bundles do not
  (`design.md:207`); a patch of a version 1 item without `rev` always conflicts.
  The job index of `design.md:201` is queried by nobody, and two second updates of
  `patchJob` may leave it at the older status.
* The attach, recording and analyse routes leave the cached page as it is
  (`wine/route.ts:10` against `requirements.md:352`); an editor then gets 409 after
  a reload until the cache's time is over. Pages declared dynamic are cached for
  at least a minute.
* Session B's transcript segments carry no text and are parsed by a parser of its
  own (`loadState.ts:34-58`), which keeps empty spans.
* `overrideSpeakerMapping` leaves `mappingConfidence` at `none`, so a corrected
  mapping is not displayed (`tastings.ts:234-240`, `speakerLabel.ts`,
  `requirements.md:198`). The edit button patches `{rev}` alone.
* The local pipeline never sets the lifecycle to ready, resets the analysis' `rev`
  and the editor's text, leaves a job `transcribing` when it throws before the
  model's call, and reads only the first recording. A label that is "half" red
  counts as a majority. A PATCH without `rev` is taken as `rev` 0
  (`api/tastings/[id]/route.ts:31`).

## Proofs

`PipelineProofs` proves, for every set of recordings and executions and all
bounds (assumptions: `SetsAssumption`, `BoundsAssumption` of `Pipeline`):

* `TypeCorrect`: `Spec => []TypeOK`. The inductive invariant is `TypeInv`,
  `TypeOK` with `OnRecording`: an execution that is at an await of a node, or of
  a trigger, has a recording. `TypeOK` alone is not inductive, because a deletion
  and a re-analysis run without one, and the nodes index `recs` by it.
* `NoRecordingOutlivesTasting`: `Spec => []NoOrphanRecording`, by `OrphanInv`,
  which adds `DeletionCovers`: whatever a running deletion has still to delete
  contains every recording that exists. It holds since no step creates a
  recording (every write to one needs it to exist).
* `RecordedStepsEarned`, `CompletedShowsAnalysis`, `AnalysisRestsOnStored`: by
  `ClaimInv`. As long as nobody deletes, what has been stored stays, so the
  claims can only become truer; `Supported` says that not only the items' claims
  but also those an execution carries in its locals (steps done, the
  sommelier's inputs, an analysis written on the way to the job's mark) are
  backed by the items.

Three more theorems are about what crashes and overlaps leave. The first two rest on
`FirstInv`, which adds `JobFirst` to `ClaimInv`: while nobody deletes, every execution past
its start has the job, so no unconditional update makes a stub and `ensure_job` puts none.

* `CrashesKeepUploads`: `Spec => []CrashKeepsUpload`, by `CrashInv`: either the
  transcription has been started, or `NotYet` (no message acknowledged, no event, the job
  not past queued, every execution at an await before or at `StartTranscriptionJob`).
  Without a failed node only the start itself leads out of `NotYet`. `NeverDeleted` stands in the
  property because the proof asked for it: TLC then showed the deletion described above,
  with four executions, where the runs have two.
* `MergedStepsStay`: `Spec => StepsKept`, by `MergeInv`. A merge whose rev is still the
  job's has read the job's steps (`MergeOk`), so what it writes contains them; the one
  message has one execution, which puts the job before any other execution has it.
* `EditedTextStays`: `OneExecution /\ Spec => EditKept`, by `EditInv`: an execution about
  to put a whole analysis has read that there is none. With two executions the property
  is false (see the statements); `OneExecution` is what the run's configuration has as well.

Each proof goes action by action: lemmas on `Goto`, `Seen`, `NodeDone`,
`NodeFails`, `Quit` say what a move does to an execution, and the lemma of an
action adds what it writes.

`CatalogProofs` proves, for all sets of items and editors (assumption:
`KindsAssumption`), `TypeCorrect`, `CalmCallsKeepReferences` and `FillsYield`. One
inductive invariant, `IInv`, carries all three:

* `Sound`: the id of a running creation is fresh, any other call's item is not;
  a call writes only when all its references have been read and none missed.
* `CheckedSound`: while a call is calm, the references it has read are stored,
  and nothing refers to what it is about to remove. No tasting is ever referred
  to, so a tasting needs no scan.
* `FillSound`: a wine's `rev` has not fallen below the one a fill has read, and
  while it is the same the field is still missing. Hence a write must raise
  `rev`, which `Patched` does, and a creation, which sets it to 0, must be of a
  fresh id.
* `OneCreator`: two creations never share an id.

`BeginKeeps`, `QuietKeeps` and `WriteKeeps` show that `IInv` survives the three
ways a call can move; each action is then one of them. `WriteEffect` and
`RemoveEffect` say what a write changes, from which the action properties follow.

`CatalogImplementsRevStore` proves the refinement that `CatalogCalls` checks:
`Spec => FirstWriterWins`. `InitRefines` and `NextRefines` map the initial states
and each step; a call's step before its write is a read or a stutter of the
abstract store, `Write` a commit or an insertion, `Remove` a drop. The proof needs
`IInv` on both sides of a step (`Sound`: an id under creation is fresh; a rev that is
still the one read means that the row is unchanged). `DeletedItemsStay` is a corollary:
no step of the abstract store brings a deleted row back (`StoreKeepsDeleted`), so none of
the catalogue does.

`AccessProofs` (assumption: `AccessAssumption`). `LoginReturns` by `SessionInv`: states are
handed out in order (`StatesGiven`), so of all flow cookies the browser ever holds only
the one a tab's own login has set bears its state (`CookieOfLogin`), and a callback that
passed the comparison carries that login's route (`RightCallback`). `RevocationHolds` rests on
`ListsKnown`: whoever is on the list of a running instance is on the list of the moment, or was
taken off it while that instance ran. `ListsStep` is its step: an instance that starts loads
what is there, a removal marks all that run, and one that stops takes its marks with it.

The same module proves `RateBounded` for every number of IPs and requests, every
window, maximum and clock, from `LimitsAssumption`. `RateInv` adds to the bound:
`InTime` (a request inside the middleware is younger than the Lambda's timeout),
`Counting` (a counter that exists has counted at least what passed, and expires only
after the window and the grace) and `NotCounting` (where none exists nothing has
passed or the window is over for good). `RunsBounded` is a counting argument: the runs
started today are as many as the slots (process, number of the run) used up by the
processes that lived today (`RunsAreSlots`), and each process has `DailyRunLimit` of them.

`BrowserProofs` (assumption: `CaptureAssumption`):

* `UploadsAreSent`: `UploadInv`, the property with the types. An attempt writes only the object it
  was begun with, so what it says of an object that was replaced does not matter, and whoever
  ends an attempt takes the status away from uploading, for the others at work on it as well.
* `ShownIsAlwaysRecent`: `WatchInv`. Polls that still count are of an effect whose status is in
  progress, and the answer one bears is in `had` (`AnswersRecent`), which only the effects'
  clean-up empties, as it cancels them; a failure stays shown while its re-analysis is asked
  for (`AskedFromFailure`), so "queued" is in `had` when its answer comes.
* `DurationIsExact`: `ClockRight` relates the clock, the start of the stretch and the sum so far.
* `NothingInSilence`: `SilenceInv`. No flow knows a tasting, a wine or a recording that is not
  on the server (`Grounded`); as long as nothing was said below (`Quiet`), page and flows know of
  the recordings of their tastings (`Knows`), and when a tasting with a recording has its wine
  or may get it, the page says so above or a flow is at its trigger (`Unfinished`, `Said`).
  `BusyHeld`: a page that waits has a flow, be it a hung one. Needed because the flows each work
  on the render they were created in.

`ReadProofs`:

* `PagesStayFresh`, `SavesFollow` (assumption: `EdgeAssumption`): `EdgeInv` says that every
  page somebody has (CDN, browser, request under way) is a version the tasting had, and one
  of the current rev shows what is current (`PagesRemembered`).
* `ReadsAreWhole` (assumption: `TableAssumption`; the table has finitely many ids): `TableInv`
  says that what was named lies at a place the cursor has passed, that an item of a list
  lies at its index key until it is deleted for good (`Passed`), and that an item that was
  there from the start has been named or lies ahead of the cursor (`Waits`). `PlacesDiffer`
  and `PageFirst` are the lemmas on the order: a page is a first part of what lies ahead.
* `PagesDoAgree` (assumption: `PagesAssumption`): `SortedIsOf` says what any strict order makes of
  a finite set (a member's place is one more than the number of those before it),
  `OrdersAreStrict` that the pages' three orders are strict, for ratings and dates that may be
  equal. The rest follows from types, but for `HeardFirst`: a job, and with it the public
  lifecycle where there is one, needs a recording.
* `RegionsAreFound` (`RegionAssumption`: the absent parent is no region's id) proves
  `RegionsFound` for any set of regions, finite or not. `RegionInv` says that the regions
  that wait for a verdict form a chain of parents (`Waiting`), that a verdict is "invalid"
  for lost regions only and "valid" for the others only (`VerdictsTrue`), that the loop passes
  over none (`AllChecked`) and that a path is a chain of parents that never leaves the regions
  that reach a root (`WayUp`). A region is lost if it is in a set of regions that all have a
  parent, in the set or nowhere: so a cycle is shown lost by the regions on the stack, a path
  that came back by the regions on it, and nothing is counted along a chain (`LostWithParent`).

`AgentProofs`:

* `LocalRunsHold` (`LocalAssumption`: a model replies at least once, and `NoItem` is no run):
  a run past its put of the recording has left the heard one in the table, one past its
  put of the analysis an analysis, unless a deletion has begun, which takes META last. The voice
  in the bucket is that of the run that uploaded last, and leaves with whoever gets the result.
* `LabelsConsistent`: until the findings are in, the label is what was read.
* `CardsStayKept`, `NoneProposedAgain`, `ProfileIsAsRead` (`InsightsAssumption`): a card whose
  rev is the one a call has read has the sample that call has read (`CardAsRead`), and the
  same of the profile (`ProfileRead`).
* `CardsImplementRevStore`: cards are only appended, so an insertion is of a key never used,
  and a call's rev is not ahead of its card's (`CardsBehind`); a patch that succeeds had the
  card's rev, and leaves every other call with that card behind.
* `HeardWhole` (`VoiceAssumption`: finitely many pitches, thresholds that are numbers, the medium
  one above zero and not above the high one, as in the code), for sounds of any length and any
  rounding at the limits.
  `LullInv` says what has been found up to the last loud frame and where the hush since then
  began; `TalkInv` that the merged stretches begin and end with voice, lie apart by more than
  a break that is closed, and separate two voiced frames exactly at such a break; `SaidInv` that
  the segments hold each word once and in order, end where their last word ends, and go on as
  long as the speaker and the pause allow. `NamesAreSteady` needs the types alone: the samples
  of one voice are those of the other after a renumbering, so each median is the same number,
  whichever it is. That it is a number needs a least pitch with enough samples up to it, and
  a finite set of numbers has a least element (`LeastOf`, `GreatestOf`) because its strict
  subsets are well-founded: `WFMin` of the library, which takes no operator, gives what
  an induction over finite sets would.

`DiaryProofs` (`DiaryAssumption`: finitely many callers, at least one, and finitely many ids
of recordings and photos, which holds of any execution) proves all six properties from
`DiaryInv`, whose parts say of each call what it holds of the partition while the rev it
carries is the current one (`CallOk`), of two calls that they use no version for two texts
and no new id twice (`Apart`), of session B the same (`AgentOk`), and of the recordings:

* `RecordingsBounded`: those stored and those counted but not yet put are together at most
  `MaxTakes` and one for each caller but the first (`CountOk`). The bound on the stored alone
  is not inductive; the calls between their count and their put carry the excess.

* `MetaImplementsRevStore` (`SessionBAssumption`: session B is no service call): nobody who
  means to write META holds a rev ahead of it (`RevsBehind`). So a write, which raises META's
  rev, leaves every other writer behind for good, which is what the abstract commit says of
  the other intents.

`PartsProofs` proves `PartsAreTyped`: `PartsSpec => []PartsTypeOK`, from the assumptions of all
fourteen components. `PartsRunAlone` shows that each part runs as its own specification
says, since a step moves one part and leaves the others' variables (`OnePartMoves`); so what is
proved of a part holds of it in `MCParts` too. The types themselves are lemmas beside
each component's theorems (`DiaryTypes`, `WatchTypes` and so on). Some need more than types:
that a completion is noticed once (`NoticedOnce`) because the display has no request left that
could take it from "completed"; that a run of the local pipeline has a reply left until its
last (`LocalTyped`), and the same of a photo (`LabelsTyped`); that a flow cookie bears the number of a
login that was started (`AccessBounds`).

What the proofs use of a bound on calls, writes or runs is only that it is a number, and of
`MaxTakesHere` and `MaxDiaryCalls` that it is not zero (a capture that is resumed has a recording,
the first call of a tasting creates it); no theorem depends on how large one is.

Leaves are kept small: each is proved with less than a sixth of the time the provers take by
default, so that the proofs also pass on a slower machine.

Only model-checked:

* `UploadPublished` is liveness under fairness, beyond the prover. So are the violated
  liveness statements.
* `EditKept` for executions that overlap is false and checked nowhere.


## Not modelled

Rendering and styling in `app/` and `components/`, and components no page uses;
feeds, site map and labels of views; search and agreement, which are sums and
substrings; prompts, model answers and read-only tools of the agent; HEIC and
image conversion, signed addresses; the numerical half of `audio/` (energy, pitch,
laughter, rate); token signatures; the CDK stacks beyond the upload queue, the
Transcribe rule and the cache behaviour; developer scripts.

Left out of modelled parts: a second click on start while the browser asks for the
microphone (`Capture`), the monthly cost of the budget, which the deployed counters
never record (`Limits`), the statistics tool's groupings by time (`Pages`), the
RSC payload beside the page (`Edge`), DynamoDB's eventually consistent reads. `Limits` takes the
address of a request as given, where the code takes the first entry of `X-Forwarded-For`, which
the client chooses (`ratelimit.ts:103-106`). `Labels` leaves out that the grapes that are filled
in are cut to twelve after the conflict rules (`labelEnrich.ts:389`), the property is
about the grapes the rules have judged.
Drafts of forms (`WriteActionGuard`), since none is shown again.

## Plan

Every invariant and action property of the passing runs is a theorem, and so are the three
refinements of `RevStore`. What could come next is a joint statement of `Catalog` and
`RegionTree`: a region that `Catalog` deletes leaves no chain of parents to it but the ones
`RegionTree` finds lost.
