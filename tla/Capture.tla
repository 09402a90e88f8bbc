------------------------------ MODULE Capture ------------------------------
(***************************************************************************)
(* The recording page: a tasting is put together from a label photo (or a  *)
(* typed name) and recordings, in either order.  Each flow of the page is  *)
(* an async function that works on the state of the render it was created  *)
(* in, while other flows change the page; the recorder keeps the callback  *)
(* of the render in which the recording began.  Other services answer yes  *)
(* or no.  The recorder's clock counts beside it.                          *)
(***************************************************************************)
EXTENDS Integers, FiniteSets

CONSTANTS MaxCaptures,     \* tastings the page may create
          MaxTakesHere,    \* MAX_RECORDINGS_PER_TASTING
          MaxTurns,        \* recordings that are begun
          MaxPhotoFlows,   \* photos and names that are confirmed
          MaxSeconds       \* the clock stops here

ASSUME CaptureAssumption ==
    /\ {MaxCaptures, MaxTurns, MaxPhotoFlows, MaxSeconds} \subseteq Nat
    /\ MaxTakesHere \in Nat \ {0}

VARIABLES page,       \* the state of RecordCapture
          starting,   \* the run of startRecordingCapture
          photo,      \* runs of handlePhoto and handleManualConfirm
          mic,        \* the AudioRecorder
          sends,      \* runs of handleRecordingComplete
          tastings,   \* the tastings on the server
          seconds,    \* the clock
          turns       \* recordings and photo flows so far, tastings this visit has made

captureVars == <<page, starting, photo, mic, sends, tastings, seconds, turns>>

Captures == 1..MaxCaptures
NoCapture == 0
NoTasting0 == [there |-> FALSE, wine |-> FALSE, takes |-> 0, asked |-> FALSE]
Flows == 1..MaxPhotoFlows
NotRunning == [pc |-> "off", capture |-> NoCapture, wine |-> FALSE]
NoPhoto == [pc |-> "off", capture |-> NoCapture, count |-> 0, typed |-> FALSE]
\* startedAt and accum as in the refs; heard is history: seconds really recorded.
\* The rest is the render of the click on record.
MicIdle == [state |-> "idle", startedAt |-> 0, accum |-> 0, heard |-> 0,
            pausedStop |-> FALSE, duration |-> 0,
            capture |-> NoCapture, count |-> 0, wine |-> FALSE]

\* The page is opened, with or without an incomplete tasting 1 to resume.
CaptureInit ==
    /\ page = [capture |-> NoCapture, creating |-> FALSE, count |-> 0, step1 |-> "idle",
               step2 |-> "idle"]
    /\ starting = FALSE /\ photo = [n \in Flows |-> NoPhoto] /\ mic = MicIdle
    /\ sends = [n \in 1..MaxTurns |-> NotRunning]
    /\ tastings = [t \in Captures |-> NoTasting0]
    /\ seconds = 0 /\ turns = [mic |-> 0, photo |-> 0, made |-> 0]

NewCaptures == {t \in Captures : ~tastings[t].there /\ \A u \in 1..t-1 : tastings[u].there}
\* What a callback of the current render sees.
Enter(pc, typed) == [pc |-> pc, capture |-> page.capture, count |-> page.count, typed |-> typed]

PageStays == UNCHANGED <<starting, mic, sends, seconds, turns>>

-----------------------------------------------------------------------------
(* An empty capture for a recording, and one that is resumed               *)

StartCapture ==
    /\ page.capture = NoCapture /\ ~page.creating
    /\ page' = [page EXCEPT !.creating = TRUE] /\ starting' = TRUE
    /\ UNCHANGED <<photo, mic, sends, tastings, seconds, turns>>

CaptureCreated ==
    /\ starting /\ starting' = FALSE
    /\ \/ \E t \in NewCaptures :
             /\ tastings' = [tastings EXCEPT ![t].there = TRUE]
             /\ page' = [page EXCEPT !.creating = FALSE, !.capture = t]
             /\ turns' = [turns EXCEPT !.made = @ + 1]
       \/ /\ page' = [page EXCEPT !.creating = FALSE, !.step2 = "error"]
          /\ \/ UNCHANGED tastings
             \/ \E t \in NewCaptures : tastings' = [tastings EXCEPT ![t].there = TRUE]  \* answer lost
          /\ UNCHANGED turns
    /\ UNCHANGED <<photo, mic, sends, seconds>>

\* An earlier visit has left tasting t with a wine or with a recording.
ResumeCapture ==
    /\ page.capture = NoCapture
    /\ \E t \in NewCaptures, withWine \in BOOLEAN :
          /\ tastings' = [tastings EXCEPT ![t] = [there |-> TRUE, wine |-> withWine,
                                                  takes |-> IF withWine THEN 0 ELSE 1, asked |-> FALSE]]
          /\ page' = [page EXCEPT !.capture = t, !.count = IF withWine THEN 0 ELSE 1,
                                  !.step2 = "idle", !.step1 = IF withWine THEN "ready" ELSE "idle"]
    /\ UNCHANGED <<photo>> /\ PageStays

-----------------------------------------------------------------------------
(* The wine: a photo, or a typed name                                      *)

Begins(n, flow) ==
    /\ n = turns.photo + 1 /\ photo' = [photo EXCEPT ![n] = flow]
    /\ page' = [page EXCEPT !.step1 = "busy"] /\ turns' = [turns EXCEPT !.photo = n]
    /\ UNCHANGED <<starting, mic, sends, tastings, seconds>>

PhotoChosen(n) == page.step1 = "idle" /\ Begins(n, Enter("upload", FALSE))
\* The label is read now, whatever the page has come to show.
LabelUploaded(n) ==
    /\ photo[n].pc = "upload" /\ photo' = [photo EXCEPT ![n].pc = "wine"]
    /\ page' = [page EXCEPT !.step1 = "busy"] /\ UNCHANGED tastings /\ PageStays

\* The name field, asked for or ("told") after a failure and with its message; "not this
\* one" comes back to it.
AskName ==
    /\ page.step1 \in {"idle", "ready"} /\ page' = [page EXCEPT !.step1 = "manual"]
    /\ UNCHANGED <<photo, tastings>> /\ PageStays
ManualConfirm(n) == page.step1 \in {"manual", "told"} /\ Begins(n, Enter("wine", TRUE))

\* A refused or lost call of handlePhoto, or a refused one of handleManualConfirm, gives
\* the name field; handleManualConfirm does not catch a lost one and stops there for good.
FlowEnds(n) ==
    \/ photo' = [photo EXCEPT ![n] = NoPhoto] /\ page' = [page EXCEPT !.step1 = "told"]
    \/ photo[n].typed /\ photo' = [photo EXCEPT ![n] = [NoPhoto EXCEPT !.pc = "hung"]] /\ UNCHANGED page

\* No upload, no label, no wine or no tasting.
PhotoFails(n) ==
    photo[n].pc \in {"upload", "wine"} /\ FlowEnds(n) /\ UNCHANGED tastings /\ PageStays

\* createDraftAndTasting: the wine goes to the capture of the flow's render, or to a
\* new tasting if there was none.
WineGoesTo(n) == IF photo[n].capture # NoCapture THEN {photo[n].capture} ELSE NewCaptures
GetsWine(t) == tastings' = [tastings EXCEPT ![t].there = TRUE, ![t].wine = TRUE]

\* The same, done on the server; the answer does not arrive.
WineAnswerLost(n) ==
    /\ photo[n].pc = "wine" /\ FlowEnds(n)
    /\ \E t \in WineGoesTo(n) : GetsWine(t)
    /\ PageStays

\* With a recording then, the analysis is next.
DraftAndTasting(n) ==
    /\ photo[n].pc = "wine"
    /\ \E t \in WineGoesTo(n) :
          /\ GetsWine(t)
          /\ IF photo[n].count > 0
             THEN photo' = [photo EXCEPT ![n].pc = "trigger", ![n].capture = t] /\ UNCHANGED page
             ELSE /\ photo' = [photo EXCEPT ![n] = NoPhoto]
                  /\ page' = [page EXCEPT !.capture = t, !.step1 = "ready"]
    /\ turns' = [turns EXCEPT !.made = IF photo[n].capture = NoCapture THEN @ + 1 ELSE @]
    /\ UNCHANGED <<starting, mic, sends, seconds>>

PhotoDoneQuietly(n, started) ==     \* mutant: no notice when the analysis was refused
    page' = [page EXCEPT !.capture = photo[n].capture, !.step1 = "ready",
                         !.step2 = IF started THEN "done" ELSE @]
PhotoDone(n, started) ==
    page' = [page EXCEPT !.capture = photo[n].capture, !.step1 = "ready", !.step2 = "done"]

PhotoTriggers(n) ==
    /\ photo[n].pc = "trigger" /\ photo' = [photo EXCEPT ![n] = NoPhoto]
    /\ \E started \in BOOLEAN :
          /\ tastings' = [tastings EXCEPT ![photo[n].capture].asked = @ \/ started]
          /\ PhotoDone(n, started)
    /\ PageStays

-----------------------------------------------------------------------------
(* The recorder                                                            *)

MicStays == UNCHANGED <<page, starting, photo, tastings, seconds>>

\* handleStart: the recorder's onstop keeps the callback of this render.
MicStart ==
    /\ page.capture # NoCapture /\ mic.state = "idle" /\ turns.mic < MaxTurns
    /\ mic' = [MicIdle EXCEPT !.state = "recording", !.startedAt = seconds,
                 !.capture = page.capture, !.count = page.count, !.wine = page.step1 = "ready"]
    /\ turns' = [turns EXCEPT !.mic = @ + 1] /\ MicStays /\ UNCHANGED sends

MicPause ==
    /\ mic.state = "recording"
    /\ mic' = [mic EXCEPT !.state = "paused", !.accum = @ + (seconds - mic.startedAt)]
    /\ MicStays /\ UNCHANGED <<sends, turns>>

MicResumeLate ==                 \* mutant: the start is not moved
    /\ mic.state = "paused" /\ mic' = [mic EXCEPT !.state = "recording"]
    /\ MicStays /\ UNCHANGED <<sends, turns>>
MicResume ==
    /\ mic.state = "paused"
    /\ mic' = [mic EXCEPT !.state = "recording", !.startedAt = seconds]
    /\ MicStays /\ UNCHANGED <<sends, turns>>

\* handleStop and onstop; handleRecordingComplete refuses what is over the limit.
MicStop ==
    /\ mic.state \in {"recording", "paused"}
    /\ mic' = [MicIdle EXCEPT !.state = "stopped", !.pausedStop = mic.state = "paused",
                 !.duration = mic.accum + (seconds - mic.startedAt), !.heard = mic.heard]
    /\ IF mic.count >= MaxTakesHere
       THEN page' = [page EXCEPT !.step2 = "error"] /\ UNCHANGED sends
       ELSE /\ page' = [page EXCEPT !.step2 = "saving"]
            /\ sends' = [sends EXCEPT ![turns.mic] =
                            [pc |-> "register", capture |-> mic.capture, wine |-> mic.wine]]
    /\ UNCHANGED <<starting, photo, tastings, seconds, turns>>
MicRestart ==
    /\ mic.state = "stopped" /\ mic' = MicIdle /\ MicStays /\ UNCHANGED <<sends, turns>>

ClockMoves ==
    /\ seconds < MaxSeconds /\ mic.state \in {"recording", "paused"} /\ seconds' = seconds + 1
    /\ mic' = [mic EXCEPT !.heard = IF mic.state = "recording" THEN @ + 1 ELSE @]
    /\ UNCHANGED <<page, starting, photo, sends, tastings, turns>>

-----------------------------------------------------------------------------
(* A recording is saved                                                    *)

SendStays == UNCHANGED <<starting, photo, mic, seconds, turns>>

\* The presigned URL; the server counts the recordings of the tasting itself.
Register(n) ==
    LET t == sends[n].capture IN
    /\ sends[n].pc = "register" /\ tastings[t].takes < MaxTakesHere
    /\ tastings' = [tastings EXCEPT ![t].takes = @ + 1]
    /\ sends' = [sends EXCEPT ![n].pc = "put"] /\ UNCHANGED page /\ SendStays

\* Refused, or the upload fails: the blob is dropped.
SendFails(n) ==
    /\ sends[n].pc \in {"register", "put"} /\ sends' = [sends EXCEPT ![n] = NotRunning]
    /\ page' = [page EXCEPT !.step2 = "error"] /\ UNCHANGED tastings /\ SendStays

\* Stored in S3: counted, and with the wine of the recording's render the analysis is next.
Stored(n) ==
    /\ sends[n].pc = "put"
    /\ IF sends[n].wine
       THEN /\ sends' = [sends EXCEPT ![n].pc = "trigger"]
            /\ page' = [page EXCEPT !.count = @ + 1]
       ELSE /\ sends' = [sends EXCEPT ![n] = NotRunning]
            /\ page' = [page EXCEPT !.count = @ + 1, !.step2 = "done"]
    /\ UNCHANGED tastings /\ SendStays
SendTriggers(n) ==
    /\ sends[n].pc = "trigger" /\ sends' = [sends EXCEPT ![n] = NotRunning]
    /\ \E started \in BOOLEAN :
          tastings' = [tastings EXCEPT ![sends[n].capture].asked = @ \/ started]
    /\ page' = [page EXCEPT !.step2 = "done"] /\ SendStays

CaptureNext ==
    \/ StartCapture \/ CaptureCreated \/ ResumeCapture
    \/ AskName
    \/ \E n \in Flows : \/ PhotoChosen(n) \/ LabelUploaded(n) \/ ManualConfirm(n) \/ PhotoFails(n)
                       \/ WineAnswerLost(n) \/ DraftAndTasting(n) \/ PhotoTriggers(n)
    \/ MicStart \/ MicPause \/ MicResume \/ MicStop \/ MicRestart \/ ClockMoves
    \/ \E n \in 1..MaxTurns : Register(n) \/ SendFails(n) \/ Stored(n) \/ SendTriggers(n)

CaptureSpec == CaptureInit /\ [][CaptureNext]_captureVars

-----------------------------------------------------------------------------
(* Properties                                                              *)

CaptureTypeOK ==
    /\ page.capture \in Captures \union {NoCapture} /\ page.count \in Nat
    /\ page.step1 \in {"idle", "busy", "manual", "told", "ready"}
    /\ page.step2 \in {"idle", "saving", "done", "error"}
    /\ \A t \in Captures : tastings[t].takes \in 0..MaxTakesHere

Resting ==
    /\ \A n \in Flows : photo[n].pc \in {"off", "hung"}
    /\ ~starting /\ \A n \in 1..MaxTurns : sends[n].pc = "off"

\* When everything rests and the tasting of the page has its wine and a recording, the
\* analysis has been asked for, or the page shows that it can be started from the record,
\* an error, or that the wine could not be joined; and it is left waiting for the wine
\* only by a typed name whose call was lost.
NothingSilent ==
    Resting =>
        /\ page.step1 = "busy" => \E n \in Flows : photo[n].pc = "hung"
        /\ page.capture # NoCapture /\ tastings[page.capture].wine /\ tastings[page.capture].takes > 0
             => \/ tastings[page.capture].asked \/ page.step2 \in {"done", "error"}
                \/ page.step1 \in {"told", "busy"}

\* The duration the page reports is what was recorded, over any pauses, when the
\* recording is ended while it runs.
DurationExact ==
    mic.state = "stopped" /\ ~mic.pausedStop => mic.duration = mic.heard

\* What the page says of itself: photo and recording join the same capture, whichever
\* comes first; a visit begins no second tasting.
OneCapture == turns.made <= 1

=============================================================================
