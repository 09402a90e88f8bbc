------------------------------- MODULE Watch -------------------------------
(***************************************************************************)
(* The status display of an analysis: it asks every few seconds, whether   *)
(* or not the last answer is there, so answers are slow, lost or overtake  *)
(* each other, up to the notice of completion or the request to analyse    *)
(* again.  The status it asks for goes up and down: both triggers, the     *)
(* sessions and every editor's re-analysis write it, each without regard   *)
(* to what is there.                                                       *)
(***************************************************************************)
EXTENDS Integers, FiniteSets

CONSTANTS Polls,            \* status requests that may be under way
          MaxStatusWrites,  \* writes of the job's status by others
          MaxReanalyses     \* analyses that are asked for again

ASSUME WatchAssumption == {MaxStatusWrites, MaxReanalyses} \subseteq Nat

VARIABLES jobStatus,     \* the status on the server
          shown,         \* the component's status, and the one its effects have run for
          poll,          \* each request: not cancelled yet, and the answer it bears
          again,         \* the re-analysis request, and how many were accepted
          had,           \* history: what the server's status has been since the effects ran
          statusWrites   \* writes by others so far

watchVars == <<jobStatus, shown, poll, again, had, statusWrites>>

InProgress == {"queued", "transcribing", "analyzing"}
Statuses == InProgress \union {"completed", "failed"}
NoPoll == [pc |-> "off", live |-> FALSE, answer |-> "none"]

\* The page bears the status of its own time; the effects run when it is mounted.
\* notices is history.
WatchInit ==
    /\ jobStatus \in Statuses /\ had = {jobStatus} /\ statusWrites = 0
    /\ \E s \in Statuses :
          shown = [status |-> s, mounted |-> s, notified |-> s = "completed",
                   notices |-> IF s = "completed" THEN 1 ELSE 0]
    /\ poll = [p \in Polls |-> NoPoll] /\ again = [sent |-> FALSE, accepted |-> 0]

-----------------------------------------------------------------------------
(* Who writes the status.  Each has looked at it before, if at all.        *)

JobBecomes(s) == jobStatus' = s /\ had' = had \union {s}
StatusWritten(s) ==
    /\ statusWrites < MaxStatusWrites /\ statusWrites' = statusWrites + 1
    /\ JobBecomes(s) /\ UNCHANGED <<shown, poll, again>>

\* trigger-upload, also for a message it gets again; session A writes the same.
UploadMarks == StatusWritten("transcribing")
\* trigger-transcribe, over a completed job too.
TranscriptionMarks == \E s \in {"analyzing", "failed"} : StatusWritten(s)
SessionCompletes == StatusWritten("completed")
\* The analyze route for another page or editor, whatever the status is.
OthersReanalyze == StatusWritten("queued")

-----------------------------------------------------------------------------
(* The display.                                                            *)

\* The interval of the effect sends a request, whatever is under way.
PollSent(p) ==
    /\ shown.mounted \in InProgress /\ poll[p].pc = "off"
    /\ poll' = [poll EXCEPT ![p] = [pc |-> "sent", live |-> TRUE, answer |-> "none"]]
    /\ UNCHANGED <<jobStatus, shown, again, had, statusWrites>>
PollReads(p) ==
    /\ poll[p].pc = "sent"
    /\ poll' = [poll EXCEPT ![p].pc = "answered", ![p].answer = jobStatus]
    /\ UNCHANGED <<jobStatus, shown, again, had, statusWrites>>
PollLost(p) ==
    /\ poll[p].pc = "sent" /\ poll' = [poll EXCEPT ![p] = NoPoll]
    /\ UNCHANGED <<jobStatus, shown, again, had, statusWrites>>

CountsAlways(p) == TRUE             \* mutant: cancelled is not asked
Counts(p) == poll[p].live

\* setStatus.  Until the effects run, answers to the old effect still count.
PollAnswered(p) ==
    /\ poll[p].pc = "answered" /\ poll' = [poll EXCEPT ![p] = NoPoll]
    /\ shown' = [shown EXCEPT !.status = IF Counts(p) THEN poll[p].answer ELSE @]
    /\ UNCHANGED <<jobStatus, again, had, statusWrites>>

\* React commits the status and runs the effects: the old one's clean-up cancels its
\* requests, and a completion is noticed once.
EffectsRun ==
    /\ shown.status # shown.mounted
    /\ LET done == shown.status = "completed" IN
       shown' = [shown EXCEPT !.mounted = shown.status, !.notified = @ \/ done,
                              !.notices = IF done /\ ~shown.notified THEN @ + 1 ELSE @]
    /\ poll' = [p \in Polls |-> [poll[p] EXCEPT !.live = FALSE]] /\ had' = {jobStatus}
    /\ UNCHANGED <<jobStatus, again, statusWrites>>

\* The button of a failed analysis, disabled while its request is under way: React runs
\* pending effects before it renders the click.  The server queues the job...
ReanalyzeAccepted ==
    /\ shown.status = "failed" /\ shown.mounted = "failed" /\ ~again.sent
    /\ again.accepted < MaxReanalyses /\ JobBecomes("queued")
    /\ again' = [sent |-> TRUE, accepted |-> again.accepted + 1]
    /\ UNCHANGED <<shown, poll, statusWrites>>
\* ...and when the answer comes the display starts over; it may not come.
ReanalyzeAnswered ==
    /\ again.sent /\ again' = [again EXCEPT !.sent = FALSE]
    /\ shown' = [shown EXCEPT !.status = "queued", !.notified = FALSE]
    /\ UNCHANGED <<jobStatus, poll, had, statusWrites>>
ReanalyzeLost ==
    /\ again.sent /\ again' = [again EXCEPT !.sent = FALSE]
    /\ UNCHANGED <<jobStatus, shown, poll, had, statusWrites>>

WatchNext ==
    \/ UploadMarks \/ TranscriptionMarks \/ SessionCompletes \/ OthersReanalyze
    \/ EffectsRun \/ ReanalyzeAccepted \/ ReanalyzeAnswered \/ ReanalyzeLost
    \/ \E p \in Polls : PollSent(p) \/ PollReads(p) \/ PollLost(p) \/ PollAnswered(p)

WatchSpec == WatchInit /\ [][WatchNext]_watchVars

-----------------------------------------------------------------------------
(* Properties                                                              *)

WatchTypeOK ==
    /\ jobStatus \in Statuses /\ had \subseteq Statuses /\ statusWrites \in 0..MaxStatusWrites
    /\ shown.status \in Statuses /\ shown.mounted \in Statuses
    /\ again.accepted \in 0..MaxReanalyses /\ shown.notices \in 0..1

\* Whatever overtakes what, the display changes only to a status the job has had since
\* the display last changed: no answer asked for under an earlier status, or before a
\* re-analysis, comes through.  A completion shown is noticed once and not taken back.
ShownIsRecent ==
    /\ shown.status # shown.mounted => shown.status \in had
    /\ shown.mounted = "completed" => shown.status = "completed" /\ shown.notices = 1

=============================================================================
