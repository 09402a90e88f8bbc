------------------------------- MODULE Upload -------------------------------
(***************************************************************************)
(* What the browser keeps of a recording until it is stored: the blob in   *)
(* memory, its metadata in sessionStorage as well, automatic attempts with *)
(* backoff and attempts by the retry button, which may overlap.            *)
(***************************************************************************)
EXTENDS Integers, FiniteSets, Sequences

CONSTANTS Loops,              \* runs of uploadWithBackoff
          Buttons,            \* runs of attemptUpload by the retry button
          BackoffMaxAttempts, \* BACKOFF_MAX_ATTEMPTS
          MaxRegistrations,   \* how often the recording is registered
          MaxReloads,         \* page reloads
          MaxRetryClicks      \* clicks on the retry button

ASSUME UploadAssumption ==
    {BackoffMaxAttempts, MaxRegistrations, MaxReloads, MaxRetryClicks} \subseteq Nat

VARIABLES objects,    \* item objects ever made; an attempt keeps the one it has got
          inMemory,   \* index of the object in memoryStore; 0: none
          stored,     \* the metadata in sessionStorage
          attempt,    \* each run of uploadWithBackoff or attemptUpload
          left        \* what is left of the bounds

uploadVars == <<objects, inMemory, stored, attempt, left>>

Fresh == [status |-> "pending", attempts |-> 0]
MetaOf(o) == [status |-> o.status, attempts |-> o.attempts]
NoMetaStored == [status |-> "none", attempts |-> 0]
NoAttempt == [pc |-> "off", o |-> 0, tried |-> 0]
Runners == Loops \union Buttons

UploadInit ==
    /\ objects = <<>> /\ inMemory = 0 /\ stored = NoMetaStored
    /\ attempt = [r \in Runners |-> NoAttempt]
    /\ left = [registrations |-> MaxRegistrations, reloads |-> MaxReloads, clicks |-> MaxRetryClicks]

-----------------------------------------------------------------------------
(* Keeping and sending a recording                                         *)

\* registerUploadItem: a new object takes the place of an earlier one.
RegisterItem ==
    /\ left.registrations > 0 /\ left' = [left EXCEPT !.registrations = @ - 1]
    /\ objects' = Append(objects, Fresh) /\ inMemory' = Len(objects) + 1
    /\ stored' = MetaOf(Fresh) /\ UNCHANGED attempt

\* clearUploadItem, called when the recording is stored.
ClearItem ==
    /\ inMemory # 0 /\ objects[inMemory].status = "succeeded"
    /\ inMemory' = 0 /\ stored' = NoMetaStored /\ UNCHANGED <<objects, attempt, left>>

\* A reload ends everything but sessionStorage.
Reload ==
    /\ left.reloads > 0 /\ left' = [left EXCEPT !.reloads = @ - 1]
    /\ inMemory' = 0 /\ attempt' = [r \in Runners |-> NoAttempt]
    /\ UNCHANGED <<objects, stored>>

Persist(o) == stored' = MetaOf(objects'[o])

\* The first half of attemptUpload; without a blob it fails at once, and so does the loop.
Sends(r, tried) ==
    /\ IF inMemory = 0
       THEN /\ attempt' = [attempt EXCEPT ![r] = NoAttempt] /\ UNCHANGED <<objects, stored>>
       ELSE /\ objects' = [objects EXCEPT ![inMemory].status = "uploading"]
            /\ Persist(inMemory)
            /\ attempt' = [attempt EXCEPT ![r] = [pc |-> "sending", o |-> inMemory, tried |-> tried]]
    /\ UNCHANGED inMemory

BackoffBegins(r) ==
    /\ attempt[r].pc = "off" /\ inMemory # 0 /\ objects[inMemory].status = "pending"
    /\ Sends(r, 0) /\ UNCHANGED left
BackoffAgain(r) == attempt[r].pc = "waiting" /\ Sends(r, attempt[r].tried) /\ UNCHANGED left

\* The button is there while the status is failed.
RetryClicked(r) ==
    /\ attempt[r].pc = "off" /\ inMemory # 0 /\ objects[inMemory].status = "failed"
    /\ left.clicks > 0 /\ left' = [left EXCEPT !.clicks = @ - 1] /\ Sends(r, 0)

PutSucceeds(r) ==
    /\ attempt[r].pc = "sending"
    /\ objects' = [objects EXCEPT ![attempt[r].o].status = "succeeded"]
    /\ Persist(attempt[r].o) /\ attempt' = [attempt EXCEPT ![r] = NoAttempt]
    /\ UNCHANGED <<inMemory, left>>

GivesUp(r) == r \in Buttons \/ inMemory = 0 \/ attempt[r].tried + 1 >= BackoffMaxAttempts

Failed(o) == [status |-> "failed", attempts |-> objects[o].attempts + 1]
AfterFailureLast(r, o) ==          \* mutant: failed is said when the loop gives up
    IF GivesUp(r) THEN Failed(o) ELSE [objects[o] EXCEPT !.attempts = @ + 1]
AfterFailure(r, o) == Failed(o)

\* A failure is counted on the object, the button's with the loop's; a loop waits and
\* tries again while tries are left and the recording is still kept.
PutFails(r) ==
    LET o == attempt[r].o IN
    /\ attempt[r].pc = "sending"
    /\ objects' = [objects EXCEPT ![o] = AfterFailure(r, o)] /\ Persist(o)
    /\ attempt' = [attempt EXCEPT ![r] =
          IF GivesUp(r) THEN NoAttempt
          ELSE [pc |-> "waiting", o |-> o, tried |-> attempt[r].tried + 1]]
    /\ UNCHANGED <<inMemory, left>>

UploadNext ==
    \/ RegisterItem \/ ClearItem \/ Reload
    \/ \E r \in Loops : BackoffBegins(r) \/ BackoffAgain(r)
    \/ \E r \in Buttons : RetryClicked(r)
    \/ \E r \in Runners : PutSucceeds(r) \/ PutFails(r)

UploadSpec == UploadInit /\ [][UploadNext]_uploadVars

-----------------------------------------------------------------------------
(* Properties                                                              *)

UploadTypeOK ==
    /\ inMemory \in 0..Len(objects) /\ stored.attempts \in Nat
    /\ stored.status \in {"none", "pending", "uploading", "failed", "succeeded"}

\* A kept recording that is said to be uploading has an attempt at work on it, however
\* the loop, the button, a new registration and their answers overlap: none of them
\* leaves it in a state that neither ends nor offers the button.
UploadingIsSent ==
    inMemory # 0 /\ objects[inMemory].status = "uploading" =>
        \E r \in Runners : attempt[r].pc = "sending" /\ attempt[r].o = inMemory

=============================================================================
