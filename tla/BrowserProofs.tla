---------------------------- MODULE BrowserProofs ----------------------------
(***************************************************************************)
(* What runs in one browser page, for any numbers of runs, requests and    *)
(* recordings: the upload that is retried, the status display, the page    *)
(* that puts a tasting together and its recorder.  Three components that   *)
(* share nothing, one section each.                                        *)
(***************************************************************************)
EXTENDS Capture, Upload, Watch, TLAPS

-----------------------------------------------------------------------------
(* Upload: an item that is uploading has somebody who sends it.  A run     *)
(* keeps the object it has got, and whoever ends an attempt gives that     *)
(* object another status; another run's attempt on it may go on.           *)

ItemObject == [status : {"pending", "uploading", "failed", "succeeded"}, attempts : Nat]
AttemptRecord == [pc : {"off", "sending", "waiting"}, o : Nat, tried : Nat]

UploadInv ==
    /\ objects \in Seq(ItemObject) /\ inMemory \in 0..Len(objects)
    /\ attempt \in [Runners -> AttemptRecord]
    /\ \A r \in Runners : attempt[r].pc = "sending" => attempt[r].o \in 1..Len(objects)
    /\ UploadingIsSent

LEMMA NoAttemptIsOff == NoAttempt \in AttemptRecord /\ NoAttempt.pc = "off"
  BY DEF NoAttempt, AttemptRecord

(* An attempt ends or waits, and its object says something else.           *)
LEMMA AttemptEnds ==
    ASSUME UploadInv, NEW r \in Runners, NEW e \in ItemObject, e.status # "uploading",
           attempt[r].pc = "sending", objects' = [objects EXCEPT ![attempt[r].o] = e],
           NEW a \in AttemptRecord, a.pc # "sending", attempt' = [attempt EXCEPT ![r] = a],
           inMemory' = inMemory
    PROVE  UploadInv'
  <1> DEFINE k == attempt[r].o
  <1>1. k \in 1..Len(objects) /\ objects \in Seq(ItemObject) /\ attempt \in [Runners -> AttemptRecord]
    BY DEF UploadInv
  <1>2. objects' \in Seq(ItemObject) /\ Len(objects') = Len(objects)
    BY <1>1
  <1>3. /\ attempt' \in [Runners -> AttemptRecord] /\ attempt'[r] = a
        /\ \A s \in Runners \ {r} : attempt'[s] = attempt[s]
    BY <1>1
  <1>4. \A s \in Runners : attempt'[s].pc = "sending" => attempt'[s].o \in 1..Len(objects')
    BY <1>2, <1>3 DEF UploadInv
  <1>5. UploadingIsSent'
    <2> SUFFICES ASSUME inMemory # 0, objects'[inMemory].status = "uploading"
                 PROVE  \E s \in Runners : attempt'[s].pc = "sending" /\ attempt'[s].o = inMemory
      BY DEF UploadingIsSent
    <2>1. inMemory \in 1..Len(objects)
      BY DEF UploadInv
    <2>2. inMemory # k
      BY <1>1
    <2>3. objects'[inMemory] = objects[inMemory]
      BY <1>1, <2>1, <2>2
    <2>4. PICK s \in Runners : attempt[s].pc = "sending" /\ attempt[s].o = inMemory
      BY <2>3 DEF UploadInv, UploadingIsSent
    <2>5. attempt'[s] = attempt[s]
      BY <1>3, <2>2, <2>4
    <2> QED BY <2>4, <2>5
  <1>6. inMemory' \in 0..Len(objects')
    BY <1>2 DEF UploadInv
  <1> QED BY <1>2, <1>3, <1>4, <1>5, <1>6 DEF UploadInv

(* The first half of an attempt: it ends, or works on the object kept now. *)
LEMMA SendsKeeps ==
    ASSUME UploadInv, NEW r \in Runners, NEW n \in Nat, Sends(r, n)
    PROVE  UploadInv'
  <1>typed. objects \in Seq(ItemObject) /\ attempt \in [Runners -> AttemptRecord] /\ inMemory \in 0..Len(objects)
    BY DEF UploadInv
  <1>1. CASE inMemory = 0
    <2>1. attempt' = [attempt EXCEPT ![r] = NoAttempt] /\ UNCHANGED <<objects, inMemory>>
      BY <1>1 DEF Sends
    <2>2. attempt' \in [Runners -> AttemptRecord]
      BY <1>typed, <2>1, NoAttemptIsOff
    <2>3. \A s \in Runners : attempt'[s].pc = "sending" => attempt'[s] = attempt[s]
      BY <1>typed, <2>1, NoAttemptIsOff
    <2>4. UploadingIsSent'
      BY <1>1, <2>1 DEF UploadingIsSent
    <2> QED BY <2>1, <2>2, <2>3, <2>4 DEF UploadInv
  <1>2. CASE inMemory # 0
    <2> DEFINE e == [objects[inMemory] EXCEPT !.status = "uploading"]
               a == [pc |-> "sending", o |-> inMemory, tried |-> n]
    <2>1. inMemory \in 1..Len(objects) /\ inMemory \in Nat
      BY <1>typed, <1>2
    <2>2. objects[inMemory] \in ItemObject
      BY <1>typed, <2>1
    <2>3. e \in ItemObject
      BY <2>2 DEF ItemObject
    <2>4. a \in AttemptRecord /\ a.o = inMemory /\ a.pc = "sending"
      BY <2>1 DEF AttemptRecord
    <2>5. objects' = [objects EXCEPT ![inMemory] = e] /\ attempt' = [attempt EXCEPT ![r] = a] /\ inMemory' = inMemory
      BY <1>2 DEF Sends
    <2> HIDE DEF e, a
    <2>6. objects' \in Seq(ItemObject) /\ Len(objects') = Len(objects)
      BY <1>typed, <2>1, <2>3, <2>5
    <2>7. attempt' \in [Runners -> AttemptRecord] /\ attempt'[r] = a
          /\ \A s \in Runners \ {r} : attempt'[s] = attempt[s]
      BY <1>typed, <2>4, <2>5
    <2>8. \A s \in Runners : attempt'[s].pc = "sending" => attempt'[s].o \in 1..Len(objects')
      BY <2>1, <2>4, <2>6, <2>7 DEF UploadInv
    <2>9. UploadingIsSent'
      BY <2>4, <2>5, <2>7 DEF UploadingIsSent
    <2> QED BY <1>typed, <2>5, <2>6, <2>7, <2>8, <2>9 DEF UploadInv
  <1> QED BY <1>1, <1>2

LEMMA UploadBegins == UploadInit => UploadInv
  BY NoAttemptIsOff DEF UploadInit, UploadInv, UploadingIsSent

LEMMA UploadStep == UploadInv /\ [UploadNext]_uploadVars => UploadInv'
  <1> SUFFICES ASSUME UploadInv, [UploadNext]_uploadVars PROVE UploadInv'
    OBVIOUS
  <1>typed. objects \in Seq(ItemObject) /\ Len(objects) \in Nat /\ attempt \in [Runners -> AttemptRecord]
    BY DEF UploadInv
  <1>1. CASE RegisterItem
    <2>1. Fresh \in ItemObject /\ Fresh.status # "uploading"
      BY DEF Fresh, ItemObject
    <2>2. objects' = Append(objects, Fresh) /\ inMemory' = Len(objects) + 1 /\ attempt' = attempt
      BY <1>1 DEF RegisterItem
    <2>3. /\ objects' \in Seq(ItemObject) /\ Len(objects') = Len(objects) + 1
          /\ inMemory' \in 0..Len(objects')
      BY <1>typed, <2>1, <2>2
    <2>4. objects'[inMemory'] = Fresh
      BY <1>typed, <2>1, <2>2
    <2>5. UploadingIsSent'
      BY <2>1, <2>4 DEF UploadingIsSent
    <2>6. \A r \in Runners : attempt'[r].pc = "sending" => attempt'[r].o \in 1..Len(objects')
      BY <1>typed, <2>2, <2>3 DEF UploadInv
    <2> QED BY <1>typed, <2>2, <2>3, <2>5, <2>6 DEF UploadInv
  <1>2. CASE ClearItem
    BY <1>2, <1>typed DEF ClearItem, UploadInv, UploadingIsSent
  <1>3. CASE Reload
    <2>1. attempt' = [r \in Runners |-> NoAttempt] /\ inMemory' = 0 /\ objects' = objects
      BY <1>3 DEF Reload
    <2> QED BY <1>typed, <2>1, NoAttemptIsOff DEF UploadInv, UploadingIsSent
  <1>4. ASSUME NEW r \in Loops, BackoffBegins(r) \/ BackoffAgain(r) PROVE UploadInv'
    <2>1. r \in Runners /\ attempt[r].tried \in Nat
      BY <1>typed DEF Runners, AttemptRecord
    <2> QED BY <1>4, <2>1, SendsKeeps DEF BackoffBegins, BackoffAgain
  <1>5. ASSUME NEW r \in Buttons, RetryClicked(r) PROVE UploadInv'
    BY <1>5, SendsKeeps DEF RetryClicked, Runners
  <1>6. ASSUME NEW r \in Runners, PutSucceeds(r) PROVE UploadInv'
    <2> DEFINE k == attempt[r].o
               e == [objects[k] EXCEPT !.status = "succeeded"]
    <2>1. /\ objects' = [objects EXCEPT ![k] = e] /\ attempt' = [attempt EXCEPT ![r] = NoAttempt]
          /\ inMemory' = inMemory /\ k \in 1..Len(objects) /\ attempt[r].pc = "sending"
      BY <1>6 DEF PutSucceeds, UploadInv
    <2>2. e \in ItemObject /\ e.status # "uploading"
      <3>1. objects[k] \in ItemObject
        BY <1>typed, <2>1
      <3> QED BY <3>1 DEF ItemObject
    <2> HIDE DEF e
    <2> QED BY <2>1, <2>2, AttemptEnds, NoAttemptIsOff
  <1>7. ASSUME NEW r \in Runners, PutFails(r) PROVE UploadInv'
    <2> DEFINE k == attempt[r].o
               e == Failed(k)
               waits == [pc |-> "waiting", o |-> k, tried |-> attempt[r].tried + 1]
    <2>1. /\ objects' = [objects EXCEPT ![k] = e] /\ attempt[r].pc = "sending"
          /\ inMemory' = inMemory /\ k \in 1..Len(objects)
      BY <1>7 DEF PutFails, UploadInv, AfterFailure
    <2>2. PICK a \in {NoAttempt, waits} : attempt' = [attempt EXCEPT ![r] = a]
      BY <1>7 DEF PutFails
    <2>3. e \in ItemObject /\ e.status # "uploading"
      <3>1. objects[k] \in ItemObject
        BY <1>typed, <2>1
      <3> QED BY <3>1 DEF ItemObject, Failed
    <2>4. a \in AttemptRecord /\ a.pc # "sending"
      BY <1>typed, <2>1, NoAttemptIsOff DEF AttemptRecord
    <2> HIDE DEF e
    <2> QED BY <2>1, <2>2, <2>3, <2>4, AttemptEnds
  <1>8. CASE UNCHANGED uploadVars
    BY <1>8, <1>typed DEF uploadVars, UploadInv, UploadingIsSent
  <1> QED BY <1>1, <1>2, <1>3, <1>4, <1>5, <1>6, <1>7, <1>8 DEF UploadNext

(* What is said to be uploading is being sent, for any number of automatic *)
(* runs, retries by the button, registrations and reloads, in any overlap  *)
(* (uploadWithBackoff and attemptUpload).                                  *)
THEOREM UploadsAreSent == UploadSpec => []UploadingIsSent
  <1>1. UploadInv => UploadingIsSent
    BY DEF UploadInv
  <1> QED BY <1>1, UploadBegins, UploadStep, PTL DEF UploadSpec

(* Types: what is stored is the metadata of an object.                     *)
StoredMeta ==
    /\ stored.attempts \in Nat
    /\ stored.status \in {"none", "pending", "uploading", "failed", "succeeded"}

LEMMA PersistKeeps ==
    ASSUME UploadInv', NEW k \in 1..Len(objects'), Persist(k)
    PROVE  StoredMeta'
  <1>1. objects'[k] \in ItemObject BY DEF UploadInv
  <1> QED BY <1>1 DEF Persist, MetaOf, StoredMeta, ItemObject

LEMMA StoredStays == UploadInv /\ UploadInv' /\ StoredMeta /\ [UploadNext]_uploadVars => StoredMeta'
  <1> SUFFICES ASSUME UploadInv, UploadInv', StoredMeta, [UploadNext]_uploadVars PROVE StoredMeta' OBVIOUS
  <1>0. objects \in Seq(ItemObject) /\ inMemory \in 0..Len(objects) BY DEF UploadInv
  <1>1. CASE RegisterItem BY <1>1 DEF RegisterItem, MetaOf, Fresh, StoredMeta
  <1>2. CASE ClearItem BY <1>2 DEF ClearItem, NoMetaStored, StoredMeta
  <1>3. CASE Reload \/ UNCHANGED uploadVars BY <1>3 DEF Reload, uploadVars, StoredMeta
  <1>4. ASSUME NEW r, NEW n, Sends(r, n) PROVE StoredMeta'
    <2>1. CASE inMemory = 0 BY <1>4, <2>1 DEF Sends, StoredMeta
    <2>2. CASE inMemory # 0
      <3>1. objects' = [objects EXCEPT ![inMemory].status = "uploading"] /\ Persist(inMemory)
        BY <1>4, <2>2 DEF Sends
      <3>2. inMemory \in 1..Len(objects') BY <1>0, <2>2, <3>1
      <3> QED BY <3>1, <3>2, PersistKeeps
    <2> QED BY <2>1, <2>2
  <1>5. ASSUME NEW r \in Runners, PutSucceeds(r) \/ PutFails(r) PROVE StoredMeta'
    <2>1. attempt[r].o \in 1..Len(objects) BY <1>5 DEF UploadInv, PutSucceeds, PutFails
    <2>2. Persist(attempt[r].o) /\ Len(objects') = Len(objects)
      BY <1>0, <1>5 DEF PutSucceeds, PutFails
    <2> QED BY <2>1, <2>2, PersistKeeps
  <1> QED BY <1>1, <1>2, <1>3, <1>4, <1>5 DEF UploadNext, BackoffBegins, BackoffAgain, RetryClicked

LEMMA UploadTypes == UploadSpec => []UploadTypeOK
  <1>1. UploadInit => StoredMeta BY DEF UploadInit, NoMetaStored, StoredMeta
  <1>2. UploadInv /\ StoredMeta => UploadTypeOK BY DEF UploadInv, StoredMeta, UploadTypeOK
  <1> QED BY <1>1, <1>2, UploadBegins, UploadStep, StoredStays, PTL DEF UploadSpec

-----------------------------------------------------------------------------
(* Watch: an answer that still counts was read since the effects have run, *)
(* because they cancel what was asked for before; and no request is under  *)
(* way that counts once the display has come to an end, so nothing but the *)
(* button changes a failure and nothing at all a completion.               *)

ShownRecord == [status : Statuses, mounted : Statuses, notified : BOOLEAN, notices : Int]
PollRecord == [pc : {"off", "sent", "answered"}, live : BOOLEAN, answer : Statuses \union {"none"}]

WatchTyped ==
    /\ jobStatus \in Statuses /\ had \subseteq Statuses /\ jobStatus \in had
    /\ shown \in ShownRecord /\ poll \in [Polls -> PollRecord]
    /\ again \in [sent : BOOLEAN, accepted : 0..MaxReanalyses]
    /\ statusWrites \in 0..MaxStatusWrites

\* What the requests that still count may bear, and when there are any.
AnswersRecent ==
    \A p \in Polls : poll[p].live =>
        /\ shown.mounted \in InProgress
        /\ poll[p].pc = "answered" => poll[p].answer \in had

\* A failure stays shown while its re-analysis is asked for.
AskedFromFailure ==
    again.sent => shown.status = "failed" /\ shown.mounted = "failed" /\ "queued" \in had

NoticedOnce ==
    /\ shown.notices = IF shown.mounted = "completed" THEN 1 ELSE 0
    /\ shown.mounted # "completed" => ~shown.notified

WatchInv ==
    WatchTyped /\ AnswersRecent /\ AskedFromFailure /\ NoticedOnce /\ ShownIsRecent

LEMMA WatchBegins == WatchInit => WatchInv
  <1> SUFFICES ASSUME WatchInit PROVE WatchInv OBVIOUS
  <1>1. NoPoll \in PollRecord /\ NoPoll.live = FALSE
    BY DEF NoPoll, PollRecord
  <1>2. poll \in [Polls -> PollRecord] /\ \A p \in Polls : poll[p].live = FALSE
    BY <1>1 DEF WatchInit
  <1>3. PICK s \in Statuses :
          shown = [status |-> s, mounted |-> s, notified |-> s = "completed",
                   notices |-> IF s = "completed" THEN 1 ELSE 0]
    BY DEF WatchInit
  <1>4. /\ shown \in ShownRecord /\ shown.status = s /\ shown.mounted = s
        /\ shown.notices = IF s = "completed" THEN 1 ELSE 0
        /\ s # "completed" => ~shown.notified
    <2> DEFINE done == s = "completed"
               n == IF s = "completed" THEN 1 ELSE 0
    <2>1. shown = [status |-> s, mounted |-> s, notified |-> done, notices |-> n]
      BY <1>3
    <2>2. done \in BOOLEAN /\ n \in Int
      OBVIOUS
    <2>3. s # "completed" => ~done
      OBVIOUS
    <2>4. n = IF s = "completed" THEN 1 ELSE 0
      OBVIOUS
    <2> HIDE DEF done, n
    <2>5. /\ shown \in ShownRecord /\ shown.status = s /\ shown.mounted = s
          /\ shown.notices = n /\ shown.notified = done
      BY <2>1, <2>2 DEF ShownRecord
    <2> QED BY <2>3, <2>4, <2>5
  <1>5. /\ again \in [sent : BOOLEAN, accepted : 0..MaxReanalyses] /\ again.sent = FALSE
        /\ statusWrites \in 0..MaxStatusWrites
    BY WatchAssumption DEF WatchInit
  <1>6. jobStatus \in Statuses /\ had = {jobStatus}
    BY DEF WatchInit
  <1>7. WatchTyped
    BY <1>2, <1>4, <1>5, <1>6 DEF WatchTyped
  <1> QED
    BY <1>2, <1>4, <1>5, <1>7 DEF WatchInv, AnswersRecent, AskedFromFailure, NoticedOnce, ShownIsRecent

(* A status written by somebody else, or by the accepted request, is one   *)
(* the job has had.                                                        *)
LEMMA JobBecomesRecent ==
    ASSUME WatchInv, NEW s \in Statuses, JobBecomes(s)
    PROVE  /\ jobStatus' \in Statuses /\ had' \subseteq Statuses /\ jobStatus' \in had'
           /\ had \subseteq had' /\ s \in had'
    BY DEF JobBecomes, WatchInv, WatchTyped

LEMMA StatusWrittenKeeps ==
    ASSUME WatchInv, NEW s \in Statuses, StatusWritten(s)
    PROVE  WatchInv'
  <1>1. /\ jobStatus' \in Statuses /\ had' \subseteq Statuses /\ jobStatus' \in had' /\ had \subseteq had'
    BY JobBecomesRecent DEF StatusWritten
  <1>2. UNCHANGED <<shown, poll, again>> /\ statusWrites' \in 0..MaxStatusWrites
    BY WatchAssumption DEF StatusWritten, WatchInv, WatchTyped
  <1>3. WatchTyped'
    BY <1>1, <1>2 DEF WatchInv, WatchTyped
  <1>4. AnswersRecent'
    BY <1>1, <1>2 DEF WatchInv, AnswersRecent
  <1>5. AskedFromFailure' /\ NoticedOnce' /\ ShownIsRecent'
    BY <1>1, <1>2 DEF WatchInv, AskedFromFailure, NoticedOnce, ShownIsRecent
  <1> QED BY <1>3, <1>4, <1>5 DEF WatchInv

(* One request changes alone, to a record that still may count.            *)
LEMMA PollChanges ==
    ASSUME WatchInv, NEW p \in Polls, NEW r \in PollRecord, poll' = [poll EXCEPT ![p] = r],
           UNCHANGED <<jobStatus, had, again, shown, statusWrites>>,
           r.live => shown.mounted \in InProgress /\ (r.pc = "answered" => r.answer \in had)
    PROVE  WatchInv'
  <1>1. poll' \in [Polls -> PollRecord] /\ poll'[p] = r
        /\ \A q \in Polls \ {p} : poll'[q] = poll[q]
    BY DEF WatchInv, WatchTyped
  <1>2. WatchTyped' /\ AskedFromFailure' /\ NoticedOnce' /\ ShownIsRecent'
    BY <1>1 DEF WatchInv, WatchTyped, AskedFromFailure, NoticedOnce, ShownIsRecent
  <1>3. AnswersRecent'
    BY <1>1 DEF WatchInv, AnswersRecent
  <1> QED BY <1>2, <1>3 DEF WatchInv

LEMMA AnsweredKeeps ==
    ASSUME WatchInv, NEW p \in Polls, PollAnswered(p)
    PROVE  WatchInv'
  <1>0. NoPoll \in PollRecord /\ NoPoll.live = FALSE
    BY DEF NoPoll, PollRecord
  <1>1. /\ poll' \in [Polls -> PollRecord] /\ \A q \in Polls : poll'[q] = poll[q] \/ ~poll'[q].live
        /\ UNCHANGED <<jobStatus, again, had, statusWrites>>
    BY <1>0 DEF PollAnswered, WatchInv, WatchTyped
  <1>2. CASE ~poll[p].live
    <2>1. shown' = shown
      BY <1>2 DEF PollAnswered, Counts, WatchInv, WatchTyped, ShownRecord
    <2> QED BY <1>1, <2>1 DEF WatchInv, WatchTyped, AnswersRecent, AskedFromFailure, NoticedOnce, ShownIsRecent
  <1>3. CASE poll[p].live
    <2>1. shown.mounted \in InProgress /\ poll[p].answer \in had /\ poll[p].answer \in Statuses
      BY <1>3 DEF PollAnswered, WatchInv, WatchTyped, AnswersRecent
    <2>2. shown \in ShownRecord /\ shown' = [shown EXCEPT !.status = poll[p].answer]
      BY <1>3 DEF PollAnswered, Counts, WatchInv, WatchTyped
    <2>3. /\ shown' \in ShownRecord /\ shown'.status = poll[p].answer /\ shown'.mounted = shown.mounted
          /\ shown'.notified = shown.notified /\ shown'.notices = shown.notices
      BY <2>1, <2>2 DEF ShownRecord
    <2>4. ~again.sent /\ shown.mounted # "completed"
      BY <2>1 DEF WatchInv, AskedFromFailure, InProgress
    <2>5. WatchTyped'
      BY <1>1, <2>3 DEF WatchInv, WatchTyped
    <2>6. AnswersRecent' /\ AskedFromFailure'
      BY <1>1, <2>3, <2>4 DEF WatchInv, AnswersRecent, AskedFromFailure
    <2>7. NoticedOnce' /\ ShownIsRecent'
      BY <1>1, <2>1, <2>3, <2>4 DEF WatchInv, NoticedOnce, ShownIsRecent
    <2> QED BY <2>5, <2>6, <2>7 DEF WatchInv
  <1> QED BY <1>2, <1>3

LEMMA EffectsKeep == WatchInv /\ EffectsRun => WatchInv'
  <1> SUFFICES ASSUME WatchInv, EffectsRun PROVE WatchInv' OBVIOUS
  <1>1. shown \in ShownRecord /\ shown.mounted # "completed" /\ ~again.sent
    BY DEF EffectsRun, WatchInv, WatchTyped, ShownIsRecent, AskedFromFailure
  <1>2. ~shown.notified /\ shown.notices = 0
    BY <1>1 DEF WatchInv, NoticedOnce
  <1>3. /\ shown' \in ShownRecord /\ shown'.status = shown.status /\ shown'.mounted = shown.status
        /\ shown'.notices = IF shown.status = "completed" THEN 1 ELSE 0
    <2> DEFINE done == shown.status = "completed"
               b == shown.notified \/ done
               n == IF done /\ ~shown.notified THEN shown.notices + 1 ELSE shown.notices
    <2>1. shown' = [shown EXCEPT !.mounted = shown.status, !.notified = b, !.notices = n]
      BY DEF EffectsRun
    <2>2. b \in BOOLEAN /\ n \in Int /\ n = IF shown.status = "completed" THEN 1 ELSE 0
      BY <1>1, <1>2 DEF ShownRecord
    <2> HIDE DEF b, n
    <2> QED BY <1>1, <2>1, <2>2 DEF ShownRecord
  <1>4. shown.status # "completed" => ~shown'.notified
    BY <1>1, <1>2 DEF EffectsRun, ShownRecord
  <1>5. poll' \in [Polls -> PollRecord] /\ \A q \in Polls : ~poll'[q].live
    BY DEF EffectsRun, WatchInv, WatchTyped, PollRecord
  <1>6. UNCHANGED <<jobStatus, again, statusWrites>> /\ had' = {jobStatus}
    BY DEF EffectsRun
  <1>7. WatchTyped'
    BY <1>3, <1>5, <1>6 DEF WatchInv, WatchTyped
  <1>8. AnswersRecent' /\ AskedFromFailure'
    BY <1>1, <1>5, <1>6 DEF AnswersRecent, AskedFromFailure
  <1>9. NoticedOnce' /\ ShownIsRecent'
    BY <1>3, <1>4 DEF NoticedOnce, ShownIsRecent
  <1> QED BY <1>7, <1>8, <1>9 DEF WatchInv

LEMMA AcceptedKeeps == WatchInv /\ ReanalyzeAccepted => WatchInv'
  <1> SUFFICES ASSUME WatchInv, ReanalyzeAccepted PROVE WatchInv' OBVIOUS
  <1>1. /\ jobStatus' \in Statuses /\ had' \subseteq Statuses /\ jobStatus' \in had'
        /\ had \subseteq had' /\ "queued" \in had'
    BY JobBecomesRecent DEF ReanalyzeAccepted, Statuses, InProgress
  <1>2. again' \in [sent : BOOLEAN, accepted : 0..MaxReanalyses]
    BY WatchAssumption DEF ReanalyzeAccepted, WatchInv, WatchTyped
  <1>3. UNCHANGED <<shown, poll, statusWrites>> /\ shown.status = "failed" /\ shown.mounted = "failed"
    BY DEF ReanalyzeAccepted
  <1>4. WatchTyped' /\ AskedFromFailure'
    BY <1>1, <1>2, <1>3 DEF WatchInv, WatchTyped, AskedFromFailure
  <1>5. AnswersRecent' /\ NoticedOnce' /\ ShownIsRecent'
    BY <1>1, <1>3 DEF WatchInv, AnswersRecent, NoticedOnce, ShownIsRecent
  <1> QED BY <1>4, <1>5 DEF WatchInv

LEMMA RequestEnds == WatchInv /\ (ReanalyzeAnswered \/ ReanalyzeLost) => WatchInv'
  <1> SUFFICES ASSUME WatchInv, ReanalyzeAnswered \/ ReanalyzeLost PROVE WatchInv' OBVIOUS
  <1>1. /\ again' \in [sent : BOOLEAN, accepted : 0..MaxReanalyses] /\ again'.sent = FALSE
        /\ UNCHANGED <<jobStatus, poll, had, statusWrites>>
    BY DEF ReanalyzeAnswered, ReanalyzeLost, WatchInv, WatchTyped
  <1>2. shown \in ShownRecord /\ shown.mounted = "failed" /\ "queued" \in had /\ "queued" \in Statuses
    BY DEF ReanalyzeAnswered, ReanalyzeLost, WatchInv, WatchTyped, AskedFromFailure, Statuses, InProgress
  <1>3. /\ shown' \in ShownRecord /\ shown'.mounted = "failed" /\ shown'.notices = shown.notices
        /\ shown'.status \in {shown.status, "queued"}
    BY <1>2 DEF ReanalyzeAnswered, ReanalyzeLost, ShownRecord
  <1>4. ~shown'.notified
    BY <1>2 DEF ReanalyzeAnswered, ReanalyzeLost, ShownRecord, WatchInv, NoticedOnce
  <1>5. WatchTyped' /\ AskedFromFailure'
    BY <1>1, <1>3 DEF WatchInv, WatchTyped, AskedFromFailure
  <1>6. AnswersRecent'
    BY <1>1, <1>2, <1>3 DEF WatchInv, AnswersRecent
  <1>7. NoticedOnce' /\ ShownIsRecent'
    BY <1>1, <1>2, <1>3, <1>4 DEF WatchInv, NoticedOnce, ShownIsRecent
  <1> QED BY <1>5, <1>6, <1>7 DEF WatchInv

(* Every step keeps the invariant.                                         *)
LEMMA WatchStep == WatchInv /\ [WatchNext]_watchVars => WatchInv'
  <1> SUFFICES ASSUME WatchInv, [WatchNext]_watchVars PROVE WatchInv' OBVIOUS
  <1>1. CASE UploadMarks \/ TranscriptionMarks \/ SessionCompletes \/ OthersReanalyze
    BY <1>1, StatusWrittenKeeps
       DEF UploadMarks, TranscriptionMarks, SessionCompletes, OthersReanalyze, Statuses, InProgress
  <1>2. ASSUME NEW p \in Polls, PollSent(p) \/ PollReads(p) \/ PollLost(p) PROVE WatchInv'
    <2>0. poll \in [Polls -> PollRecord] /\ jobStatus \in Statuses /\ jobStatus \in had
      BY DEF WatchInv, WatchTyped
    <2>1. CASE PollSent(p)
      <3>1. [pc |-> "sent", live |-> TRUE, answer |-> "none"] \in PollRecord
        BY DEF PollRecord
      <3> QED BY <2>1, <3>1, PollChanges DEF PollSent
    <2>2. CASE PollReads(p)
      <3> DEFINE r == [poll[p] EXCEPT !.pc = "answered", !.answer = jobStatus]
      <3>1. r \in PollRecord /\ r.answer = jobStatus /\ r.live = poll[p].live
        BY <2>0 DEF PollRecord
      <3>2. poll' = [poll EXCEPT ![p] = r] /\ UNCHANGED <<jobStatus, shown, again, had, statusWrites>>
        BY <2>0, <2>2 DEF PollReads, PollRecord
      <3>3. r.live => shown.mounted \in InProgress
        BY <3>1 DEF WatchInv, AnswersRecent
      <3> QED BY <2>0, <3>1, <3>2, <3>3, PollChanges
    <2>3. CASE PollLost(p)
      <3>1. NoPoll \in PollRecord /\ NoPoll.live = FALSE
        BY DEF NoPoll, PollRecord
      <3> QED BY <2>3, <3>1, PollChanges DEF PollLost
    <2> QED BY <1>2, <2>1, <2>2, <2>3
  <1>3. ASSUME NEW p \in Polls, PollAnswered(p) PROVE WatchInv'
    BY <1>3, AnsweredKeeps
  <1>4. CASE UNCHANGED watchVars
    BY <1>4 DEF watchVars, WatchInv, WatchTyped, AnswersRecent, AskedFromFailure, NoticedOnce, ShownIsRecent
  <1> QED
    BY <1>1, <1>2, <1>3, <1>4, EffectsKeep, AcceptedKeeps, RequestEnds DEF WatchNext

(* The display changes only to what the job has been since it last changed *)
(* and a completion is shown for good and noticed once, for any number of  *)
(* requests that overtake each other and any number of writers who move    *)
(* the status back and forth (the two effects of the status display).      *)
THEOREM ShownIsAlwaysRecent == WatchSpec => []ShownIsRecent
  <1>1. WatchInv => ShownIsRecent BY DEF WatchInv
  <1> QED BY <1>1, WatchBegins, WatchStep, PTL DEF WatchSpec

LEMMA WatchTypes == WatchSpec => []WatchTypeOK
  <1>1. WatchInv => WatchTypeOK
    BY DEF WatchInv, WatchTyped, ShownRecord, NoticedOnce, WatchTypeOK
  <1> QED BY <1>1, WatchBegins, WatchStep, PTL DEF WatchSpec

-----------------------------------------------------------------------------
(* Capture, the recorder: what it has accumulated and what has passed      *)
(* since it last started are together what was really heard.               *)

MicRecord == [state : {"idle", "recording", "paused", "stopped"}, startedAt : Nat, accum : Nat,
              heard : Nat, pausedStop : BOOLEAN, duration : Nat,
              capture : Captures \union {NoCapture}, count : Nat, wine : BOOLEAN]

ClockRight ==
    /\ mic.startedAt <= seconds
    /\ mic.state = "recording" => mic.heard = mic.accum + (seconds - mic.startedAt)
    /\ mic.state = "paused" => mic.heard = mic.accum

MicTyped == seconds \in Nat /\ mic \in MicRecord

-----------------------------------------------------------------------------
(* Capture, the page: as long as it says nothing of an analysis, nothing   *)
(* has been sent, so whatever a tasting has of recordings was there when   *)
(* it was resumed, and the page and every flow begun since know of it.     *)

PageRecord == [capture : Captures \union {NoCapture}, creating : BOOLEAN, count : Nat,
               step1 : {"idle", "busy", "manual", "told", "ready"},
               step2 : {"idle", "saving", "done", "error"}]
PhotoRun == [pc : {"off", "upload", "wine", "trigger", "hung"},
             capture : Captures \union {NoCapture}, count : Nat, typed : BOOLEAN]
SendRun == [pc : {"off", "register", "put", "trigger"},
            capture : Captures \union {NoCapture}, wine : BOOLEAN]
TastingRecord == [there : BOOLEAN, wine : BOOLEAN, takes : Nat, asked : BOOLEAN]
TurnRecord == [mic : Nat, photo : Nat, made : Nat]

CaptureTyped ==
    /\ page \in PageRecord /\ photo \in [Flows -> PhotoRun] /\ starting \in BOOLEAN
    /\ sends \in [1..MaxTurns -> SendRun] /\ tastings \in [Captures -> TastingRecord]
    /\ turns \in TurnRecord

NoSends == \A n \in 1..MaxTurns : sends[n].pc = "off"

\* Without a tasting on the page nothing has happened to one.
Untouched ==
    page.capture = NoCapture =>
        /\ page.count = 0 /\ mic.state = "idle" /\ NoSends
        /\ \A n \in Flows : photo[n].capture = NoCapture /\ photo[n].count = 0 /\ photo[n].pc # "trigger"
        /\ \A t \in Captures : tastings[t].takes = 0

\* A tasting that is not there has no recording; whatever works on a tasting works on
\* one that is there.
IsThere(T, c) == c # NoCapture => T[c].there
Grounded ==
    /\ \A t \in Captures : ~tastings[t].there => tastings[t].takes = 0
    /\ IsThere(tastings, page.capture) /\ IsThere(tastings, mic.capture)
    /\ \A n \in Flows : IsThere(tastings, photo[n].capture)
                        /\ (photo[n].pc = "trigger" => photo[n].capture # NoCapture)
    /\ mic.state \in {"recording", "paused"} => mic.capture # NoCapture
    /\ \A n \in 1..MaxTurns : IsThere(tastings, sends[n].capture)
                              /\ (sends[n].pc # "off" => sends[n].capture # NoCapture)

\* The recorder that runs has a turn of its own to send with, a flow that begins a run.
TurnTaken == mic.state \in {"recording", "paused"} => turns.mic \in 1..MaxTurns
FlowsAhead == \A n \in Flows : n > turns.photo => photo[n].pc = "off"

Saving == page.step2 = "saving" => ~NoSends
BusyHeld == page.step1 = "busy" => \E n \in Flows : photo[n].pc # "off"

\* v, the page or a flow, knows of the recordings of its tasting.
Knows(v) == v.capture # NoCapture /\ tastings[v.capture].takes > 0 => v.count > 0

\* Tasting c has a recording, and its wine has come or may come.
Unfinished(c) ==
    /\ c # NoCapture /\ tastings[c].takes > 0
    /\ tastings[c].wine \/ \E n \in Flows : photo[n].pc \in {"upload", "wine"} /\ photo[n].capture = c
Said == page.step1 \in {"told", "busy"} \/ \E n \in Flows : photo[n].pc = "trigger"

Aware ==
    /\ Knows(page) /\ \A n \in Flows : Knows(photo[n])
    /\ Unfinished(page.capture) => Said
Quiet == page.step2 = "idle" => NoSends /\ Aware

SilenceInv ==
    /\ CaptureTyped /\ MicTyped /\ Untouched /\ Grounded
    /\ TurnTaken /\ FlowsAhead /\ Saving /\ BusyHeld /\ Quiet
CaptureInv == ClockRight /\ DurationExact /\ SilenceInv

-----------------------------------------------------------------------------
(* Lemmas on the records of the page                                       *)

(* A flow of the page starts with what the page knows, or is not running.  *)
LEMMA FlowTypes ==
    /\ NotRunning \in SendRun /\ NotRunning.pc = "off" /\ NotRunning.capture = NoCapture
    /\ NoPhoto \in PhotoRun /\ NoPhoto.pc = "off" /\ NoPhoto.capture = NoCapture /\ NoPhoto.count = 0
    /\ CaptureTyped => \A c \in {"upload", "wine"}, b \in BOOLEAN :
         /\ Enter(c, b) \in PhotoRun /\ Enter(c, b).pc = c
         /\ Enter(c, b).capture = page.capture /\ Enter(c, b).count = page.count
  <1>1. NotRunning \in SendRun /\ NotRunning.pc = "off" /\ NotRunning.capture = NoCapture
    BY DEF NotRunning, SendRun
  <1>2. NoPhoto \in PhotoRun /\ NoPhoto.pc = "off" /\ NoPhoto.capture = NoCapture /\ NoPhoto.count = 0
    BY DEF NoPhoto, PhotoRun
  <1>3. ASSUME CaptureTyped, NEW c \in {"upload", "wine"}, NEW b \in BOOLEAN
        PROVE  /\ Enter(c, b) \in PhotoRun /\ Enter(c, b).pc = c
               /\ Enter(c, b).capture = page.capture /\ Enter(c, b).count = page.count
    <2>1. page.capture \in Captures \union {NoCapture} /\ page.count \in Nat
      BY <1>3 DEF CaptureTyped, PageRecord
    <2> QED BY <2>1 DEF Enter, PhotoRun
  <1> QED BY <1>1, <1>2, <1>3

LEMMA MicTypes == MicIdle \in MicRecord /\ MicIdle.state = "idle" /\ MicIdle.accum = 0 /\ MicIdle.heard = 0
                  /\ MicIdle.startedAt = 0
  BY DEF MicIdle, MicRecord

(* Replacing one run of the sending of a recording.                        *)
LEMMA SendMoves ==
    ASSUME CaptureTyped, NEW n \in 1..MaxTurns, NEW e \in SendRun, sends' = [sends EXCEPT ![n] = e]
    PROVE  /\ sends' \in [1..MaxTurns -> SendRun] /\ sends'[n] = e
           /\ \A m \in (1..MaxTurns) \ {n} : sends'[m] = sends[m]
    BY DEF CaptureTyped

(* Replacing one run of the photo or the name.                             *)
LEMMA PhotoMoves ==
    ASSUME CaptureTyped, NEW n \in Flows, NEW e \in PhotoRun, photo' = [photo EXCEPT ![n] = e]
    PROVE  /\ photo' \in [Flows -> PhotoRun] /\ photo'[n] = e
           /\ \A m \in Flows \ {n} : photo'[m] = photo[m]
    BY DEF CaptureTyped

(* Replacing one tasting.                                                  *)
LEMMA TastingMoves ==
    ASSUME CaptureTyped, NEW t \in Captures, NEW e \in TastingRecord, tastings' = [tastings EXCEPT ![t] = e]
    PROVE  /\ tastings' \in [Captures -> TastingRecord] /\ tastings'[t] = e
           /\ \A u \in Captures \ {t} : tastings'[u] = tastings[u]
    BY DEF CaptureTyped

(* A tasting that gets something and keeps its recordings.                 *)
TakesStay == \A u \in Captures : /\ tastings'[u].takes = tastings[u].takes
                                 /\ tastings[u].there => tastings'[u].there

(* Steps of the page and the flows that touch neither the recorder nor the *)
(* sending, with what each of them has to show for itself.                 *)
LEMMA PageKeeps ==
    ASSUME SilenceInv, CaptureTyped', UNCHANGED <<mic, sends, seconds>>, turns'.mic = turns.mic,
           TakesStay, page'.step2 \in {page.step2, "done", "error"},
           page'.capture = NoCapture => page.capture = NoCapture /\ page'.count = page.count,
           IsThere(tastings', page'.capture),
           \A n \in Flows : n > turns'.photo => photo'[n].pc = "off",
           page'.step1 = "busy" => \E n \in Flows : photo'[n].pc # "off",
           \A n \in Flows :
               \/ photo'[n].capture = photo[n].capture /\ photo'[n].count = photo[n].count
                  /\ photo'[n].pc \in {photo[n].pc, "wine"}
               \/ photo'[n].capture = NoCapture /\ photo'[n].count = 0 /\ photo'[n].pc # "trigger"
               \/ photo'[n].capture # NoCapture /\ page'.capture # NoCapture
                  /\ IsThere(tastings', photo'[n].capture),
           page.step2 = "idle" /\ page'.step2 = "idle" => Aware'
    PROVE  SilenceInv'
  <1>1. MicTyped' /\ TurnTaken' /\ FlowsAhead' /\ BusyHeld'
    BY DEF SilenceInv, MicTyped, TurnTaken, FlowsAhead, BusyHeld
  <1>2. Untouched'
    BY DEF SilenceInv, Untouched, NoSends, TakesStay
  <1>3. Grounded'
    <2>1. \A c \in Captures \union {NoCapture} : IsThere(tastings, c) => IsThere(tastings', c)
      BY DEF IsThere, TakesStay
    <2>2. /\ mic.capture \in Captures \union {NoCapture}
          /\ \A n \in 1..MaxTurns : sends[n].capture \in Captures \union {NoCapture}
          /\ \A n \in Flows : photo[n].capture \in Captures \union {NoCapture}
      BY DEF SilenceInv, CaptureTyped, SendRun, PhotoRun, MicTyped, MicRecord
    <2>3. \A t \in Captures : ~tastings'[t].there => tastings'[t].takes = 0
      BY DEF SilenceInv, Grounded, TakesStay
    <2>4. ASSUME NEW n \in Flows
          PROVE  IsThere(tastings', photo'[n].capture) /\ (photo'[n].pc = "trigger" => photo'[n].capture # NoCapture)
      <3>1. CASE photo'[n].capture = photo[n].capture /\ photo'[n].pc \in {photo[n].pc, "wine"}
        BY <2>1, <2>2, <3>1 DEF SilenceInv, Grounded
      <3>2. CASE photo'[n].capture = NoCapture /\ photo'[n].pc # "trigger"
        BY <3>2 DEF IsThere
      <3> QED BY <3>1, <3>2
    <2>5. ASSUME NEW n \in 1..MaxTurns
          PROVE  IsThere(tastings', sends'[n].capture) /\ (sends'[n].pc # "off" => sends'[n].capture # NoCapture)
      BY <2>1, <2>2 DEF SilenceInv, Grounded
    <2>6. IsThere(tastings', mic'.capture) /\ (mic'.state \in {"recording", "paused"} => mic'.capture # NoCapture)
      BY <2>1, <2>2 DEF SilenceInv, Grounded
    <2> QED BY <2>3, <2>4, <2>5, <2>6 DEF Grounded
  <1>4. Saving' /\ Quiet'
    BY DEF SilenceInv, Saving, Quiet, NoSends
  <1> QED BY <1>1, <1>2, <1>3, <1>4 DEF SilenceInv

(* Steps of the recorder alone.                                            *)
LEMMA MicKeeps ==
    ASSUME SilenceInv, MicTyped', turns' \in TurnRecord, turns'.photo = turns.photo,
           UNCHANGED <<page, starting, photo, sends, tastings>>,
           page.capture = NoCapture => mic'.state = "idle", IsThere(tastings, mic'.capture),
           mic'.state \in {"recording", "paused"} =>
               mic'.capture # NoCapture /\ turns'.mic \in 1..MaxTurns
    PROVE  SilenceInv'
  <1>1. CaptureTyped' /\ Untouched'
    BY DEF SilenceInv, CaptureTyped, Untouched, NoSends
  <1>2. Grounded' /\ TurnTaken' /\ FlowsAhead'
    BY DEF SilenceInv, Grounded, IsThere, TurnTaken, FlowsAhead
  <1>3. Saving' /\ BusyHeld' /\ Quiet'
    BY DEF SilenceInv, Saving, BusyHeld, Quiet, Aware, Knows, Unfinished, Said, NoSends
  <1> QED BY <1>1, <1>2, <1>3 DEF SilenceInv

(* Steps of a run that sends a recording: the page never says less than    *)
(* before, and says how it ended when the run ends.                        *)
LEMMA SendKeeps ==
    ASSUME SilenceInv, NEW n \in 1..MaxTurns, NEW e \in SendRun, sends' = [sends EXCEPT ![n] = e],
           \/ sends[n].pc # "off" /\ e.capture \in {sends[n].capture, NoCapture}
           \/ mic.state \in {"recording", "paused"} /\ e.capture = mic.capture,
           e.pc # "off" => e.capture # NoCapture,
           page' \in PageRecord, page'.capture = page.capture, page'.step1 = page.step1,
           \/ page'.step2 \in {"done", "error"}
           \/ page'.step2 \in {page.step2, "saving"} /\ page'.step2 # "idle" /\ e.pc # "off",
           tastings' \in [Captures -> TastingRecord],
           \A t \in Captures : tastings'[t].there = tastings[t].there /\
               (tastings[t].there \/ tastings'[t].takes = tastings[t].takes),
           MicTyped', IsThere(tastings, mic'.capture), mic'.state \in {"recording", "paused"} => mic' = mic,
           UNCHANGED <<starting, photo, turns>>
    PROVE  SilenceInv'
  <1>1. /\ sends' \in [1..MaxTurns -> SendRun] /\ sends'[n] = e
        /\ \A m \in (1..MaxTurns) \ {n} : sends'[m] = sends[m]
    BY SendMoves DEF SilenceInv
  <1>2. CaptureTyped'
    BY <1>1 DEF SilenceInv, CaptureTyped
  <1>3. page.capture # NoCapture
    BY DEF SilenceInv, Untouched, NoSends
  <1>4. Untouched'
    BY <1>3 DEF Untouched
  <1>5. ASSUME NEW c \in Captures \union {NoCapture}, IsThere(tastings, c) PROVE IsThere(tastings', c)
    BY <1>5 DEF IsThere
  <1>6. /\ page.capture \in Captures \union {NoCapture}
        /\ \A m \in Flows : photo[m].capture \in Captures \union {NoCapture}
        /\ mic'.capture \in Captures \union {NoCapture} /\ mic.capture \in Captures \union {NoCapture}
        /\ e.capture \in Captures \union {NoCapture}
        /\ \A m \in 1..MaxTurns : sends[m].capture \in Captures \union {NoCapture}
    BY DEF SilenceInv, CaptureTyped, PageRecord, PhotoRun, SendRun, MicTyped, MicRecord
  <1>7. IsThere(tastings, page.capture) /\ IsThere(tastings, e.capture)
    BY DEF SilenceInv, Grounded, IsThere
  <1>8. /\ IsThere(tastings', page'.capture) /\ IsThere(tastings', mic'.capture)
        /\ IsThere(tastings', e.capture)
    BY <1>5, <1>6, <1>7
  <1>9. \A m \in 1..MaxTurns : /\ IsThere(tastings', sends'[m].capture)
                               /\ sends'[m].pc # "off" => sends'[m].capture # NoCapture
    <2> SUFFICES ASSUME NEW m \in 1..MaxTurns
                 PROVE  /\ IsThere(tastings', sends'[m].capture)
                        /\ sends'[m].pc # "off" => sends'[m].capture # NoCapture
      OBVIOUS
    <2>1. CASE m = n
      BY <1>1, <1>8, <2>1
    <2>2. CASE m # n
      <3>1. sends'[m] = sends[m] /\ IsThere(tastings, sends[m].capture)
        BY <1>1, <2>2 DEF SilenceInv, Grounded
      <3> QED BY <1>5, <1>6, <3>1 DEF SilenceInv, Grounded
    <2> QED BY <2>1, <2>2
  <1>10. Grounded'
    <2>1. \A t \in Captures : ~tastings'[t].there => tastings'[t].takes = 0
      BY DEF SilenceInv, Grounded
    <2>2. mic'.state \in {"recording", "paused"} => mic'.capture # NoCapture
      BY DEF SilenceInv, Grounded
    <2>3. \A m \in Flows : /\ IsThere(tastings', photo'[m].capture)
                           /\ photo'[m].pc = "trigger" => photo'[m].capture # NoCapture
      BY <1>5, <1>6 DEF SilenceInv, Grounded
    <2> QED BY <1>8, <1>9, <2>1, <2>2, <2>3 DEF Grounded
  <1>11. TurnTaken' /\ FlowsAhead' /\ BusyHeld'
    BY DEF SilenceInv, TurnTaken, FlowsAhead, BusyHeld
  <1>12. page'.step2 # "idle" /\ (page'.step2 = "saving" => e.pc # "off")
    OBVIOUS
  <1>13. Saving' /\ Quiet'
    BY <1>1, <1>12 DEF Saving, Quiet, NoSends
  <1> QED BY <1>2, <1>4, <1>10, <1>11, <1>13 DEF SilenceInv

(* A new tasting, or one that gets its wine.                               *)
LEMMA ThereMoves ==
    ASSUME CaptureTyped, NEW t \in NewCaptures, tastings' = [tastings EXCEPT ![t].there = TRUE]
    PROVE  /\ tastings' \in [Captures -> TastingRecord] /\ TakesStay /\ tastings'[t].there
           /\ t \in Captures /\ t # NoCapture /\ ~tastings[t].there
           /\ \A u \in Captures : tastings'[u].wine = tastings[u].wine
  <1> DEFINE e == [tastings[t] EXCEPT !.there = TRUE]
  <1>1. t \in Captures /\ t # NoCapture /\ ~tastings[t].there /\ tastings[t] \in TastingRecord
    BY DEF NewCaptures, Captures, NoCapture, CaptureTyped
  <1>2. e \in TastingRecord /\ e.there /\ e.takes = tastings[t].takes /\ e.wine = tastings[t].wine
    BY <1>1 DEF TastingRecord
  <1>3. tastings' = [tastings EXCEPT ![t] = e]
    OBVIOUS
  <1> HIDE DEF e
  <1>4. /\ tastings' \in [Captures -> TastingRecord] /\ tastings'[t] = e
        /\ \A u \in Captures \ {t} : tastings'[u] = tastings[u]
    BY <1>1, <1>2, <1>3, TastingMoves
  <1> QED BY <1>1, <1>2, <1>4 DEF TakesStay

LEMMA WineMoves ==
    ASSUME CaptureTyped, NEW t \in Captures, GetsWine(t)
    PROVE  /\ tastings' \in [Captures -> TastingRecord] /\ TakesStay /\ tastings'[t].there
           /\ \A u \in Captures \ {t} : tastings'[u].wine = tastings[u].wine
  <1> DEFINE e == [tastings[t] EXCEPT !.there = TRUE, !.wine = TRUE]
  <1>1. tastings[t] \in TastingRecord
    BY DEF CaptureTyped
  <1>2. e \in TastingRecord /\ e.there /\ e.takes = tastings[t].takes
    BY <1>1 DEF TastingRecord
  <1>3. tastings' = [tastings EXCEPT ![t] = e]
    BY DEF GetsWine, CaptureTyped
  <1> HIDE DEF e
  <1>4. /\ tastings' \in [Captures -> TastingRecord] /\ tastings'[t] = e
        /\ \A u \in Captures \ {t} : tastings'[u] = tastings[u]
    BY <1>2, <1>3, TastingMoves
  <1> QED BY <1>2, <1>4 DEF TakesStay

(* The wine goes to the flow's tasting, or to one that has no recording.   *)
LEMMA WineTarget ==
    ASSUME SilenceInv, NEW n \in Flows, NEW t \in WineGoesTo(n)
    PROVE  /\ t \in Captures /\ t # NoCapture
           /\ IF photo[n].capture # NoCapture THEN t = photo[n].capture
              ELSE ~tastings[t].there /\ tastings[t].takes = 0
  <1>1. photo[n].capture \in Captures \union {NoCapture}
    BY DEF SilenceInv, CaptureTyped, PhotoRun
  <1>2. CASE photo[n].capture # NoCapture
    BY <1>1, <1>2 DEF WineGoesTo
  <1>3. CASE photo[n].capture = NoCapture
    <2>1. t \in Captures /\ ~tastings[t].there
      BY <1>3 DEF WineGoesTo, NewCaptures
    <2>2. t # NoCapture
      BY <2>1 DEF Captures, NoCapture
    <2> QED BY <1>3, <2>1, <2>2 DEF SilenceInv, Grounded
  <1> QED BY <1>2, <1>3

(* What was known stays known when no recording comes or goes, and a       *)
(* tasting without one leaves nothing unfinished.                          *)
LEMMA KnownStays ==
    ASSUME SilenceInv, TakesStay, page.step2 = "idle"
    PROVE  /\ \A n \in Flows : photo'[n] = photo[n] => Knows(photo[n])'
           /\ page'.capture = page.capture /\ page'.count = page.count => Knows(page)'
           /\ \A t \in Captures : page'.capture = t /\ tastings[t].takes = 0
                 => Knows(page)' /\ ~Unfinished(page.capture)'
  <1>1. /\ page.capture \in Captures \union {NoCapture}
        /\ \A n \in Flows : photo[n].capture \in Captures \union {NoCapture}
    BY DEF SilenceInv, CaptureTyped, PageRecord, PhotoRun
  <1>2. Aware
    BY DEF SilenceInv, Quiet
  <1>3. \A n \in Flows : photo'[n] = photo[n] => Knows(photo[n])'
    BY <1>1, <1>2 DEF Aware, Knows, TakesStay
  <1>4. page'.capture = page.capture /\ page'.count = page.count => Knows(page)'
    BY <1>1, <1>2 DEF Aware, Knows, TakesStay
  <1>5. ASSUME NEW t \in Captures, page'.capture = t, tastings[t].takes = 0
        PROVE  Knows(page)' /\ ~Unfinished(page.capture)'
    <2>1. tastings'[page'.capture].takes = 0
      BY <1>5 DEF TakesStay
    <2>2. ~(tastings'[page'.capture].takes > 0)
      BY <2>1
    <2> QED BY <2>2 DEF Knows, Unfinished
  <1> QED BY <1>3, <1>4, <1>5

(* Steps of the page that leave the tastings and all flows alone.          *)
LEMMA StartIsHeard == SilenceInv /\ StartCapture => SilenceInv'
  <1> SUFFICES ASSUME SilenceInv, StartCapture PROVE SilenceInv'
    OBVIOUS
  <1>1. page' = [page EXCEPT !.creating = TRUE] /\ starting' = TRUE
        /\ UNCHANGED <<photo, mic, sends, tastings, seconds, turns>>
    BY DEF StartCapture
  <1>2. /\ page' \in PageRecord /\ page'.capture = page.capture /\ page'.count = page.count
        /\ page'.step1 = page.step1 /\ page'.step2 = page.step2
    BY <1>1 DEF SilenceInv, CaptureTyped, PageRecord
  <1>3. CaptureTyped' /\ TakesStay
    BY <1>1, <1>2 DEF SilenceInv, CaptureTyped, TakesStay
  <1>4. page.step2 = "idle" => Aware'
    BY <1>1, <1>2 DEF SilenceInv, Quiet, Aware, Knows, Unfinished, Said
  <1> QED BY <1>1, <1>2, <1>3, <1>4, PageKeeps DEF SilenceInv, Grounded, FlowsAhead, BusyHeld

LEMMA AskKeeps == SilenceInv /\ AskName => SilenceInv'
  <1> SUFFICES ASSUME SilenceInv, AskName PROVE SilenceInv'
    OBVIOUS
  <1>1. page' = [page EXCEPT !.step1 = "manual"] /\ page.step1 \in {"idle", "ready"}
        /\ UNCHANGED <<photo, starting, mic, sends, tastings, seconds, turns>>
    BY DEF AskName, PageStays
  <1>2. /\ page' \in PageRecord /\ page'.capture = page.capture /\ page'.count = page.count
        /\ page'.step1 = "manual" /\ page'.step2 = page.step2
    BY <1>1 DEF SilenceInv, CaptureTyped, PageRecord
  <1>3. CaptureTyped' /\ TakesStay
    BY <1>1, <1>2 DEF SilenceInv, CaptureTyped, TakesStay
  <1>4. page.step2 = "idle" => Aware'
    BY <1>1, <1>2 DEF SilenceInv, Quiet, Aware, Knows, Unfinished, Said
  <1> QED BY <1>1, <1>2, <1>3, <1>4, PageKeeps DEF SilenceInv, Grounded, FlowsAhead, BusyHeld

(* A flow begins with what the page knows, or goes on, and the page says   *)
(* that it waits for it.                                                   *)
LEMMA BeginsKeeps ==
    ASSUME SilenceInv, NEW n \in Flows, NEW c \in {"upload", "wine"}, NEW b \in BOOLEAN,
           Begins(n, Enter(c, b))
    PROVE  SilenceInv'
  <1> DEFINE e == Enter(c, b)
  <1>1. /\ photo' = [photo EXCEPT ![n] = e] /\ page' = [page EXCEPT !.step1 = "busy"]
        /\ turns' = [turns EXCEPT !.photo = n] /\ n = turns.photo + 1
        /\ UNCHANGED <<starting, mic, sends, tastings, seconds>>
    BY DEF Begins
  <1>2. CaptureTyped /\ page \in PageRecord /\ turns \in TurnRecord /\ n \in Nat
    BY DEF SilenceInv, CaptureTyped, Flows
  <1>3. e \in PhotoRun /\ e.pc = c /\ e.capture = page.capture /\ e.count = page.count
    BY <1>2, FlowTypes
  <1> HIDE DEF e
  <1>4. /\ photo' \in [Flows -> PhotoRun] /\ photo'[n] = e
        /\ \A m \in Flows \ {n} : photo'[m] = photo[m]
    BY <1>1, <1>2, <1>3, PhotoMoves
  <1>5. /\ page' \in PageRecord /\ page'.capture = page.capture /\ page'.count = page.count
        /\ page'.step1 = "busy" /\ page'.step2 = page.step2
    BY <1>1, <1>2 DEF PageRecord
  <1>6. turns' \in TurnRecord /\ turns'.mic = turns.mic /\ turns'.photo = turns.photo + 1
    BY <1>1, <1>2 DEF TurnRecord
  <1>7. CaptureTyped' /\ TakesStay
    BY <1>1, <1>4, <1>5, <1>6 DEF SilenceInv, CaptureTyped, TakesStay
  <1>8. \A m \in Flows : m > turns'.photo => photo'[m].pc = "off"
    <2> SUFFICES ASSUME NEW m \in Flows, m > turns'.photo PROVE photo'[m].pc = "off"
      OBVIOUS
    <2>1. m # n /\ m > turns.photo
      BY <1>1, <1>2, <1>6 DEF Flows, TurnRecord
    <2> QED BY <1>4, <2>1 DEF SilenceInv, FlowsAhead
  <1>9. photo'[n].pc # "off"
    BY <1>3, <1>4
  <1>10. page.step2 = "idle" => Aware'
    <2> SUFFICES ASSUME page.step2 = "idle" PROVE Aware'
      OBVIOUS
    <2>1. Knows(page)' /\ Said'
      BY <1>5, <1>7, KnownStays DEF Said
    <2>2. \A m \in Flows \ {n} : Knows(photo[m])'
      BY <1>4, <1>7, KnownStays
    <2>3. Knows(photo[n])'
      BY <1>3, <1>4, <1>5, <2>1 DEF Knows
    <2> QED BY <2>1, <2>2, <2>3 DEF Aware
  <1>11. \A m \in Flows : \/ photo'[m] = photo[m]
                          \/ photo'[m].capture = NoCapture /\ photo'[m].count = 0 /\ photo'[m].pc # "trigger"
                          \/ photo'[m].capture # NoCapture /\ page'.capture # NoCapture
                             /\ IsThere(tastings', photo'[m].capture)
    <2>1. CASE page.capture = NoCapture
      BY <1>3, <1>4, <2>1 DEF SilenceInv, Untouched
    <2>2. CASE page.capture # NoCapture
      BY <1>1, <1>3, <1>4, <1>5, <2>2 DEF SilenceInv, Grounded
    <2> QED BY <2>1, <2>2
  <1>12. IsThere(tastings', page'.capture)
    BY <1>1, <1>5 DEF SilenceInv, Grounded
  <1> QED BY <1>1, <1>5, <1>6, <1>7, <1>8, <1>9, <1>10, <1>11, <1>12, PageKeeps

LEMMA UploadedKeeps == ASSUME SilenceInv, NEW n \in Flows, LabelUploaded(n) PROVE SilenceInv'
  <1> DEFINE e == [photo[n] EXCEPT !.pc = "wine"]
  <1>1. /\ photo' = [photo EXCEPT ![n] = e] /\ page' = [page EXCEPT !.step1 = "busy"]
        /\ photo[n].pc = "upload" /\ UNCHANGED <<starting, mic, sends, tastings, seconds, turns>>
    BY DEF LabelUploaded, PageStays
  <1>2. CaptureTyped /\ page \in PageRecord /\ photo[n] \in PhotoRun
    BY DEF SilenceInv, CaptureTyped
  <1>3. e \in PhotoRun /\ e.pc = "wine" /\ e.capture = photo[n].capture /\ e.count = photo[n].count
    BY <1>2 DEF PhotoRun
  <1> HIDE DEF e
  <1>4. /\ photo' \in [Flows -> PhotoRun] /\ photo'[n] = e
        /\ \A m \in Flows \ {n} : photo'[m] = photo[m]
    BY <1>1, <1>2, <1>3, PhotoMoves
  <1>5. /\ page' \in PageRecord /\ page'.capture = page.capture /\ page'.count = page.count
        /\ page'.step1 = "busy" /\ page'.step2 = page.step2
    BY <1>1, <1>2 DEF PageRecord
  <1>6. CaptureTyped' /\ TakesStay
    BY <1>1, <1>4, <1>5 DEF SilenceInv, CaptureTyped, TakesStay
  <1>7. \A m \in Flows : m > turns'.photo => photo'[m].pc = "off"
    BY <1>1, <1>4 DEF SilenceInv, FlowsAhead
  <1>8. photo'[n].pc # "off"
    BY <1>3, <1>4
  <1>9. page.step2 = "idle" => Aware'
    <2> SUFFICES ASSUME page.step2 = "idle" PROVE Aware'
      OBVIOUS
    <2>1. Knows(page)' /\ Said'
      BY <1>5, <1>6, KnownStays DEF Said
    <2>2. \A m \in Flows \ {n} : Knows(photo[m])'
      BY <1>4, <1>6, KnownStays
    <2>3. Knows(photo[n])'
      BY <1>1, <1>3, <1>4 DEF SilenceInv, Quiet, Aware, Knows
    <2> QED BY <2>1, <2>2, <2>3 DEF Aware
  <1>10. \A m \in Flows : /\ photo'[m].capture = photo[m].capture /\ photo'[m].count = photo[m].count
                          /\ photo'[m].pc \in {photo[m].pc, "wine"}
    BY <1>3, <1>4
  <1>11. IsThere(tastings', page'.capture)
    BY <1>1, <1>5 DEF SilenceInv, Grounded
  <1> QED BY <1>1, <1>5, <1>6, <1>7, <1>8, <1>9, <1>10, <1>11, PageKeeps

(* A flow ends without its tasting, whether the wine has reached one or    *)
(* not: the page says so, or it stops there and still waits.               *)
LEMMA EndsKeep ==
    ASSUME SilenceInv, NEW n \in Flows, photo[n].pc \in {"upload", "wine"}, FlowEnds(n), PageStays,
           tastings' \in [Captures -> TastingRecord], TakesStay,
           \A t \in Captures : tastings'[t].wine # tastings[t].wine
                => t = photo[n].capture \/ tastings[t].takes = 0
    PROVE  SilenceInv'
  <1>1. UNCHANGED <<starting, mic, sends, seconds, turns>>
    BY DEF PageStays
  <1>2. CaptureTyped /\ page \in PageRecord
    BY DEF SilenceInv, CaptureTyped
  <1>3. PICK e \in PhotoRun :
          /\ photo' = [photo EXCEPT ![n] = e] /\ e.capture = NoCapture /\ e.count = 0
          /\ \/ e.pc = "off" /\ page' = [page EXCEPT !.step1 = "told"]
             \/ e.pc = "hung" /\ page' = page
    <2> DEFINE h == [NoPhoto EXCEPT !.pc = "hung"]
    <2>1. h \in PhotoRun /\ h.pc = "hung" /\ h.capture = NoCapture /\ h.count = 0
      BY DEF NoPhoto, PhotoRun
    <2> HIDE DEF h
    <2>2. \/ photo' = [photo EXCEPT ![n] = NoPhoto] /\ page' = [page EXCEPT !.step1 = "told"]
          \/ photo' = [photo EXCEPT ![n] = h] /\ page' = page
      BY DEF FlowEnds, h
    <2> QED BY <2>1, <2>2, FlowTypes
  <1>4. /\ photo' \in [Flows -> PhotoRun] /\ photo'[n] = e
        /\ \A m \in Flows \ {n} : photo'[m] = photo[m]
    BY <1>2, <1>3, PhotoMoves
  <1>5. /\ page' \in PageRecord /\ page'.capture = page.capture /\ page'.count = page.count
        /\ page'.step2 = page.step2
        /\ page'.step1 = "told" \/ (page'.step1 = page.step1 /\ photo'[n].pc = "hung")
    BY <1>2, <1>3, <1>4 DEF PageRecord
  <1>6. CaptureTyped'
    BY <1>1, <1>2, <1>4, <1>5 DEF CaptureTyped
  <1>7. \A m \in Flows : m > turns'.photo => photo'[m].pc = "off"
    BY <1>1, <1>4 DEF SilenceInv, FlowsAhead
  <1>8. page'.step1 = "busy" => \E m \in Flows : photo'[m].pc # "off"
    BY <1>5
  <1>9. page.step2 = "idle" => Aware'
    <2> SUFFICES ASSUME page.step2 = "idle" PROVE Aware'
      OBVIOUS
    <2>1. Knows(page)' /\ \A m \in Flows \ {n} : Knows(photo[m])'
      BY <1>4, <1>5, KnownStays
    <2>2. Knows(photo[n])'
      BY <1>3, <1>4 DEF Knows
    <2>3. Unfinished(page.capture)' => Unfinished(page.capture)
      <3> SUFFICES ASSUME Unfinished(page.capture)' PROVE Unfinished(page.capture)
        OBVIOUS
      <3> DEFINE c == page.capture
      <3>1. /\ c \in Captures /\ c # NoCapture /\ tastings[c].takes > 0 /\ tastings[c].takes # 0
        BY <1>2, <1>5 DEF Unfinished, PageRecord, TakesStay
      <3>2. CASE tastings'[c].wine
        BY <1>5, <3>1, <3>2 DEF Unfinished
      <3>3. CASE ~tastings'[c].wine
        <4>1. PICK m \in Flows : photo'[m].pc \in {"upload", "wine"} /\ photo'[m].capture = c
          BY <1>5, <3>3 DEF Unfinished
        <4>2. m # n
          BY <1>3, <1>4, <3>1, <4>1
        <4> QED BY <1>4, <3>1, <4>1, <4>2 DEF Unfinished
      <3> QED BY <3>2, <3>3
    <2>4. Said => Said'
      BY <1>4, <1>5 DEF Said
    <2>5. Unfinished(page.capture)' => Said'
      BY <2>3, <2>4 DEF SilenceInv, Quiet, Aware
    <2> QED BY <2>1, <2>2, <2>5 DEF Aware
  <1>10. \A m \in Flows : \/ photo'[m] = photo[m]
                          \/ photo'[m].capture = NoCapture /\ photo'[m].count = 0 /\ photo'[m].pc # "trigger"
    BY <1>3, <1>4
  <1>11. IsThere(tastings', page'.capture)
    BY <1>2, <1>5 DEF SilenceInv, Grounded, IsThere, TakesStay, PageRecord
  <1> QED BY <1>1, <1>5, <1>6, <1>7, <1>8, <1>9, <1>10, <1>11, PageKeeps

LEMMA FailsKeep ==
    ASSUME SilenceInv, NEW n \in Flows, PhotoFails(n) \/ WineAnswerLost(n)
    PROVE  SilenceInv'
  <1>1. CASE PhotoFails(n)
    <2>1. tastings' \in [Captures -> TastingRecord] /\ TakesStay /\ UNCHANGED tastings
      BY <1>1 DEF PhotoFails, SilenceInv, CaptureTyped, TakesStay
    <2> QED BY <1>1, <2>1, EndsKeep DEF PhotoFails
  <1>2. CASE WineAnswerLost(n)
    <2> PICK t \in WineGoesTo(n) : GetsWine(t)
      BY <1>2 DEF WineAnswerLost
    <2>1. t \in Captures /\ (t = photo[n].capture \/ tastings[t].takes = 0)
      BY WineTarget
    <2>2. /\ tastings' \in [Captures -> TastingRecord] /\ TakesStay
          /\ \A u \in Captures \ {t} : tastings'[u].wine = tastings[u].wine
      BY <2>1, WineMoves DEF SilenceInv
    <2> QED BY <1>2, <2>1, <2>2, EndsKeep DEF WineAnswerLost
  <1> QED BY <1>1, <1>2

(* The steps that give the page its tasting: it knows of the recordings    *)
(* there are, because a tasting that is made now has none.                 *)
LEMMA CreatedKeeps == SilenceInv /\ CaptureCreated => SilenceInv'
  <1> SUFFICES ASSUME SilenceInv, CaptureCreated PROVE SilenceInv'
    OBVIOUS
  <1>typed. CaptureTyped /\ page \in PageRecord /\ turns \in TurnRecord
    BY DEF SilenceInv, CaptureTyped
  <1>1. starting' = FALSE /\ UNCHANGED <<photo, mic, sends, seconds>>
    BY DEF CaptureCreated
  <1>2. (\A n \in Flows : n > turns.photo => photo'[n].pc = "off")
        /\ (page.step1 = "busy" => \E n \in Flows : photo'[n].pc # "off")
    BY <1>1 DEF SilenceInv, FlowsAhead, BusyHeld
  <1>3. ASSUME NEW t \in NewCaptures, tastings' = [tastings EXCEPT ![t].there = TRUE],
               page' = [page EXCEPT !.creating = FALSE, !.capture = t],
               turns' = [turns EXCEPT !.made = @ + 1]
        PROVE  SilenceInv'
    <2>1. /\ tastings' \in [Captures -> TastingRecord] /\ TakesStay /\ tastings'[t].there
          /\ t \in Captures /\ t # NoCapture /\ ~tastings[t].there
      BY <1>typed, <1>3, ThereMoves
    <2>2. /\ page' \in PageRecord /\ page'.capture = t /\ page'.step1 = page.step1
          /\ page'.step2 = page.step2
      BY <1>typed, <1>3, <2>1 DEF PageRecord
    <2>3. turns' \in TurnRecord /\ turns'.mic = turns.mic /\ turns'.photo = turns.photo
      BY <1>typed, <1>3 DEF TurnRecord
    <2>4. CaptureTyped'
      BY <1>1, <2>1, <2>2, <2>3 DEF SilenceInv, CaptureTyped
    <2>5. tastings[t].takes = 0
      BY <2>1 DEF SilenceInv, Grounded
    <2>6. page.step2 = "idle" => Aware'
      BY <1>1, <2>1, <2>2, <2>5, KnownStays DEF Aware
    <2>7. IsThere(tastings', page'.capture)
      BY <2>1, <2>2 DEF IsThere
    <2> QED BY <1>1, <1>2, <2>1, <2>2, <2>3, <2>4, <2>6, <2>7, PageKeeps
  <1>4. ASSUME page' = [page EXCEPT !.creating = FALSE, !.step2 = "error"], UNCHANGED turns,
               UNCHANGED tastings \/ \E t \in NewCaptures : tastings' = [tastings EXCEPT ![t].there = TRUE]
        PROVE  SilenceInv'
    <2>1. /\ page' \in PageRecord /\ page'.capture = page.capture /\ page'.count = page.count
          /\ page'.step1 = page.step1 /\ page'.step2 = "error"
      BY <1>typed, <1>4 DEF PageRecord
    <2>2. tastings' \in [Captures -> TastingRecord] /\ TakesStay
      <3>1. CASE UNCHANGED tastings
        BY <1>typed, <3>1 DEF CaptureTyped, TakesStay
      <3>2. CASE \E t \in NewCaptures : tastings' = [tastings EXCEPT ![t].there = TRUE]
        BY <1>typed, <3>2, ThereMoves
      <3> QED BY <1>4, <3>1, <3>2
    <2>3. CaptureTyped'
      BY <1>1, <1>4, <1>typed, <2>1, <2>2 DEF CaptureTyped
    <2>4. IsThere(tastings', page'.capture)
      BY <1>typed, <2>1, <2>2 DEF SilenceInv, Grounded, IsThere, TakesStay, PageRecord
    <2> QED BY <1>1, <1>2, <1>4, <2>1, <2>2, <2>3, <2>4, PageKeeps
  <1> QED BY <1>3, <1>4 DEF CaptureCreated

LEMMA ResumedKeeps == SilenceInv /\ ResumeCapture => SilenceInv'
  <1> SUFFICES ASSUME SilenceInv, ResumeCapture PROVE SilenceInv'
    OBVIOUS
  <1>typed. CaptureTyped /\ page \in PageRecord
    BY DEF SilenceInv, CaptureTyped
  <1> PICK t \in NewCaptures, withWine \in BOOLEAN :
        /\ tastings' = [tastings EXCEPT ![t] = [there |-> TRUE, wine |-> withWine,
                                                takes |-> IF withWine THEN 0 ELSE 1, asked |-> FALSE]]
        /\ page' = [page EXCEPT !.capture = t, !.count = IF withWine THEN 0 ELSE 1,
                                !.step2 = "idle", !.step1 = IF withWine THEN "ready" ELSE "idle"]
    BY DEF ResumeCapture
  <1> DEFINE k == IF withWine THEN 0 ELSE 1
             e == [there |-> TRUE, wine |-> withWine, takes |-> k, asked |-> FALSE]
             shows == IF withWine THEN "ready" ELSE "idle"
  <1>1. page.capture = NoCapture /\ UNCHANGED <<photo, starting, mic, sends, seconds, turns>>
    BY DEF ResumeCapture, PageStays
  <1>2. t \in Captures /\ t # NoCapture
    BY DEF NewCaptures, Captures, NoCapture
  <1>3. k \in Nat /\ (withWine => k = 0) /\ (~withWine => k = 1) /\ shows \in {"ready", "idle"}
    OBVIOUS
  <1>4. e \in TastingRecord /\ e.there /\ e.wine = withWine /\ e.takes = k
    <2> HIDE DEF k
    <2> QED BY <1>3 DEF TastingRecord
  <1>5. /\ tastings' = [tastings EXCEPT ![t] = e]
        /\ page' = [page EXCEPT !.capture = t, !.count = k, !.step2 = "idle", !.step1 = shows]
    OBVIOUS
  <1> HIDE DEF e, k, shows
  <1>6. /\ page' \in PageRecord /\ page'.capture = t /\ page'.count = k /\ page'.step2 = "idle"
        /\ page'.step1 = shows
    BY <1>typed, <1>2, <1>3, <1>5 DEF PageRecord
  <1>7. /\ tastings' \in [Captures -> TastingRecord] /\ tastings'[t] = e
        /\ \A u \in Captures \ {t} : tastings'[u] = tastings[u]
    BY <1>typed, <1>2, <1>4, <1>5, TastingMoves
  <1>8. /\ mic.state = "idle" /\ NoSends /\ \A u \in Captures : tastings[u].takes = 0
        /\ \A n \in Flows : photo[n].capture = NoCapture /\ photo[n].pc # "trigger"
    BY <1>1 DEF SilenceInv, Untouched
  <1>9. CaptureTyped' /\ MicTyped'
    BY <1>1, <1>6, <1>7 DEF SilenceInv, CaptureTyped, MicTyped
  <1>10. Untouched' /\ TurnTaken' /\ FlowsAhead' /\ Saving' /\ BusyHeld'
    BY <1>1, <1>2, <1>3, <1>6, <1>8 DEF SilenceInv, Untouched, TurnTaken, FlowsAhead, Saving, BusyHeld
  <1>11. \A c \in Captures \union {NoCapture} : IsThere(tastings, c) => IsThere(tastings', c)
    BY <1>4, <1>7 DEF IsThere
  <1>12. Grounded'
    <2>1. IsThere(tastings', page'.capture)
      BY <1>4, <1>6, <1>7 DEF IsThere
    <2>2. \A u \in Captures : ~tastings'[u].there => tastings'[u].takes = 0
      BY <1>4, <1>7, <1>8
    <2>3. /\ mic.capture \in Captures \union {NoCapture}
          /\ \A m \in 1..MaxTurns : sends[m].capture \in Captures \union {NoCapture}
      BY DEF SilenceInv, CaptureTyped, SendRun, MicTyped, MicRecord
    <2>4. \A n \in Flows : IsThere(tastings', photo'[n].capture)
      BY <1>1, <1>8 DEF IsThere
    <2> QED BY <1>1, <1>8, <1>11, <2>1, <2>2, <2>3, <2>4 DEF SilenceInv, Grounded
  <1>13. Quiet'
    <2>1. NoSends' /\ \A n \in Flows : Knows(photo[n])'
      BY <1>1, <1>8 DEF NoSends, Knows
    <2>2. Knows(page)'
      BY <1>3, <1>4, <1>6, <1>7 DEF Knows
    <2>3. ~Unfinished(page.capture)'
      <3>1. \A n \in Flows : photo'[n].capture # page'.capture
        BY <1>1, <1>2, <1>6, <1>8
      <3>2. ~(tastings'[t].takes > 0 /\ tastings'[t].wine)
        BY <1>3, <1>4, <1>7
      <3> QED BY <1>6, <3>1, <3>2 DEF Unfinished
    <2> QED BY <2>1, <2>2, <2>3 DEF Quiet, Aware
  <1> QED BY <1>9, <1>10, <1>12, <1>13 DEF SilenceInv

(* The wine reaches a tasting: with a recording known the analysis is      *)
(* next, and without one the tasting has none while the page is quiet.     *)
LEMMA WineKeeps == ASSUME SilenceInv, NEW n \in Flows, DraftAndTasting(n) PROVE SilenceInv'
  <1>typed. /\ CaptureTyped /\ page \in PageRecord /\ photo[n] \in PhotoRun /\ turns \in TurnRecord
            /\ photo[n].pc = "wine" /\ UNCHANGED <<starting, mic, sends, seconds>>
    BY DEF SilenceInv, CaptureTyped, DraftAndTasting
  <1> PICK t \in WineGoesTo(n) :
        /\ GetsWine(t)
        /\ IF photo[n].count > 0
           THEN photo' = [photo EXCEPT ![n].pc = "trigger", ![n].capture = t] /\ UNCHANGED page
           ELSE /\ photo' = [photo EXCEPT ![n] = NoPhoto]
                /\ page' = [page EXCEPT !.capture = t, !.step1 = "ready"]
    BY DEF DraftAndTasting
  <1>1. /\ t \in Captures /\ t # NoCapture
        /\ IF photo[n].capture # NoCapture THEN t = photo[n].capture ELSE tastings[t].takes = 0
    BY WineTarget
  <1>2. /\ tastings' \in [Captures -> TastingRecord] /\ TakesStay /\ tastings'[t].there
        /\ \A u \in Captures \ {t} : tastings'[u].wine = tastings[u].wine
    BY <1>typed, <1>1, WineMoves
  <1>3. turns' \in TurnRecord /\ turns'.mic = turns.mic /\ turns'.photo = turns.photo
    <2>1. turns.made \in Nat /\ turns.made + 1 \in Nat
      BY <1>typed DEF TurnRecord
    <2>2. PICK k \in Nat : turns' = [turns EXCEPT !.made = k]
      BY <2>1 DEF DraftAndTasting
    <2> QED BY <1>typed, <2>2 DEF TurnRecord
  <1>4. PICK e \in PhotoRun :
          /\ photo' = [photo EXCEPT ![n] = e]
          /\ \/ /\ photo[n].count > 0 /\ e.pc = "trigger" /\ e.capture = t /\ e.count = photo[n].count
                /\ page' = page
             \/ /\ ~(photo[n].count > 0) /\ e.pc = "off" /\ e.capture = NoCapture /\ e.count = 0
                /\ page' = [page EXCEPT !.capture = t, !.step1 = "ready"]
    <2>1. CASE photo[n].count > 0
      <3> DEFINE g == [photo[n] EXCEPT !.pc = "trigger", !.capture = t]
      <3>1. g \in PhotoRun /\ g.pc = "trigger" /\ g.capture = t /\ g.count = photo[n].count
        BY <1>typed, <1>1 DEF PhotoRun
      <3>2. photo' = [photo EXCEPT ![n] = g] /\ page' = page
        BY <1>typed, <2>1 DEF CaptureTyped
      <3> HIDE DEF g
      <3> QED BY <2>1, <3>1, <3>2
    <2>2. CASE ~(photo[n].count > 0)
      BY <2>2, FlowTypes
    <2> QED BY <2>1, <2>2
  <1>5. /\ photo' \in [Flows -> PhotoRun] /\ photo'[n] = e
        /\ \A m \in Flows \ {n} : photo'[m] = photo[m]
    BY <1>typed, <1>4, PhotoMoves
  <1>6. \A m \in Flows : m > turns'.photo => photo'[m].pc = "off"
    BY <1>typed, <1>3, <1>5 DEF SilenceInv, FlowsAhead
  <1>7. CASE photo[n].count > 0
    <2>1. page' = page /\ e.pc = "trigger" /\ e.capture = t /\ e.count > 0
      BY <1>4, <1>7
    <2>2. CaptureTyped'
      BY <1>typed, <1>2, <1>3, <1>5, <2>1 DEF SilenceInv, CaptureTyped
    <2>3. page.capture # NoCapture
      BY <1>7 DEF SilenceInv, Untouched
    <2>4. page.step2 = "idle" => Aware'
      <3> SUFFICES ASSUME page.step2 = "idle" PROVE Aware'
        OBVIOUS
      <3>1. Knows(page)' /\ \A m \in Flows \ {n} : Knows(photo[m])'
        BY <1>2, <1>5, <2>1, KnownStays
      <3>2. Knows(photo[n])' /\ Said'
        BY <1>5, <2>1 DEF Knows, Said
      <3> QED BY <3>1, <3>2 DEF Aware
    <2>5. \A m \in Flows : \/ photo'[m] = photo[m]
                           \/ photo'[m].capture # NoCapture /\ page'.capture # NoCapture
                              /\ IsThere(tastings', photo'[m].capture)
      BY <1>1, <1>2, <1>5, <2>1, <2>3 DEF IsThere
    <2>6. IsThere(tastings', page'.capture)
      BY <1>typed, <1>2, <2>1 DEF SilenceInv, Grounded, IsThere, TakesStay, PageRecord
    <2>7. page'.step1 = "busy" => \E m \in Flows : photo'[m].pc # "off"
      BY <1>5, <2>1
    <2> QED BY <1>typed, <1>2, <1>3, <1>6, <2>1, <2>2, <2>4, <2>5, <2>6, <2>7, PageKeeps
  <1>8. CASE ~(photo[n].count > 0)
    <2>1. page' = [page EXCEPT !.capture = t, !.step1 = "ready"] /\ e.pc = "off" /\ e.capture = NoCapture
          /\ e.count = 0
      BY <1>4, <1>8
    <2>2. /\ page' \in PageRecord /\ page'.capture = t /\ page'.step1 = "ready"
          /\ page'.step2 = page.step2
      BY <1>typed, <1>1, <2>1 DEF PageRecord
    <2>3. CaptureTyped'
      BY <1>typed, <1>2, <1>3, <1>5, <2>2 DEF SilenceInv, CaptureTyped
    <2>4. page.step2 = "idle" => Aware'
      <3> SUFFICES ASSUME page.step2 = "idle" PROVE Aware'
        OBVIOUS
      <3>1. tastings[t].takes = 0
        <4>1. CASE photo[n].capture # NoCapture
          <5>1. ~(tastings[t].takes > 0) /\ tastings[t].takes \in Nat
            BY <1>typed, <1>1, <1>8, <4>1 DEF SilenceInv, Quiet, Aware, Knows, CaptureTyped, TastingRecord
          <5> QED BY <5>1
        <4>2. CASE photo[n].capture = NoCapture
          BY <1>1, <4>2
        <4> QED BY <4>1, <4>2
      <3>2. Knows(page)' /\ ~Unfinished(page.capture)'
        BY <1>1, <1>2, <2>2, <3>1, KnownStays
      <3>3. \A m \in Flows \ {n} : Knows(photo[m])'
        BY <1>2, <1>5, KnownStays
      <3>4. Knows(photo[n])'
        BY <1>5, <2>1 DEF Knows
      <3> QED BY <3>2, <3>3, <3>4 DEF Aware
    <2>5. \A m \in Flows : \/ photo'[m] = photo[m]
                           \/ photo'[m].capture = NoCapture /\ photo'[m].count = 0 /\ photo'[m].pc # "trigger"
      BY <1>5, <2>1
    <2>6. IsThere(tastings', page'.capture)
      BY <1>2, <2>2 DEF IsThere
    <2> QED BY <1>typed, <1>1, <1>2, <1>3, <1>6, <2>2, <2>3, <2>4, <2>5, <2>6, PageKeeps
  <1> QED BY <1>7, <1>8

(* The flow of the photo asks for the analysis, and the page says so.      *)
LEMMA PhotoTriggersKeeps == ASSUME SilenceInv, NEW n \in Flows, PhotoTriggers(n) PROVE SilenceInv'
  <1> DEFINE t == photo[n].capture
  <1>typed. CaptureTyped /\ page \in PageRecord /\ t \in Captures \union {NoCapture}
    BY DEF SilenceInv, CaptureTyped, PhotoRun
  <1> PICK started \in BOOLEAN :
        /\ tastings' = [tastings EXCEPT ![photo[n].capture].asked = @ \/ started]
        /\ PhotoDone(n, started)
    BY DEF PhotoTriggers
  <1> DEFINE e == [tastings[t] EXCEPT !.asked = @ \/ started]
  <1>1. /\ photo[n].pc = "trigger" /\ photo' = [photo EXCEPT ![n] = NoPhoto]
        /\ UNCHANGED <<starting, mic, sends, seconds, turns>>
    BY DEF PhotoTriggers, PageStays
  <1>2. t \in Captures /\ t # NoCapture /\ tastings[t] \in TastingRecord /\ IsThere(tastings, t)
    BY <1>typed, <1>1 DEF SilenceInv, Grounded, CaptureTyped
  <1>3. e \in TastingRecord /\ e.there = tastings[t].there /\ e.takes = tastings[t].takes
    <2>1. (tastings[t].asked \/ started) \in BOOLEAN
      OBVIOUS
    <2> QED BY <1>2, <2>1 DEF TastingRecord
  <1>4. tastings' = [tastings EXCEPT ![t] = e]
    OBVIOUS
  <1>5. page' = [page EXCEPT !.capture = t, !.step1 = "ready", !.step2 = "done"]
    BY DEF PhotoDone
  <1>6. photo' \in [Flows -> PhotoRun] /\ photo'[n] = NoPhoto /\ \A m \in Flows \ {n} : photo'[m] = photo[m]
    BY <1>typed, <1>1, FlowTypes, PhotoMoves
  <1> HIDE DEF e, t
  <1>7. /\ tastings' \in [Captures -> TastingRecord] /\ tastings'[t] = e
        /\ \A u \in Captures \ {t} : tastings'[u] = tastings[u]
    BY <1>typed, <1>2, <1>3, <1>4, TastingMoves
  <1>8. page' \in PageRecord /\ page'.capture = t /\ page'.step1 = "ready" /\ page'.step2 = "done"
    BY <1>typed, <1>2, <1>5 DEF PageRecord
  <1>9. TakesStay
    BY <1>3, <1>7 DEF TakesStay
  <1>10. CaptureTyped'
    BY <1>typed, <1>1, <1>6, <1>7, <1>8 DEF SilenceInv, CaptureTyped
  <1>11. IsThere(tastings', page'.capture)
    BY <1>2, <1>8, <1>9 DEF IsThere, TakesStay
  <1>12. \A m \in Flows : m > turns'.photo => photo'[m].pc = "off"
    BY <1>1, <1>6, FlowTypes DEF SilenceInv, FlowsAhead
  <1>13. \A m \in Flows : \/ photo'[m] = photo[m]
                          \/ photo'[m].capture = NoCapture /\ photo'[m].count = 0 /\ photo'[m].pc # "trigger"
    BY <1>6, FlowTypes
  <1> QED BY <1>1, <1>2, <1>8, <1>9, <1>10, <1>11, <1>12, <1>13, PageKeeps

-----------------------------------------------------------------------------
(* The recorder keeps its count of seconds.                                *)
LEMMA MicStep ==
    MicTyped /\ ClockRight /\ DurationExact /\ CaptureTyped /\ [CaptureNext]_captureVars
        => MicTyped' /\ ClockRight' /\ DurationExact'
  <1> SUFFICES ASSUME MicTyped, ClockRight, DurationExact, CaptureTyped, [CaptureNext]_captureVars
               PROVE  MicTyped' /\ ClockRight' /\ DurationExact'
    OBVIOUS
  <1>typed. mic \in MicRecord /\ seconds \in Nat /\ mic.startedAt \in Nat /\ mic.accum \in Nat
            /\ mic.heard \in Nat /\ mic.startedAt <= seconds /\ mic.capture \in Captures \union {NoCapture}
    BY DEF MicTyped, MicRecord, ClockRight
  <1>same. CASE UNCHANGED <<mic, seconds>>
    BY <1>same DEF MicTyped, ClockRight, DurationExact
  <1>1. CASE MicStart
    <2>1. mic' = [MicIdle EXCEPT !.state = "recording", !.startedAt = seconds,
                     !.capture = page.capture, !.count = page.count, !.wine = page.step1 = "ready"]
          /\ seconds' = seconds
      BY <1>1 DEF MicStart, MicStays
    <2>2. page.capture \in Captures \union {NoCapture} /\ page.count \in Nat /\ (page.step1 = "ready") \in BOOLEAN
      BY DEF CaptureTyped, PageRecord
    <2>3. mic' \in MicRecord /\ mic'.state = "recording" /\ mic'.startedAt = seconds /\ mic'.accum = 0 /\ mic'.heard = 0
      BY <1>typed, <2>1, <2>2 DEF MicIdle, MicRecord
    <2> QED BY <1>typed, <2>1, <2>3 DEF MicTyped, ClockRight, DurationExact
  <1>2. CASE MicPause
    <2>1. /\ mic' = [mic EXCEPT !.state = "paused", !.accum = mic.accum + (seconds - mic.startedAt)]
          /\ seconds' = seconds /\ mic.state = "recording"
      BY <1>2 DEF MicPause, MicStays
    <2>2. mic.accum + (seconds - mic.startedAt) \in Nat
      BY <1>typed
    <2>3. /\ mic' \in MicRecord /\ mic'.state = "paused" /\ mic'.startedAt = mic.startedAt
          /\ mic'.accum = mic.accum + (seconds - mic.startedAt) /\ mic'.heard = mic.heard
      BY <1>typed, <2>1, <2>2 DEF MicRecord
    <2> QED BY <1>typed, <2>1, <2>3 DEF MicTyped, ClockRight, DurationExact
  <1>3. CASE MicResume
    <2>1. /\ mic' = [mic EXCEPT !.state = "recording", !.startedAt = seconds]
          /\ seconds' = seconds /\ mic.state = "paused"
      BY <1>3 DEF MicResume, MicStays
    <2>2. /\ mic' \in MicRecord /\ mic'.state = "recording" /\ mic'.startedAt = seconds
          /\ mic'.accum = mic.accum /\ mic'.heard = mic.heard
      BY <1>typed, <2>1 DEF MicRecord
    <2> QED BY <1>typed, <2>1, <2>2 DEF MicTyped, ClockRight, DurationExact
  <1>4. CASE MicStop
    <2> DEFINE d == mic.accum + (seconds - mic.startedAt)
               b == mic.state = "paused"
               h == mic.heard
    <2>1. /\ mic' = [MicIdle EXCEPT !.state = "stopped", !.pausedStop = b, !.duration = d, !.heard = h]
          /\ seconds' = seconds /\ mic.state \in {"recording", "paused"}
      BY <1>4 DEF MicStop
    <2>2. d \in Nat /\ b \in BOOLEAN /\ h \in Nat /\ (~b => d = h)
      BY <1>typed, <2>1 DEF ClockRight
    <2> HIDE DEF d, b, h
    <2>3. /\ mic' \in MicRecord /\ mic'.state = "stopped" /\ mic'.startedAt = 0
          /\ mic'.duration = d /\ mic'.pausedStop = b /\ mic'.heard = h
      BY <2>1, <2>2, MicTypes DEF MicRecord
    <2> QED BY <1>typed, <2>1, <2>2, <2>3 DEF MicTyped, ClockRight, DurationExact
  <1>5. CASE MicRestart
    <2>1. mic' = MicIdle /\ seconds' = seconds
      BY <1>5 DEF MicRestart, MicStays
    <2> QED BY <1>typed, <2>1, MicTypes DEF MicTyped, ClockRight, DurationExact
  <1>6. CASE ClockMoves
    <2> DEFINE h == IF mic.state = "recording" THEN mic.heard + 1 ELSE mic.heard
    <2>1. /\ mic' = [mic EXCEPT !.heard = h] /\ seconds' = seconds + 1
          /\ mic.state \in {"recording", "paused"}
      BY <1>6 DEF ClockMoves
    <2>2. h \in Nat /\ (mic.state = "recording" => h = mic.heard + 1) /\ (mic.state = "paused" => h = mic.heard)
      BY <1>typed
    <2> HIDE DEF h
    <2>3. /\ mic' \in MicRecord /\ mic'.state = mic.state /\ mic'.startedAt = mic.startedAt
          /\ mic'.accum = mic.accum /\ mic'.heard = h
      BY <1>typed, <2>1, <2>2 DEF MicRecord
    <2> QED BY <1>typed, <2>1, <2>2, <2>3 DEF MicTyped, ClockRight, DurationExact
  <1>7. CASE \/ StartCapture \/ CaptureCreated \/ ResumeCapture \/ AskName
             \/ \E n \in Flows : \/ PhotoChosen(n) \/ LabelUploaded(n) \/ ManualConfirm(n) \/ PhotoFails(n)
                                \/ WineAnswerLost(n) \/ DraftAndTasting(n) \/ PhotoTriggers(n)
    BY <1>same, <1>7 DEF StartCapture, CaptureCreated, ResumeCapture, AskName, Begins, PhotoChosen,
               LabelUploaded, ManualConfirm, PhotoFails, WineAnswerLost, DraftAndTasting, PhotoTriggers, PageStays
  <1>8. ASSUME NEW n \in 1..MaxTurns, Register(n) \/ SendFails(n) \/ Stored(n) \/ SendTriggers(n)
        PROVE  UNCHANGED <<mic, seconds>>
    BY <1>8 DEF Register, SendFails, Stored, SendTriggers, SendStays
  <1>9. CASE UNCHANGED captureVars
    BY <1>same, <1>9 DEF captureVars
  <1> QED BY <1>same, <1>1, <1>2, <1>3, <1>4, <1>5, <1>6, <1>7, <1>8, <1>9 DEF CaptureNext

LEMMA CaptureBegins == CaptureInit => CaptureInv
  <1> SUFFICES ASSUME CaptureInit PROVE CaptureInv
    OBVIOUS
  <1>1. CaptureTyped
    <2>1. page \in PageRecord
      BY DEF CaptureInit, PageRecord
    <2>2. tastings \in [Captures -> TastingRecord]
      BY DEF CaptureInit, TastingRecord, NoTasting0
    <2>3. turns \in TurnRecord
      BY DEF CaptureInit, TurnRecord
    <2> QED BY <2>1, <2>2, <2>3, FlowTypes DEF CaptureInit, CaptureTyped
  <1>2. MicTyped /\ ClockRight /\ DurationExact
    BY MicTypes DEF CaptureInit, MicTyped, ClockRight, DurationExact
  <1>3. /\ NoSends /\ \A t \in Captures : tastings[t].takes = 0
        /\ \A n \in 1..MaxTurns : sends[n].pc = "off" /\ sends[n].capture = NoCapture
        /\ \A n \in Flows : photo[n].pc = "off" /\ photo[n].capture = NoCapture /\ photo[n].count = 0
    BY FlowTypes DEF CaptureInit, NoSends, NoTasting0
  <1>4. Untouched /\ Grounded
    BY <1>3, MicTypes DEF CaptureInit, Untouched, Grounded, IsThere, MicIdle
  <1>5. TurnTaken /\ FlowsAhead /\ Saving /\ BusyHeld /\ Quiet
    BY <1>3, MicTypes DEF CaptureInit, TurnTaken, FlowsAhead, Saving, BusyHeld, Quiet, Aware, Knows, Unfinished
  <1> QED BY <1>1, <1>2, <1>4, <1>5 DEF CaptureInv, SilenceInv

(* The steps of a run that sends a recording.                              *)
LEMMA SendingKeeps ==
    ASSUME SilenceInv, NEW n \in 1..MaxTurns, Register(n) \/ SendFails(n) \/ Stored(n) \/ SendTriggers(n)
    PROVE  SilenceInv'
  <1> DEFINE t == sends[n].capture
  <1>1. /\ sends[n] \in SendRun /\ page \in PageRecord /\ sends[n].pc # "off" /\ CaptureTyped
        /\ UNCHANGED <<starting, photo, mic, seconds, turns>>
    BY DEF SilenceInv, CaptureTyped, Register, SendFails, Stored, SendTriggers, SendStays
  <1>2. /\ t \in Captures /\ t # NoCapture /\ tastings[t] \in TastingRecord /\ tastings[t].there
    BY <1>1 DEF SilenceInv, Grounded, IsThere, CaptureTyped, SendRun
  <1>3. MicTyped' /\ IsThere(tastings, mic'.capture)
    BY <1>1 DEF SilenceInv, MicTyped, Grounded
  <1>4. page.step2 # "idle"
    BY <1>1 DEF SilenceInv, Quiet, NoSends
  <1>5. page.capture \in Captures \union {NoCapture} /\ page.count + 1 \in Nat
    BY <1>1 DEF PageRecord
  <1>6. CASE Register(n)
    <2> DEFINE e == [sends[n] EXCEPT !.pc = "put"]
               g == [tastings[t] EXCEPT !.takes = @ + 1]
    <2>1. sends' = [sends EXCEPT ![n] = e] /\ page' = page
      BY <1>6 DEF Register
    <2>2. tastings' = [tastings EXCEPT ![t] = g]
      BY <1>6 DEF Register
    <2>3. e \in SendRun /\ e.pc = "put" /\ e.capture = t
      BY <1>1 DEF SendRun
    <2>4. g \in TastingRecord /\ g.there = tastings[t].there
      <3>1. tastings[t].takes + 1 \in Nat
        BY <1>2 DEF TastingRecord
      <3> QED BY <1>2, <3>1 DEF TastingRecord
    <2> HIDE DEF e, g, t
    <2>5. /\ tastings' \in [Captures -> TastingRecord] /\ tastings'[t] = g
          /\ \A u \in Captures \ {t} : tastings'[u] = tastings[u]
      BY <1>1, <1>2, <2>2, <2>4, TastingMoves
    <2>6. \A u \in Captures : tastings'[u].there = tastings[u].there /\
               (tastings[u].there \/ tastings'[u].takes = tastings[u].takes)
      BY <1>2, <2>4, <2>5
    <2> QED BY <1>1, <1>2, <1>3, <1>4, <2>1, <2>3, <2>5, <2>6, SendKeeps DEF t
  <1>7. CASE SendFails(n)
    <2>1. /\ sends' = [sends EXCEPT ![n] = NotRunning] /\ tastings' = tastings
          /\ page' = [page EXCEPT !.step2 = "error"]
      BY <1>7 DEF SendFails
    <2>2. page' \in PageRecord /\ page'.capture = page.capture /\ page'.step1 = page.step1 /\ page'.step2 = "error"
      BY <1>1, <2>1 DEF PageRecord
    <2>3. tastings' \in [Captures -> TastingRecord]
      BY <1>1, <2>1 DEF CaptureTyped
    <2> QED BY <1>1, <1>3, <2>1, <2>2, <2>3, FlowTypes, SendKeeps
  <1>8. CASE Stored(n)
    <2>1. tastings' \in [Captures -> TastingRecord] /\ tastings' = tastings
      BY <1>1, <1>8 DEF Stored, CaptureTyped
    <2>2. CASE sends[n].wine
      <3> DEFINE e == [sends[n] EXCEPT !.pc = "trigger"]
      <3>1. sends' = [sends EXCEPT ![n] = e] /\ page' = [page EXCEPT !.count = page.count + 1]
        BY <1>8, <2>2 DEF Stored
      <3>2. e \in SendRun /\ e.pc = "trigger" /\ e.capture = t
        BY <1>1 DEF SendRun
      <3>3. page' \in PageRecord /\ page'.capture = page.capture /\ page'.step1 = page.step1 /\ page'.step2 = page.step2
        BY <1>1, <1>5, <3>1 DEF PageRecord
      <3> HIDE DEF e
      <3> QED BY <1>1, <1>2, <1>3, <1>4, <2>1, <3>1, <3>2, <3>3, SendKeeps
    <2>3. CASE ~sends[n].wine
      <3>1. /\ sends' = [sends EXCEPT ![n] = NotRunning]
            /\ page' = [page EXCEPT !.count = page.count + 1, !.step2 = "done"]
        BY <1>8, <2>3 DEF Stored
      <3>2. page' \in PageRecord /\ page'.capture = page.capture /\ page'.step1 = page.step1 /\ page'.step2 = "done"
        BY <1>1, <1>5, <3>1 DEF PageRecord
      <3> QED BY <1>1, <1>3, <2>1, <3>1, <3>2, FlowTypes, SendKeeps
    <2> QED BY <2>2, <2>3
  <1>9. CASE SendTriggers(n)
    <2> PICK started \in BOOLEAN : tastings' = [tastings EXCEPT ![t].asked = @ \/ started]
      BY <1>9 DEF SendTriggers
    <2> DEFINE g == [tastings[t] EXCEPT !.asked = @ \/ started]
    <2>1. sends' = [sends EXCEPT ![n] = NotRunning] /\ page' = [page EXCEPT !.step2 = "done"]
      BY <1>9 DEF SendTriggers
    <2>2. tastings' = [tastings EXCEPT ![t] = g]
      OBVIOUS
    <2>3. g \in TastingRecord /\ g.there = tastings[t].there
      <3>1. (tastings[t].asked \/ started) \in BOOLEAN
        OBVIOUS
      <3> QED BY <1>2, <3>1 DEF TastingRecord
    <2>4. page' \in PageRecord /\ page'.capture = page.capture /\ page'.step1 = page.step1 /\ page'.step2 = "done"
      BY <1>1, <2>1 DEF PageRecord
    <2> HIDE DEF g, t
    <2>5. /\ tastings' \in [Captures -> TastingRecord] /\ tastings'[t] = g
          /\ \A u \in Captures \ {t} : tastings'[u] = tastings[u]
      BY <1>1, <1>2, <2>2, <2>3, TastingMoves
    <2>6. \A u \in Captures : tastings'[u].there = tastings[u].there /\
               (tastings[u].there \/ tastings'[u].takes = tastings[u].takes)
      BY <1>2, <2>3, <2>5
    <2> QED BY <1>1, <1>3, <2>1, <2>4, <2>5, <2>6, FlowTypes, SendKeeps
  <1> QED BY <1>6, <1>7, <1>8, <1>9

(* The recording is ended: it is sent, or the page says it is one too many.*)
LEMMA StopKeeps ==
    ASSUME SilenceInv, MicTyped', MicStop
    PROVE  SilenceInv'
  <1>1. /\ CaptureTyped /\ mic \in MicRecord /\ page \in PageRecord
        /\ mic.state \in {"recording", "paused"} /\ UNCHANGED <<starting, photo, tastings, seconds, turns>>
    BY DEF SilenceInv, CaptureTyped, MicTyped, MicStop
  <1>2. mic'.state = "stopped" /\ mic'.capture = NoCapture
    BY <1>1 DEF MicStop, MicIdle
  <1>3. /\ tastings' \in [Captures -> TastingRecord] /\ tastings' = tastings
        /\ IsThere(tastings, mic'.capture) /\ mic.capture # NoCapture /\ turns.mic \in 1..MaxTurns
    BY <1>1, <1>2 DEF SilenceInv, CaptureTyped, Grounded, IsThere, TurnTaken
  <1>4. CASE mic.count >= MaxTakesHere
    <2>1. page' = [page EXCEPT !.step2 = "error"] /\ UNCHANGED <<sends, starting, photo, tastings, turns>>
      BY <1>1, <1>4 DEF MicStop
    <2>2. page' \in PageRecord /\ page'.capture = page.capture /\ page'.step1 = page.step1 /\ page'.step2 = "error"
      BY <1>1, <2>1 DEF PageRecord
    <2>3. CaptureTyped'
      BY <1>1, <1>3, <2>1, <2>2 DEF CaptureTyped
    <2>4. Untouched' /\ TurnTaken' /\ FlowsAhead' /\ Saving' /\ BusyHeld' /\ Quiet'
      BY <1>1, <1>2, <2>1, <2>2 DEF SilenceInv, Untouched, TurnTaken, FlowsAhead, Saving, BusyHeld, Quiet
    <2>5. Grounded'
      BY <1>2, <1>3, <2>1, <2>2 DEF SilenceInv, Grounded, IsThere
    <2> QED BY <2>3, <2>4, <2>5 DEF SilenceInv
  <1>5. CASE ~(mic.count >= MaxTakesHere)
    <2> DEFINE e == [pc |-> "register", capture |-> mic.capture, wine |-> mic.wine]
    <2>1. page' = [page EXCEPT !.step2 = "saving"] /\ sends' = [sends EXCEPT ![turns.mic] = e]
      BY <1>5 DEF MicStop
    <2>2. e \in SendRun /\ e.pc = "register" /\ e.capture = mic.capture
      BY <1>1 DEF MicRecord, SendRun
    <2>3. page' \in PageRecord /\ page'.capture = page.capture /\ page'.step1 = page.step1 /\ page'.step2 = "saving"
      BY <1>1, <2>1 DEF PageRecord
    <2> HIDE DEF e
    <2> QED BY <1>1, <1>2, <1>3, <2>1, <2>2, <2>3, SendKeeps
  <1> QED BY <1>4, <1>5

LEMMA SilenceStep == SilenceInv /\ MicTyped' /\ [CaptureNext]_captureVars => SilenceInv'
  <1> SUFFICES ASSUME SilenceInv, MicTyped', [CaptureNext]_captureVars PROVE SilenceInv'
    OBVIOUS
  <1>typed. CaptureTyped /\ page \in PageRecord /\ mic \in MicRecord /\ turns \in TurnRecord
    BY DEF SilenceInv, CaptureTyped, MicTyped
  <1>1. CASE StartCapture \/ AskName
    BY <1>1, StartIsHeard, AskKeeps
  <1>2. CASE CaptureCreated
    BY <1>2, CreatedKeeps
  <1>3. CASE ResumeCapture
    BY <1>3, ResumedKeeps
  <1>4. ASSUME NEW n \in Flows, PhotoChosen(n) \/ ManualConfirm(n) PROVE SilenceInv'
    BY <1>4, BeginsKeeps DEF PhotoChosen, ManualConfirm
  <1>5. ASSUME NEW n \in Flows, LabelUploaded(n) PROVE SilenceInv'
    BY <1>5, UploadedKeeps
  <1>6. ASSUME NEW n \in Flows, PhotoFails(n) \/ WineAnswerLost(n) PROVE SilenceInv'
    BY <1>6, FailsKeep
  <1>7. ASSUME NEW n \in Flows, DraftAndTasting(n) PROVE SilenceInv'
    BY <1>7, WineKeeps
  <1>8. ASSUME NEW n \in Flows, PhotoTriggers(n) PROVE SilenceInv'
    BY <1>8, PhotoTriggersKeeps
  <1>9. CASE MicStart
    <2>1. /\ mic'.state = "recording" /\ mic'.capture = page.capture /\ page.capture # NoCapture
          /\ turns' = [turns EXCEPT !.mic = turns.mic + 1] /\ turns.mic < MaxTurns
          /\ UNCHANGED <<page, starting, photo, sends, tastings>>
      BY <1>9, MicTypes DEF MicStart, MicStays, MicIdle
    <2>2. turns' \in TurnRecord /\ turns'.photo = turns.photo /\ turns'.mic \in 1..MaxTurns
      <3>1. turns.mic + 1 \in Nat /\ turns.mic + 1 \in 1..MaxTurns
        BY <1>typed, <2>1, CaptureAssumption DEF CaptureAssumption, TurnRecord
      <3> QED BY <1>typed, <2>1, <3>1 DEF TurnRecord
    <2>3. IsThere(tastings, mic'.capture)
      BY <2>1 DEF SilenceInv, Grounded
    <2> QED BY <2>1, <2>2, <2>3, MicKeeps
  <1>10. CASE MicPause \/ MicResume \/ MicRestart \/ ClockMoves
    <2>1. UNCHANGED <<page, starting, photo, sends, tastings, turns>>
      BY <1>10 DEF MicPause, MicResume, MicRestart, ClockMoves, MicStays
    <2>2. \/ mic' = MicIdle
          \/ mic.state \in {"recording", "paused"} /\ mic'.capture = mic.capture
      BY <1>10, <1>typed DEF MicPause, MicResume, MicRestart, ClockMoves, MicRecord
    <2>3. IsThere(tastings, mic'.capture)
      BY <2>2 DEF SilenceInv, Grounded, IsThere, MicIdle
    <2>4. mic'.state \in {"recording", "paused"} => mic'.capture # NoCapture /\ turns.mic \in 1..MaxTurns
      BY <2>2, MicTypes DEF SilenceInv, Grounded, TurnTaken
    <2>5. page.capture = NoCapture => mic'.state = "idle"
      BY <2>2, MicTypes DEF SilenceInv, Untouched
    <2> QED BY <1>typed, <2>1, <2>3, <2>4, <2>5, MicKeeps
  <1>11. CASE MicStop
    BY <1>11, StopKeeps
  <1>12. CASE UNCHANGED captureVars
    BY <1>12, <1>typed DEF captureVars, SilenceInv, CaptureTyped, MicTyped, Untouched, Grounded, IsThere,
                           TurnTaken, FlowsAhead, Saving, BusyHeld, Quiet, Aware, Knows, Unfinished, Said, NoSends
  <1> QED BY <1>1, <1>2, <1>3, <1>4, <1>5, <1>6, <1>7, <1>8, <1>9, <1>10, <1>11, <1>12, SendingKeeps
          DEF CaptureNext

LEMMA CaptureHolds == CaptureSpec => []CaptureInv
  <1>1. CaptureInv /\ [CaptureNext]_captureVars => CaptureInv'
    <2> SUFFICES ASSUME CaptureInv, [CaptureNext]_captureVars PROVE CaptureInv'
      OBVIOUS
    <2>1. MicTyped' /\ ClockRight' /\ DurationExact'
      BY MicStep DEF CaptureInv, SilenceInv
    <2>2. SilenceInv'
      BY <2>1, SilenceStep DEF CaptureInv
    <2> QED BY <2>1, <2>2 DEF CaptureInv
  <1> QED BY <1>1, CaptureBegins, PTL DEF CaptureSpec

(* The duration the page reports of a recording that was ended while it    *)
(* ran is the time really recorded, over any number of pauses and for any  *)
(* clock (handlePause, handleResume and handleStop of AudioRecorder).      *)
THEOREM DurationIsExact == CaptureSpec => []DurationExact
  <1>1. CaptureInv => DurationExact
    BY DEF CaptureInv
  <1> QED BY <1>1, CaptureHolds, PTL

(* When all flows of the page rest, a tasting with its wine and a recording*)
(* has been asked for or the page says something, and the page waits only  *)
(* for a typed name whose call was lost, for any number of flows that run  *)
(* at once on the state of an old render (RecordCapture).                  *)
THEOREM NothingInSilence == CaptureSpec => []NothingSilent
  <1>1. CaptureInv => NothingSilent
    <2> SUFFICES ASSUME SilenceInv, Resting PROVE NothingSilent
      BY DEF CaptureInv, NothingSilent
    <2>1. NoSends /\ \A n \in Flows : photo[n].pc \in {"off", "hung"}
      BY DEF Resting, NoSends
    <2>2. page.step1 = "busy" => \E n \in Flows : photo[n].pc = "hung"
      BY <2>1 DEF SilenceInv, BusyHeld
    <2>3. ASSUME page.capture # NoCapture, tastings[page.capture].wine, tastings[page.capture].takes > 0,
                 page.step2 \notin {"done", "error"}
          PROVE  page.step1 \in {"told", "busy"}
      <3>1. page.step2 = "idle"
        BY <2>1, <2>3 DEF SilenceInv, CaptureTyped, PageRecord, Saving
      <3> QED BY <2>1, <2>3, <3>1 DEF SilenceInv, Quiet, Aware, Unfinished, Said
    <2> QED BY <2>2, <2>3 DEF NothingSilent
  <1> QED BY <1>1, CaptureHolds, PTL

(* Types: the server counts the recordings of a tasting itself.            *)
TakesCounted == \A t \in Captures : tastings[t].takes <= MaxTakesHere

LEMMA TakesStep == SilenceInv /\ TakesCounted /\ [CaptureNext]_captureVars => TakesCounted'
  <1> SUFFICES ASSUME SilenceInv, TakesCounted, [CaptureNext]_captureVars, NEW t \in Captures
               PROVE  tastings'[t].takes <= MaxTakesHere
    BY DEF TakesCounted
  <1>0. /\ tastings \in [Captures -> TastingRecord] /\ tastings[t] \in TastingRecord
        /\ tastings[t].takes <= MaxTakesHere /\ MaxTakesHere \in Nat \ {0}
    BY CaptureAssumption DEF SilenceInv, CaptureTyped, TakesCounted, CaptureAssumption
  <1>1. ASSUME UNCHANGED tastings PROVE tastings'[t].takes <= MaxTakesHere BY <1>0, <1>1
  <1>2. CASE CaptureCreated \/ \E n \in Flows : DraftAndTasting(n) \/ WineAnswerLost(n)
    <2>1. ASSUME NEW u, tastings' = [tastings EXCEPT ![u].there = TRUE] PROVE tastings'[t].takes = tastings[t].takes
      BY <1>0, <2>1 DEF TastingRecord
    <2>2. ASSUME NEW u, GetsWine(u) PROVE tastings'[t].takes = tastings[t].takes
      BY <1>0, <2>2 DEF TastingRecord, GetsWine
    <2>3. tastings' = tastings \/ tastings'[t].takes = tastings[t].takes
      BY <1>2, <2>1, <2>2 DEF CaptureCreated, DraftAndTasting, WineAnswerLost
    <2> QED BY <1>0, <2>3
  <1>3. CASE ResumeCapture BY <1>0, <1>3 DEF ResumeCapture
  <1>4. CASE \E n \in Flows : PhotoTriggers(n) BY <1>0, <1>4 DEF PhotoTriggers, TastingRecord
  <1>5. ASSUME NEW n \in 1..MaxTurns, SendTriggers(n) PROVE tastings'[t].takes <= MaxTakesHere
    BY <1>0, <1>5 DEF SendTriggers, TastingRecord
  <1>6. ASSUME NEW n \in 1..MaxTurns, Register(n) PROVE tastings'[t].takes <= MaxTakesHere
    BY <1>0, <1>6 DEF Register, TastingRecord
  <1> QED BY <1>1, <1>2, <1>3, <1>4, <1>5, <1>6
          DEF CaptureNext, StartCapture, Begins, PhotoChosen, LabelUploaded, AskName, ManualConfirm, PhotoFails, PageStays,
              MicStays, MicStart, MicPause, MicResume, MicStop, MicRestart, ClockMoves, SendFails, Stored,
              SendStays, captureVars

LEMMA CaptureTypes == CaptureSpec => []CaptureTypeOK
  <1>1. CaptureInit => TakesCounted
    BY CaptureAssumption DEF CaptureInit, NoTasting0, TakesCounted, CaptureAssumption
  <1>2. CaptureInv /\ TakesCounted => CaptureTypeOK
    <2> SUFFICES ASSUME CaptureInv, TakesCounted PROVE CaptureTypeOK OBVIOUS
    <2>1. CaptureTyped /\ MaxTakesHere \in Nat
      BY CaptureAssumption DEF CaptureInv, SilenceInv, CaptureAssumption
    <2>2. \A t \in Captures : tastings[t].takes \in 0..MaxTakesHere
      BY <2>1 DEF CaptureTyped, TastingRecord, TakesCounted
    <2> QED BY <2>1, <2>2 DEF CaptureTyped, PageRecord, CaptureTypeOK
  <1>3. CaptureInv => SilenceInv BY DEF CaptureInv
  <1> QED BY <1>1, <1>2, <1>3, TakesStep, CaptureHolds, PTL DEF CaptureSpec

=============================================================================
