-------------------------------- MODULE Edge --------------------------------
(***************************************************************************)
(* A tasting's public page behind the CDN: CloudFront keeps it             *)
(* (infrastructure/lib/web-stack.ts), the write routes invalidate it after *)
(* they have stored (lib/cache/invalidate.ts), and the editors' controls   *)
(* on it (FoodPhotos, ManualRatingControl, TastingEditControls) send the   *)
(* rev the page was rendered with.  A service call is one step here; its   *)
(* steps are Diary's.  The RSC payload of a soft navigation is a second    *)
(* response of the same kind under the same "/*" and left out.             *)
(***************************************************************************)
EXTENDS Integers, FiniteSets

CONSTANTS Viewers,                      \* browsers that show the page
          Pictures,                     \* keys of food photos
          PictureLimit,                 \* MAX_FOOD_PHOTOS
          MaxVersions,                  \* bound: writes stored
          MaxClicks                     \* bound: requests, the agent's included

ASSUME EdgeAssumption == {PictureLimit, MaxVersions, MaxClicks} \subseteq Nat

NoPicture == "no picture"
Nothing == [rev |-> -1, there |-> FALSE, pictures |-> {}]
Controls == {"photos", "rating", "erase"}      \* each has its own busy flag
Away == [at |-> "away", view |-> Nothing]
NoTask == [pc |-> "idle", op |-> "", picture |-> NoPicture, saw |-> Nothing, heard |-> FALSE]

VARIABLES current,                      \* META, with what the page shows of it
          edge,                         \* the response CloudFront holds, or Nothing
          purging,                      \* an invalidation is on its way
          publishing,                   \* persist_and_publish stands before its invalidation
          screen,                       \* Viewers -> the page shown
          task,                         \* Viewers -> control -> its request
          missed,                       \* history: a stale page was left to the TTL
          clicks                        \* history: requests made, a bound

edgeVars == <<current, edge, purging, publishing, screen, task, missed, clicks>>

Version == [rev : -1 .. MaxVersions, there : BOOLEAN, pictures : SUBSET Pictures]

EdgeTypeOK ==
    /\ current \in Version
    /\ edge \in Version
    /\ {purging, publishing, missed} \subseteq BOOLEAN /\ clicks \in 0 .. MaxClicks
    /\ screen \in [Viewers -> [at : {"away", "rendered", "shown"}, view : Version]]
    /\ task \in [Viewers -> [Controls ->
                   [pc : {"idle", "upload", "route", "invalidate", "ok", "conflict"},
                    op : {"", "add", "remove", "rate", "erase"},
                    picture : Pictures \cup {NoPicture}, saw : Version, heard : BOOLEAN]]]

EdgeInit ==
    /\ current = [rev |-> 0, there |-> TRUE, pictures |-> {}]
    /\ edge = Nothing
    /\ purging = FALSE /\ publishing = FALSE /\ missed = FALSE /\ clicks = 0
    /\ screen = [v \in Viewers |-> Away]
    /\ task = [v \in Viewers |-> [c \in Controls |-> NoTask]]

-----------------------------------------------------------------------------
(* Pages.                                                                  *)

Show(v, page) == screen' = [screen EXCEPT ![v] = page]

\* The requests the page has sent go on in their routes; what had not been sent, and
\* whoever waits for an answer, goes with the page.
Unheard(v) == task' = [task EXCEPT ![v] = [c \in Controls |->
                  IF @[c].pc \in {"route", "invalidate"} THEN [@[c] EXCEPT !.heard = FALSE]
                  ELSE NoTask]]

\* A page comes from the cache, or TastingDetailPage renders it from the table.
Fetch(v) == IF edge # Nothing THEN Show(v, [at |-> "shown", view |-> edge])
                             ELSE Show(v, [at |-> "rendered", view |-> current])
Visit(v) ==
    /\ screen[v].at \in {"away", "shown"}
    /\ Fetch(v) /\ Unheard(v)
    /\ UNCHANGED <<current, edge, purging, publishing, missed, clicks>>

\* The response passes the CDN, which keeps it however old it has become.
Deliver(v) ==
    /\ screen[v].at = "rendered"
    /\ Show(v, [screen[v] EXCEPT !.at = "shown"])
    /\ edge' = screen[v].view
    /\ missed' = (edge' # current)
    /\ UNCHANGED <<current, purging, publishing, task, clicks>>

\* The TTL ends.
TtlEnds == /\ edge # Nothing /\ edge' = Nothing
          /\ missed' = FALSE
          /\ UNCHANGED <<current, purging, publishing, screen, task, clicks>>

\* An invalidation of "/*" takes effect some time after it was created.
Purge == /\ purging /\ purging' = FALSE
         /\ edge' = Nothing
         /\ missed' = FALSE
         /\ UNCHANGED <<current, publishing, screen, task, clicks>>

\* createInvalidation is accepted, or fails.
CreateInvalidation == \/ purging' = TRUE /\ UNCHANGED missed
                      \/ missed' = (missed \/ edge # Nothing) /\ UNCHANGED purging

-----------------------------------------------------------------------------
(* The controls of the page.                                               *)

Click == clicks < MaxClicks /\ clicks' = clicks + 1
SetTask(v, c, t) == task' = [task EXCEPT ![v][c] = t]
\* Offered once EditorSessionProvider has heard that the browser has a session; the cached
\* page is the same for all.
Send(v, c, op, picture, pc) ==
    /\ screen[v].at = "shown" /\ screen[v].view.there
    /\ task[v][c] = NoTask /\ Click
    /\ SetTask(v, c, [pc |-> pc, op |-> op, picture |-> picture, saw |-> screen[v].view, heard |-> TRUE])
    /\ UNCHANGED <<current, edge, purging, publishing, screen, missed>>

\* FoodPhotos.handleFileSelected: presign, PUT to the bucket, then register.
AddPicture(v, p) ==
    /\ Cardinality(screen[v].view.pictures) < PictureLimit
    /\ \A w \in Viewers : task[w]["photos"].picture # p      \* a key is made for each upload
    /\ p \notin current.pictures \cup edge.pictures
    /\ \A w \in Viewers : p \notin screen[w].view.pictures
    /\ Send(v, "photos", "add", p, "upload")
UploadPicture(v) ==
    /\ task[v]["photos"].pc = "upload"
    /\ \/ SetTask(v, "photos", [task[v]["photos"] EXCEPT !.pc = "route"])
       \/ SetTask(v, "photos", NoTask)                       \* refused, too large, no network
    /\ UNCHANGED <<current, edge, purging, publishing, screen, missed, clicks>>

\* FoodPhotos.handleDelete, ManualRatingControl.save, TastingEditControls.
RemovePicture(v, p) == p \in screen[v].view.pictures /\ Send(v, "photos", "remove", p, "route")
RatePage(v) == Send(v, "rating", "rate", NoPicture, "route")
ErasePage(v) == Send(v, "erase", "erase", NoPicture, "route")

-----------------------------------------------------------------------------
(* The routes.                                                             *)

Asked(v, c) == task[v][c]
Idle(v, c, pc) == [NoTask EXCEPT !.pc = pc, !.heard = Asked(v, c).heard]
Respond(v, c, pc) == SetTask(v, c, IF Asked(v, c).heard THEN Idle(v, c, pc) ELSE NoTask)
SeenAnyhow(v, c) == current.there        \* mutant: the rev is not compared
Seen(v, c) == current.there /\ Asked(v, c).saw.rev = current.rev

\* PATCH and DELETE /api/tastings/[id]/food-photos, PATCH /api/tastings/[id]; the last
\* photo stays, since its removal patches undefined.
Wanted(v, c) ==
    LET t == Asked(v, c)
        left == current.pictures \ {t.picture}
    IN  CASE t.op = "add" -> [current EXCEPT !.pictures = @ \cup {t.picture}, !.rev = @ + 1]
          [] t.op = "remove" -> [current EXCEPT !.pictures = IF left = {} THEN @ ELSE left, !.rev = @ + 1]
          [] t.op = "rate" -> [current EXCEPT !.rev = @ + 1]
          [] OTHER -> current

StoreKeeps(v, c) ==                     \* mutant: the route does not invalidate
    /\ Asked(v, c).pc = "route" /\ Asked(v, c).op # "erase"
    /\ Seen(v, c) /\ current.rev < MaxVersions
    /\ Asked(v, c).op = "add" => Cardinality(current.pictures) < PictureLimit
    /\ current' = Wanted(v, c)
    /\ Respond(v, c, "ok")
    /\ UNCHANGED <<edge, purging, publishing, screen, missed, clicks>>
Store(v, c) ==
    /\ Asked(v, c).pc = "route" /\ Asked(v, c).op # "erase"
    /\ Seen(v, c) /\ current.rev < MaxVersions
    /\ Asked(v, c).op = "add" => Cardinality(current.pictures) < PictureLimit
    /\ current' = Wanted(v, c)
    /\ SetTask(v, c, Idle(v, c, "invalidate"))
    /\ UNCHANGED <<edge, purging, publishing, screen, missed, clicks>>

\* 404, 409 and the limit: nothing is stored or invalidated.
Reject(v, c) ==
    /\ Asked(v, c).pc = "route"
    /\ \/ ~current.there
       \/ Asked(v, c).op # "erase" /\ ~Seen(v, c)
       \/ Asked(v, c).op = "add" /\ Cardinality(current.pictures) >= PictureLimit
    /\ Respond(v, c, "conflict")
    /\ UNCHANGED <<current, edge, purging, publishing, screen, missed, clicks>>

\* DELETE /api/tastings/[id] compares no rev.
Erase(v) ==
    /\ Asked(v, "erase").pc = "route" /\ current.there
    /\ current' = [current EXCEPT !.there = FALSE]
    /\ SetTask(v, "erase", Idle(v, "erase", "invalidate"))
    /\ UNCHANGED <<edge, purging, publishing, screen, missed, clicks>>

\* invalidateCache: what fails here is swallowed, the write stands.
Invalidate(v, c) ==
    /\ Asked(v, c).pc = "invalidate"
    /\ CreateInvalidation
    /\ Respond(v, c, "ok")
    /\ UNCHANGED <<current, edge, publishing, screen, clicks>>

\* POST /api/tastings/[id]/wine: a new version without an invalidation.
AttachSilently ==
    /\ current.there /\ current.rev < MaxVersions /\ Click
    /\ current' = [current EXCEPT !.rev = @ + 1]
    /\ missed' = (missed \/ edge # Nothing)
    /\ UNCHANGED <<edge, purging, publishing, screen, task>>

\* persist_and_publish: the lifecycle, then the invalidation, which may fail the node.
PublishPage ==
    /\ current.there /\ current.rev < MaxVersions /\ ~publishing /\ Click
    /\ current' = [current EXCEPT !.rev = @ + 1]
    /\ publishing' = TRUE
    /\ UNCHANGED <<edge, purging, screen, task, missed>>
PublishInvalidate ==
    /\ publishing /\ publishing' = FALSE
    /\ CreateInvalidation
    /\ UNCHANGED <<current, edge, screen, task, clicks>>

\* On ok the page is loaded again (after a deletion, the list); otherwise, and when
\* the answer is lost, it says so and stays.
Heard(v, c) ==
    /\ Asked(v, c).pc \in {"ok", "conflict"}
    /\ \/ SetTask(v, c, NoTask) /\ UNCHANGED screen
       \/ /\ Asked(v, c).pc = "ok" /\ Unheard(v)
          /\ IF c = "erase" THEN Show(v, Away) ELSE Fetch(v)
    /\ UNCHANGED <<current, edge, purging, publishing, missed, clicks>>

EdgeNext ==
    \/ \E v \in Viewers :
          \/ Visit(v) \/ Deliver(v)
          \/ \E p \in Pictures : AddPicture(v, p) \/ RemovePicture(v, p)
          \/ UploadPicture(v) \/ RatePage(v) \/ ErasePage(v) \/ Erase(v)
          \/ \E c \in Controls : Store(v, c) \/ Reject(v, c) \/ Invalidate(v, c) \/ Heard(v, c)
    \/ TtlEnds \/ Purge \/ AttachSilently \/ PublishPage \/ PublishInvalidate

EdgeSpec == EdgeInit /\ [][EdgeNext]_edgeVars

-----------------------------------------------------------------------------
\* What the CDN holds is the current version, unless an invalidation is on its way or
\* still to be created, or the one that would have removed it failed, is not made by
\* the route, or came before a response that was rendered earlier.
PagesFresh ==
    edge \notin {Nothing, current} =>
       \/ purging \/ publishing \/ missed
       \/ \E v \in Viewers, c \in Controls : task[v][c].pc = "invalidate"

\* However old the page the CDN gave, a rating or photo that is current follows the
\* version that page showed.
SavesOverSeen ==
    [][\A v \in Viewers, c \in Controls \ {"erase"} :
          task[v][c].pc = "route" /\ task'[v][c].pc = "invalidate"
             => task[v][c].saw = current]_edgeVars

=============================================================================
