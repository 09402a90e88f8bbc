----------------------------- MODULE ReadProofs -----------------------------
(***************************************************************************)
(* Theorems about what readers are given: the pages the CDN keeps and the  *)
(* saves made from them (Edge), proved for every number of viewers,        *)
(* pictures, writes and requests; the lists, scans and bundles a call      *)
(* reads page by page while others write (Table); what the pages and the   *)
(* calculations say of the same tastings (Pages); what they make of any    *)
(* hierarchy of regions (RegionTree).                                      *)
(***************************************************************************)
EXTENDS Edge, Table, Pages, RegionTree, FiniteSetTheorems, SequenceTheorems, TLAPS

-----------------------------------------------------------------------------
(* Every page somebody has, the CDN, a browser or a request, is a version  *)
(* the tasting had: it is no newer, and of its rev there was one content.  *)

(* A page of the current rev shows what is current, unless it is the       *)
(* placeholder of no page or the tasting was deleted since.                *)
VersionOf(view, now) ==
    /\ view.rev <= now.rev
    /\ view.there /\ now.there /\ view.rev = now.rev => view = now

PagesRemembered ==
    /\ VersionOf(edge, current)
    /\ \A v \in Viewers : VersionOf(screen[v].view, current)
    /\ \A v \in Viewers, c \in Controls : VersionOf(task[v][c].saw, current)

(* A request under way names a page that showed the tasting.               *)
SentFromPage ==
    \A v \in Viewers, c \in Controls :
        task[v][c].pc \in {"upload", "route"} => task[v][c].saw.there

Page == [at : {"away", "rendered", "shown"}, view : Version]
Request == {t \in [pc : {"idle", "upload", "route", "invalidate", "ok", "conflict"},
                   op : {"", "add", "remove", "rate", "erase"},
                   picture : Pictures \cup {NoPicture}, saw : Version, heard : BOOLEAN] :
                t.op = "add" => t.picture \in Pictures}

EdgeInv ==
    /\ EdgeTypeOK
    /\ task \in [Viewers -> [Controls -> Request]]
    /\ current.rev >= 0
    /\ PagesRemembered
    /\ SentFromPage
    /\ PagesFresh

(* What becomes of a stored version: a later one, or it is deleted.        *)
Later(now, next) ==
    \/ next = now
    \/ next.rev > now.rev
    \/ next.rev = now.rev /\ ~next.there

LEMMA Placeholders ==
    /\ Nothing \in Version /\ Away \in Page /\ Away.view = Nothing
    /\ NoTask \in Request /\ NoTask.saw = Nothing /\ NoTask.pc = "idle"
  <1>1. Nothing \in Version
    BY EdgeAssumption DEF Nothing, Version, EdgeAssumption
  <1> QED BY <1>1 DEF Away, Page, NoTask, Request, NoPicture

(* What is a version of the tasting stays one.                             *)
LEMMA StaysVersion ==
    ASSUME NEW now \in Version, NEW next \in Version, now.rev >= 0, Later(now, next),
           NEW view \in Version, VersionOf(view, now) \/ view \in {Nothing, now}
    PROVE  VersionOf(view, next)
  <1>1. VersionOf(Nothing, now) /\ VersionOf(now, now)
    BY DEF VersionOf, Nothing, Version
  <1>2. VersionOf(view, now)
    BY <1>1
  <1> QED BY <1>2 DEF VersionOf, Later, Version

(* A step keeps the invariant if every page is handed on as it was, what   *)
(* is stored becomes a later version, and the CDN's copy is accounted for. *)
LEMMA EdgeFrame ==
    ASSUME EdgeInv,
           current' \in Version, Later(current, current'), current'.rev >= 0,
           edge' \in {edge, Nothing} \cup {screen[v].view : v \in Viewers},
           screen' \in [Viewers -> Page],
           \A v \in Viewers : screen'[v].view \in {Nothing, current, edge, screen[v].view},
           task' \in [Viewers -> [Controls -> Request]],
           \A v \in Viewers, c \in Controls :
               /\ task'[v][c].saw \in {Nothing, task[v][c].saw, screen[v].view}
               /\ task'[v][c].pc \in {"upload", "route"} => task'[v][c].saw.there,
           {purging', publishing', missed'} \subseteq BOOLEAN, clicks' \in 0 .. MaxClicks,
           PagesFresh'
    PROVE  EdgeInv'
  <1>1. /\ current \in Version /\ edge \in Version /\ Nothing \in Version /\ current.rev >= 0
        /\ \A v \in Viewers : screen[v].view \in Version
        /\ \A v \in Viewers, c \in Controls : task[v][c].saw \in Version
    <2>1. /\ current \in Version /\ edge \in Version /\ current.rev >= 0
          /\ screen \in [Viewers -> [at : {"away", "rendered", "shown"}, view : Version]]
      BY DEF EdgeInv, EdgeTypeOK
    <2>2. \A v \in Viewers, c \in Controls : task[v][c] \in Request
      BY DEF EdgeInv
    <2>3. \A v \in Viewers, c \in Controls : task[v][c].saw \in Version
      BY ONLY <2>2 DEF Request
    <2>4. \A v \in Viewers : screen[v].view \in Version
      BY ONLY <2>1
    <2> QED BY <2>1, <2>3, <2>4, Placeholders
  <1>2. /\ VersionOf(edge, current)
        /\ \A v \in Viewers : VersionOf(screen[v].view, current)
        /\ \A v \in Viewers, c \in Controls : VersionOf(task[v][c].saw, current)
    BY DEF EdgeInv, PagesRemembered
  <1>3. VersionOf(edge', current') /\ edge' \in Version
    BY <1>1, <1>2, StaysVersion
  <1>4. ASSUME NEW v \in Viewers PROVE VersionOf(screen'[v].view, current')
    BY <1>1, <1>2, StaysVersion
  <1>5. ASSUME NEW v \in Viewers, NEW c \in Controls PROVE VersionOf(task'[v][c].saw, current')
    BY <1>1, <1>2, StaysVersion
  <1>6. PagesRemembered' /\ SentFromPage'
    BY <1>3, <1>4, <1>5 DEF PagesRemembered, SentFromPage
  <1>7. EdgeTypeOK'
    <2> DEFINE R == [pc : {"idle", "upload", "route", "invalidate", "ok", "conflict"},
                     op : {"", "add", "remove", "rate", "erase"},
                     picture : Pictures \cup {NoPicture}, saw : Version, heard : BOOLEAN]
    <2>1. Request \subseteq R
      BY DEF Request
    <2> HIDE DEF R
    <2>2. task' \in [Viewers -> [Controls -> R]]
      BY <2>1
    <2> USE DEF R
    <2> QED BY <1>3, <2>2 DEF EdgeTypeOK, Page
  <1> QED BY <1>6, <1>7 DEF EdgeInv

(* One request becomes another.                                            *)
LEMMA TaskSet ==
    ASSUME EdgeInv, NEW v \in Viewers, NEW c \in Controls, NEW t \in Request, SetTask(v, c, t)
    PROVE  /\ task' \in [Viewers -> [Controls -> Request]]
           /\ \A w \in Viewers, d \in Controls :
                  task'[w][d] = IF w = v /\ d = c THEN t ELSE task[w][d]
  <1>1. task \in [Viewers -> [Controls -> Request]]
    BY DEF EdgeInv
  <1> QED BY <1>1 DEF SetTask

(* The requests of a page that goes: those in their routes go on, and with *)
(* them the invalidations still to be created.                             *)
LEMMA TasksUnheard ==
    ASSUME EdgeInv, NEW v \in Viewers, Unheard(v)
    PROVE  /\ task' \in [Viewers -> [Controls -> Request]]
           /\ \A w \in Viewers, d \in Controls :
                 \/ task'[w][d] = NoTask /\ task[w][d].pc \notin {"route", "invalidate"}
                 \/ task'[w][d].saw = task[w][d].saw /\ task'[w][d].pc = task[w][d].pc
  <1>1. task \in [Viewers -> [Controls -> Request]]
    BY DEF EdgeInv
  <1> DEFINE quiet(d) == IF task[v][d].pc \in {"route", "invalidate"}
                         THEN [task[v][d] EXCEPT !.heard = FALSE] ELSE NoTask
  <1>2. task' = [task EXCEPT ![v] = [d \in Controls |-> quiet(d)]]
    BY DEF Unheard
  <1>3. ASSUME NEW d \in Controls
        PROVE  /\ quiet(d) \in Request
               /\ \/ quiet(d) = NoTask /\ task[v][d].pc \notin {"route", "invalidate"}
                  \/ quiet(d).saw = task[v][d].saw /\ quiet(d).pc = task[v][d].pc
    <2>1. task[v][d] \in Request
      BY <1>1
    <2> QED BY <2>1, Placeholders DEF Request
  <1> HIDE DEF quiet
  <1>4. [d \in Controls |-> quiet(d)] \in [Controls -> Request]
    BY <1>3
  <1>5. task' \in [Viewers -> [Controls -> Request]]
    BY <1>1, <1>2, <1>4
  <1>6. ASSUME NEW w \in Viewers, NEW d \in Controls
        PROVE  task'[w][d] = IF w = v THEN quiet(d) ELSE task[w][d]
    BY <1>1, <1>2
  <1> QED BY <1>3, <1>5, <1>6

(* A step that changes no version and drops no invalidation keeps the      *)
(* account of the CDN's copy.                                              *)
LEMMA FreshKept ==
    ASSUME EdgeInv, UNCHANGED <<current, edge, purging, publishing, missed>>,
           \A v \in Viewers, c \in Controls :
               task[v][c].pc = "invalidate" => task'[v][c].pc = "invalidate"
    PROVE  PagesFresh'
  BY DEF EdgeInv, PagesFresh

(* What every step starts from.                                            *)
LEMMA EdgeFacts ==
    ASSUME EdgeInv
    PROVE  /\ current \in Version /\ edge \in Version /\ current.rev \in Nat
           /\ screen \in [Viewers -> Page] /\ task \in [Viewers -> [Controls -> Request]]
           /\ {purging, publishing, missed} \subseteq BOOLEAN /\ clicks \in 0 .. MaxClicks
           /\ \A v \in Viewers, c \in Controls :
                 task[v][c].pc \in {"upload", "route"} => task[v][c].saw.there
           /\ Later(current, current)
  <1>1. current \in Version /\ current.rev >= 0
    BY DEF EdgeInv, EdgeTypeOK
  <1>2. current.rev \in Nat
    BY <1>1, EdgeAssumption DEF Version, EdgeAssumption
  <1> QED BY <1>1, <1>2 DEF EdgeInv, EdgeTypeOK, Page, SentFromPage, Later

LEMMA Fetched ==
    ASSUME EdgeInv, NEW v \in Viewers, Fetch(v)
    PROVE  /\ screen' \in [Viewers -> Page]
           /\ \A w \in Viewers : screen'[w].view \in {Nothing, current, edge, screen[w].view}
  <1>1. current \in Version /\ edge \in Version /\ screen \in [Viewers -> Page]
    BY EdgeFacts
  <1>2. CASE Show(v, [at |-> "shown", view |-> edge])
    <2>1. [at |-> "shown", view |-> edge] \in Page
      BY <1>1 DEF Page
    <2> QED BY <1>1, <1>2, <2>1 DEF Show
  <1>3. CASE Show(v, [at |-> "rendered", view |-> current])
    <2>1. [at |-> "rendered", view |-> current] \in Page
      BY <1>1 DEF Page
    <2> QED BY <1>1, <1>3, <2>1 DEF Show
  <1> QED BY <1>2, <1>3 DEF Fetch

-----------------------------------------------------------------------------
(* Pages.                                                                  *)

LEMMA VisitStep == ASSUME EdgeInv, NEW v \in Viewers, Visit(v) PROVE EdgeInv'
  <1>1. UNCHANGED <<current, edge, purging, publishing, missed, clicks>> /\ Fetch(v) /\ Unheard(v)
    BY DEF Visit
  <1>2. /\ task' \in [Viewers -> [Controls -> Request]]
        /\ \A w \in Viewers, d \in Controls :
              \/ task'[w][d] = NoTask /\ task[w][d].pc \notin {"route", "invalidate"}
              \/ task'[w][d].saw = task[w][d].saw /\ task'[w][d].pc = task[w][d].pc
    BY <1>1, TasksUnheard
  <1>3. PagesFresh'
    BY <1>1, <1>2, FreshKept
  <1>4. \A w \in Viewers, d \in Controls :
           /\ task'[w][d].saw \in {Nothing, task[w][d].saw, screen[w].view}
           /\ task'[w][d].pc \in {"upload", "route"} => task'[w][d].saw.there
    BY <1>2, EdgeFacts, Placeholders
  <1> QED BY <1>1, <1>2, <1>3, <1>4, Fetched, EdgeFacts, EdgeFrame

LEMMA DeliverStep == ASSUME EdgeInv, NEW v \in Viewers, Deliver(v) PROVE EdgeInv'
  <1>1. /\ UNCHANGED <<current, purging, publishing, task, clicks>>
        /\ edge' = screen[v].view /\ missed' = (edge' # current)
        /\ screen' = [screen EXCEPT ![v] = [screen[v] EXCEPT !.at = "shown"]]
    BY DEF Deliver, Show
  <1>2. screen \in [Viewers -> Page] /\ screen[v] \in Page
    BY EdgeFacts
  <1>3. [screen[v] EXCEPT !.at = "shown"] \in Page
    BY <1>2 DEF Page
  <1>4. /\ screen' \in [Viewers -> Page]
        /\ \A w \in Viewers : screen'[w].view = screen[w].view
    BY <1>1, <1>2, <1>3 DEF Page
  <1>5. PagesFresh'
    BY <1>1 DEF PagesFresh
  <1>6. missed' \in BOOLEAN
    BY <1>1
  <1> QED BY <1>1, <1>4, <1>5, <1>6, EdgeFacts, EdgeFrame

(* The CDN drops its copy: what it holds then is no page.                  *)
LEMMA DropStep == ASSUME EdgeInv, TtlEnds \/ Purge PROVE EdgeInv'
  <1>1. /\ UNCHANGED <<current, publishing, screen, task, clicks>>
        /\ edge' = Nothing /\ missed' \in BOOLEAN /\ purging' \in BOOLEAN
    BY EdgeFacts DEF TtlEnds, Purge
  <1>2. PagesFresh'
    BY <1>1 DEF PagesFresh
  <1> QED BY <1>1, <1>2, EdgeFacts, EdgeFrame

-----------------------------------------------------------------------------
(* Controls.                                                               *)

(* A request moves on, with the page it was sent from or without one, and  *)
(* nothing else changes.                                                   *)
LEMMA TaskStep ==
    ASSUME EdgeInv, NEW v \in Viewers, NEW c \in Controls, NEW t \in Request, SetTask(v, c, t),
           task[v][c].pc # "invalidate",
           t.saw \in {Nothing, task[v][c].saw, screen[v].view},
           t.pc \in {"upload", "route"} => t.saw.there,
           clicks' \in 0 .. MaxClicks,
           UNCHANGED <<current, edge, purging, publishing, screen, missed>>
    PROVE  EdgeInv'
  <1>1. /\ task' \in [Viewers -> [Controls -> Request]]
        /\ \A w \in Viewers, d \in Controls :
              task'[w][d] = IF w = v /\ d = c THEN t ELSE task[w][d]
    BY TaskSet
  <1>2. PagesFresh'
    BY <1>1, FreshKept
  <1>3. \A w \in Viewers, d \in Controls :
           /\ task'[w][d].saw \in {Nothing, task[w][d].saw, screen[w].view}
           /\ task'[w][d].pc \in {"upload", "route"} => task'[w][d].saw.there
    BY <1>1, EdgeFacts
  <1> QED BY <1>1, <1>2, <1>3, EdgeFacts, EdgeFrame

LEMMA SendStep ==
    ASSUME EdgeInv, NEW v \in Viewers, NEW c \in Controls, NEW op \in {"add", "remove", "rate", "erase"},
           NEW picture \in Pictures \cup {NoPicture}, NEW pc \in {"upload", "route"},
           op = "add" => picture \in Pictures, Send(v, c, op, picture, pc)
    PROVE  EdgeInv'
  <1> DEFINE t == [pc |-> pc, op |-> op, picture |-> picture, saw |-> screen[v].view, heard |-> TRUE]
  <1>1. /\ screen[v].view.there /\ task[v][c] = NoTask /\ SetTask(v, c, t)
        /\ clicks < MaxClicks /\ clicks' = clicks + 1
        /\ UNCHANGED <<current, edge, purging, publishing, screen, missed>>
    BY DEF Send, Click
  <1>2. screen[v].view \in Version
    BY EdgeFacts DEF Page
  <1>3. t \in Request /\ t.saw = screen[v].view /\ t.pc = pc
    BY <1>2 DEF Request
  <1>4. clicks' \in 0 .. MaxClicks
    BY <1>1, EdgeFacts, EdgeAssumption DEF EdgeAssumption
  <1>5. task[v][c].pc # "invalidate"
    BY <1>1, Placeholders
  <1> HIDE DEF t
  <1> QED BY <1>1, <1>3, <1>4, <1>5, TaskStep

LEMMA ControlStep ==
    ASSUME EdgeInv, NEW v \in Viewers,
           \/ \E p \in Pictures : AddPicture(v, p) \/ RemovePicture(v, p)
           \/ RatePage(v) \/ ErasePage(v)
    PROVE  EdgeInv'
  <1>1. PICK c \in Controls, op \in {"add", "remove", "rate", "erase"},
             picture \in Pictures \cup {NoPicture}, pc \in {"upload", "route"} :
                Send(v, c, op, picture, pc) /\ (op = "add" => picture \in Pictures)
    BY DEF AddPicture, RemovePicture, RatePage, ErasePage, Controls
  <1> QED BY <1>1, SendStep

LEMMA UploadPictureStep == ASSUME EdgeInv, NEW v \in Viewers, UploadPicture(v) PROVE EdgeInv'
  <1>1. /\ task[v]["photos"].pc = "upload" /\ "photos" \in Controls
        /\ UNCHANGED <<current, edge, purging, publishing, screen, missed, clicks>>
    BY DEF UploadPicture, Controls
  <1>2. task[v]["photos"] \in Request /\ task[v]["photos"].saw.there
    BY <1>1, EdgeFacts
  <1> DEFINE t == [task[v]["photos"] EXCEPT !.pc = "route"]
  <1>3. t \in Request /\ t.saw = task[v]["photos"].saw
    BY <1>2 DEF Request
  <1>4. NoTask \in Request /\ NoTask.saw = Nothing /\ NoTask.pc = "idle"
    BY Placeholders
  <1>5. SetTask(v, "photos", t) \/ SetTask(v, "photos", NoTask)
    BY DEF UploadPicture
  <1> HIDE DEF t
  <1>6. CASE SetTask(v, "photos", t)
    BY <1>1, <1>2, <1>3, <1>6, EdgeFacts, TaskStep
  <1>7. CASE SetTask(v, "photos", NoTask)
    BY <1>1, <1>4, <1>7, EdgeFacts, TaskStep
  <1> QED BY <1>5, <1>6, <1>7

-----------------------------------------------------------------------------
(* Routes.                                                                 *)

LEMMA Answers ==
    ASSUME EdgeInv, NEW v \in Viewers, NEW c \in Controls, NEW pc \in {"invalidate", "ok", "conflict"}
    PROVE  Idle(v, c, pc) \in Request /\ Idle(v, c, pc).saw = Nothing /\ Idle(v, c, pc).pc = pc
  <1>1. Asked(v, c) \in Request /\ NoTask \in Request
    BY EdgeFacts, Placeholders DEF Asked
  <1>2. Asked(v, c).heard \in BOOLEAN
    BY <1>1 DEF Request
  <1> QED BY <1>1, <1>2, Placeholders DEF Idle, Request

(* An answered request names no page any more.                             *)
LEMMA Responded ==
    ASSUME EdgeInv, NEW v \in Viewers, NEW c \in Controls, NEW pc \in {"ok", "conflict"}, Respond(v, c, pc)
    PROVE  \E t \in Request : SetTask(v, c, t) /\ t.saw = Nothing /\ t.pc \in {"idle", pc}
  <1>1. CASE Asked(v, c).heard
    BY <1>1, Answers DEF Respond
  <1>2. CASE ~Asked(v, c).heard
    BY <1>2, Placeholders DEF Respond
  <1> QED BY <1>1, <1>2

LEMMA NextVersion ==
    ASSUME EdgeInv, current.rev < MaxVersions
    PROVE  /\ [current EXCEPT !.rev = @ + 1] \in Version
           /\ Later(current, [current EXCEPT !.rev = @ + 1])
           /\ [current EXCEPT !.rev = @ + 1].rev >= 0
  <1>1. current \in Version /\ current.rev \in Nat /\ current.rev + 1 \in -1 .. MaxVersions
    BY EdgeFacts, EdgeAssumption DEF EdgeAssumption
  <1>2. [current EXCEPT !.rev = @ + 1] \in Version /\ [current EXCEPT !.rev = @ + 1].rev = current.rev + 1
    BY <1>1 DEF Version
  <1> QED BY <1>1, <1>2 DEF Later

(* What a route stores is a later version.                                 *)
LEMMA WantedLater ==
    ASSUME EdgeInv, NEW v \in Viewers, NEW c \in Controls, current.rev < MaxVersions
    PROVE  Wanted(v, c) \in Version /\ Later(current, Wanted(v, c)) /\ Wanted(v, c).rev >= 0
  <1>1. /\ current \in Version /\ current.rev \in Nat /\ task[v][c] \in Request
        /\ current.rev + 1 \in -1 .. MaxVersions
    BY EdgeFacts, EdgeAssumption DEF EdgeAssumption
  <1> DEFINE left == current.pictures \ {task[v][c].picture}
  <1>3. CASE task[v][c].op = "add"
    <2>1. current.pictures \cup {task[v][c].picture} \in SUBSET Pictures
      BY <1>1, <1>3 DEF Request, Version
    <2>2. Wanted(v, c) = [current EXCEPT !.pictures = current.pictures \cup {task[v][c].picture},
                                         !.rev = current.rev + 1]
      BY <1>3 DEF Wanted, Asked
    <2>3. Wanted(v, c) \in Version /\ Wanted(v, c).rev = current.rev + 1
      BY <1>1, <2>1, <2>2 DEF Version
    <2> QED BY <1>1, <2>3 DEF Later
  <1>4. CASE task[v][c].op = "remove"
    <2> DEFINE rest == IF left = {} THEN current.pictures ELSE left
    <2>1. rest \in SUBSET Pictures
      BY <1>1 DEF Version
    <2>2. Wanted(v, c) = [current EXCEPT !.pictures = rest, !.rev = current.rev + 1]
      BY <1>4 DEF Wanted, Asked
    <2> HIDE DEF rest
    <2>3. Wanted(v, c) \in Version /\ Wanted(v, c).rev = current.rev + 1
      BY <1>1, <2>1, <2>2 DEF Version
    <2> QED BY <1>1, <2>3 DEF Later
  <1>5. CASE task[v][c].op = "rate"
    <2>1. Wanted(v, c) = [current EXCEPT !.rev = @ + 1]
      BY <1>5 DEF Wanted, Asked
    <2> QED BY <2>1, NextVersion
  <1>6. CASE task[v][c].op \notin {"add", "remove", "rate"}
    <2>1. Wanted(v, c) = current
      BY <1>6 DEF Wanted, Asked
    <2> QED BY <1>1, <2>1 DEF Later
  <1> QED BY <1>3, <1>4, <1>5, <1>6

(* A route has stored: its invalidation is still to be created.            *)
LEMMA StoredStep ==
    ASSUME EdgeInv, NEW v \in Viewers, NEW c \in Controls,
           current' \in Version, Later(current, current'), current'.rev >= 0,
           SetTask(v, c, Idle(v, c, "invalidate")),
           UNCHANGED <<edge, purging, publishing, screen, missed, clicks>>
    PROVE  EdgeInv'
  <1> DEFINE t == Idle(v, c, "invalidate")
  <1>1. t \in Request /\ t.saw = Nothing /\ t.pc = "invalidate" /\ SetTask(v, c, t)
    BY Answers
  <1> HIDE DEF t
  <1>2. /\ task' \in [Viewers -> [Controls -> Request]]
        /\ \A w \in Viewers, d \in Controls :
              task'[w][d] = IF w = v /\ d = c THEN t ELSE task[w][d]
    BY <1>1, TaskSet
  <1>3. PagesFresh'
    BY <1>1, <1>2 DEF PagesFresh
  <1>4. \A w \in Viewers, d \in Controls :
           /\ task'[w][d].saw \in {Nothing, task[w][d].saw, screen[w].view}
           /\ task'[w][d].pc \in {"upload", "route"} => task'[w][d].saw.there
    BY <1>1, <1>2, EdgeFacts
  <1> QED BY <1>2, <1>3, <1>4, EdgeFacts, EdgeFrame

LEMMA StoreStep == ASSUME EdgeInv, NEW v \in Viewers, NEW c \in Controls, Store(v, c) PROVE EdgeInv'
  BY WantedLater, StoredStep DEF Store

LEMMA EraseStep == ASSUME EdgeInv, NEW v \in Viewers, Erase(v) PROVE EdgeInv'
  <1>1. current \in Version /\ current.rev >= 0 /\ "erase" \in Controls
    BY EdgeFacts DEF Controls
  <1>2. current' = [current EXCEPT !.there = FALSE]
    BY DEF Erase
  <1>3. current' \in Version /\ current'.rev = current.rev /\ ~current'.there
    BY <1>1, <1>2 DEF Version
  <1> QED BY <1>1, <1>3, StoredStep DEF Erase, Later

LEMMA RejectStep == ASSUME EdgeInv, NEW v \in Viewers, NEW c \in Controls, Reject(v, c) PROVE EdgeInv'
  <1>1. /\ task[v][c].pc = "route" /\ Respond(v, c, "conflict")
        /\ UNCHANGED <<current, edge, purging, publishing, screen, missed, clicks>>
    BY DEF Reject, Asked
  <1>2. PICK t \in Request : SetTask(v, c, t) /\ t.saw = Nothing /\ t.pc \in {"idle", "conflict"}
    BY <1>1, Responded
  <1> QED BY <1>1, <1>2, EdgeFacts, TaskStep

(* An invalidation is accepted, or the copy it would have removed is left. *)
LEMMA CreatedFresh ==
    ASSUME EdgeInv, CreateInvalidation, edge' = edge
    PROVE  /\ {purging', missed'} \subseteq BOOLEAN
           /\ edge \notin {Nothing, current} => purging' \/ missed'
  BY EdgeFacts DEF CreateInvalidation

LEMMA InvalidateStep ==
    ASSUME EdgeInv, NEW v \in Viewers, NEW c \in Controls, Invalidate(v, c) PROVE EdgeInv'
  <1>1. /\ CreateInvalidation /\ Respond(v, c, "ok")
        /\ UNCHANGED <<current, edge, publishing, screen, clicks>>
    BY DEF Invalidate
  <1>2. PICK t \in Request : SetTask(v, c, t) /\ t.saw = Nothing /\ t.pc \in {"idle", "ok"}
    BY <1>1, Responded
  <1>3. /\ task' \in [Viewers -> [Controls -> Request]]
        /\ \A w \in Viewers, d \in Controls :
              task'[w][d] = IF w = v /\ d = c THEN t ELSE task[w][d]
    BY <1>2, TaskSet
  <1>4. \A w \in Viewers, d \in Controls :
           /\ task'[w][d].saw \in {Nothing, task[w][d].saw, screen[w].view}
           /\ task'[w][d].pc \in {"upload", "route"} => task'[w][d].saw.there
    BY <1>2, <1>3, EdgeFacts
  <1>5. {purging', missed'} \subseteq BOOLEAN /\ PagesFresh'
    BY <1>1, CreatedFresh DEF PagesFresh
  <1> QED BY <1>1, <1>3, <1>4, <1>5, EdgeFacts, EdgeFrame

LEMMA AgentStep ==
    ASSUME EdgeInv, AttachSilently \/ PublishPage \/ PublishInvalidate
    PROVE  EdgeInv'
  <1>1. /\ edge' = edge /\ UNCHANGED <<screen, task>>
        /\ \A w \in Viewers, d \in Controls :
             /\ task'[w][d].saw \in {Nothing, task[w][d].saw, screen[w].view}
             /\ task'[w][d].pc \in {"upload", "route"} => task'[w][d].saw.there
    BY EdgeFacts DEF AttachSilently, PublishPage, PublishInvalidate
  <1>2. CASE AttachSilently \/ PublishPage
    <2>1. current.rev < MaxVersions /\ current' = [current EXCEPT !.rev = @ + 1] /\ UNCHANGED purging
      BY <1>2 DEF AttachSilently, PublishPage
    <2>2. clicks' \in 0 .. MaxClicks
      BY <1>2, EdgeFacts, EdgeAssumption DEF AttachSilently, PublishPage, Click, EdgeAssumption
    <2>3. {publishing', missed'} \subseteq BOOLEAN /\ (edge = Nothing \/ publishing' \/ missed')
      BY <1>2, EdgeFacts DEF AttachSilently, PublishPage
    <2>4. PagesFresh'
      BY <1>1, <2>3 DEF PagesFresh
    <2>5. current' \in Version /\ Later(current, current') /\ current'.rev >= 0
      BY <2>1, NextVersion
    <2> QED BY <1>1, <2>1, <2>2, <2>3, <2>4, <2>5, EdgeFacts, EdgeFrame
  <1>3. CASE PublishInvalidate
    <2>1. UNCHANGED <<current, clicks>> /\ publishing' = FALSE /\ CreateInvalidation
      BY <1>3 DEF PublishInvalidate
    <2>2. {purging', missed'} \subseteq BOOLEAN /\ (edge \notin {Nothing, current} => purging' \/ missed')
      BY <1>1, <2>1, CreatedFresh
    <2>3. edge' = edge /\ current' = current
      BY <1>1, <2>1
    <2>4. PagesFresh'
      BY <2>2, <2>3 DEF PagesFresh
    <2>5. {purging', publishing', missed'} \subseteq BOOLEAN
      BY <2>1, <2>2
    <2> QED BY <1>1, <2>1, <2>4, <2>5, EdgeFacts, EdgeFrame
  <1> QED BY <1>2, <1>3

LEMMA HeardStep == ASSUME EdgeInv, NEW v \in Viewers, NEW c \in Controls, Heard(v, c) PROVE EdgeInv'
  <1>1. /\ task[v][c].pc \in {"ok", "conflict"}
        /\ UNCHANGED <<current, edge, purging, publishing, missed, clicks>>
    BY DEF Heard, Asked
  <1>2. CASE SetTask(v, c, NoTask) /\ UNCHANGED screen
    BY <1>1, <1>2, Placeholders, EdgeFacts, TaskStep
  <1>3. CASE Unheard(v) /\ (Show(v, Away) \/ Fetch(v))
    <2>1. /\ task' \in [Viewers -> [Controls -> Request]]
          /\ \A w \in Viewers, d \in Controls :
                \/ task'[w][d] = NoTask /\ task[w][d].pc \notin {"route", "invalidate"}
                \/ task'[w][d].saw = task[w][d].saw /\ task'[w][d].pc = task[w][d].pc
      BY <1>3, TasksUnheard
    <2>2. PagesFresh'
      BY <1>1, <2>1, FreshKept
    <2>3. \A w \in Viewers, d \in Controls :
             /\ task'[w][d].saw \in {Nothing, task[w][d].saw, screen[w].view}
             /\ task'[w][d].pc \in {"upload", "route"} => task'[w][d].saw.there
      BY <2>1, EdgeFacts, Placeholders
    <2>4. /\ screen' \in [Viewers -> Page]
          /\ \A w \in Viewers : screen'[w].view \in {Nothing, current, edge, screen[w].view}
      BY <1>3, Fetched, Placeholders, EdgeFacts DEF Show
    <2> QED BY <1>1, <2>1, <2>2, <2>3, <2>4, EdgeFacts, EdgeFrame
  <1> QED BY <1>2, <1>3 DEF Heard

-----------------------------------------------------------------------------
(* The theorems.                                                           *)

LEMMA EdgeStart == EdgeInit => EdgeInv
  <1> SUFFICES ASSUME EdgeInit PROVE EdgeInv
    OBVIOUS
  <1>1. /\ current \in Version /\ current.rev = 0 /\ edge = Nothing /\ Nothing \in Version
        /\ Nothing.rev = -1 /\ ~Nothing.there
        /\ clicks \in 0 .. MaxClicks /\ purging = FALSE /\ publishing = FALSE /\ missed = FALSE
    BY EdgeAssumption, Placeholders DEF EdgeInit, EdgeAssumption, Version, Nothing
  <1>2. /\ screen \in [Viewers -> Page] /\ \A v \in Viewers : screen[v].view = Nothing
        /\ task \in [Viewers -> [Controls -> Request]]
        /\ \A v \in Viewers, c \in Controls : task[v][c].saw = Nothing /\ task[v][c].pc = "idle"
    BY Placeholders DEF EdgeInit
  <1>3. EdgeTypeOK
    <2> DEFINE R == [pc : {"idle", "upload", "route", "invalidate", "ok", "conflict"},
                     op : {"", "add", "remove", "rate", "erase"},
                     picture : Pictures \cup {NoPicture}, saw : Version, heard : BOOLEAN]
    <2>1. Request \subseteq R
      BY DEF Request
    <2> HIDE DEF R
    <2>2. task \in [Viewers -> [Controls -> R]]
      BY <1>2, <2>1
    <2> USE DEF R
    <2> QED BY <1>1, <1>2, <2>2 DEF EdgeTypeOK, Page
  <1>4. PagesRemembered
    BY <1>1, <1>2 DEF PagesRemembered, VersionOf
  <1>5. SentFromPage /\ PagesFresh
    BY <1>1, <1>2 DEF SentFromPage, PagesFresh
  <1> QED BY <1>1, <1>2, <1>3, <1>4, <1>5 DEF EdgeInv

LEMMA EdgeStep == EdgeInv /\ [EdgeNext]_edgeVars => EdgeInv'
  <1> SUFFICES ASSUME EdgeInv, [EdgeNext]_edgeVars PROVE EdgeInv'
    OBVIOUS
  <1>1. ASSUME NEW v \in Viewers, Visit(v) \/ Deliver(v) \/ UploadPicture(v) \/ Erase(v)
        PROVE  EdgeInv'
    BY <1>1, VisitStep, DeliverStep, UploadPictureStep, EraseStep
  <1>2. ASSUME NEW v \in Viewers,
               \/ \E p \in Pictures : AddPicture(v, p) \/ RemovePicture(v, p)
               \/ RatePage(v) \/ ErasePage(v)
        PROVE  EdgeInv'
    BY <1>2, ControlStep
  <1>3. ASSUME NEW v \in Viewers, NEW c \in Controls,
               Store(v, c) \/ Reject(v, c) \/ Invalidate(v, c) \/ Heard(v, c)
        PROVE  EdgeInv'
    BY <1>3, StoreStep, RejectStep, InvalidateStep, HeardStep
  <1>4. ASSUME TtlEnds \/ Purge \/ AttachSilently \/ PublishPage \/ PublishInvalidate
        PROVE  EdgeInv'
    BY <1>4, DropStep, AgentStep
  <1>5. CASE UNCHANGED edgeVars
    BY <1>5 DEF edgeVars, EdgeInv, EdgeTypeOK, PagesRemembered, SentFromPage, PagesFresh, VersionOf
  <1> QED BY <1>1, <1>2, <1>3, <1>4, <1>5 DEF EdgeNext

LEMMA EdgeAlways == EdgeSpec => []EdgeInv
  BY EdgeStart, EdgeStep, PTL DEF EdgeSpec

LEMMA EdgeTypes == EdgeSpec => []EdgeTypeOK
  <1>1. EdgeInv => EdgeTypeOK BY DEF EdgeInv
  <1> QED BY <1>1, EdgeAlways, PTL

(* Whatever the CDN holds is the current version of the tasting, or its    *)
(* invalidation is on its way, still to be created, or one of those the    *)
(* code gives up (invalidateCache, persist_and_publish and the route that  *)
(* attaches a wine); for any number of viewers and writes.                 *)
THEOREM PagesStayFresh == EdgeSpec => []PagesFresh
  <1>1. EdgeInv => PagesFresh
    BY DEF EdgeInv
  <1> QED BY <1>1, EdgeAlways, PTL

(* A rating or photo that a route stores follows the very version the page *)
(* showed, however old that page was (the rev that FoodPhotos and          *)
(* ManualRatingControl send is compared by patchTasting).                  *)
THEOREM SavesFollow == EdgeSpec => SavesOverSeen
  <1> DEFINE Ok == \A v \in Viewers, c \in Controls \ {"erase"} :
                       task[v][c].pc = "route" /\ task'[v][c].pc = "invalidate"
                          => task[v][c].saw = current
  <1>1. EdgeInv /\ [EdgeNext]_edgeVars => [Ok]_edgeVars
    <2> SUFFICES ASSUME EdgeInv, EdgeNext, NEW v \in Viewers, NEW c \in Controls \ {"erase"},
                        task[v][c].pc = "route", task'[v][c].pc = "invalidate"
                 PROVE  task[v][c].saw = current
      OBVIOUS
    <2> c \in Controls
      OBVIOUS
    <2>1. Store(v, c)
      <3>1. ASSUME NEW w \in Viewers, NEW d \in Controls, NEW t \in Request, SetTask(w, d, t),
                   task[w][d].pc # "route" \/ t.pc # "invalidate"
            PROVE  FALSE
        BY <3>1, TaskSet
      <3>2. ASSUME NEW w \in Viewers, Unheard(w) PROVE FALSE
        BY <3>2, TasksUnheard, Placeholders
      <3>3. ~UNCHANGED task
        OBVIOUS
      <3>4. ASSUME NEW w \in Viewers, NEW p \in {"upload", "route"}, NEW d \in Controls,
                   NEW op \in {"add", "remove", "rate", "erase"}, NEW q \in Pictures \cup {NoPicture},
                   op = "add" => q \in Pictures, Send(w, d, op, q, p)
            PROVE  FALSE
        <4>1. task[w][d] = NoTask /\ SetTask(w, d, [pc |-> p, op |-> op, picture |-> q,
                                                   saw |-> screen[w].view, heard |-> TRUE])
          BY <3>4 DEF Send
        <4>2. [pc |-> p, op |-> op, picture |-> q, saw |-> screen[w].view, heard |-> TRUE] \in Request
          BY <3>4, EdgeFacts DEF Request, Page
        <4> QED BY <3>1, <4>1, <4>2, Placeholders
      <3>5. ASSUME NEW w \in Viewers, NEW d \in Controls, Reject(w, d) \/ Invalidate(w, d) PROVE FALSE
        <4>1. PICK pc \in {"ok", "conflict"} : Respond(w, d, pc)
          BY <3>5 DEF Reject, Invalidate
        <4>2. PICK t \in Request : SetTask(w, d, t) /\ t.pc \in {"idle", pc}
          BY <4>1, Responded
        <4> QED BY <3>1, <4>1, <4>2
      <3>6. ASSUME NEW w \in Viewers, UploadPicture(w) PROVE FALSE
        <4>1. task[w]["photos"].pc = "upload" /\ "photos" \in Controls
          BY <3>6 DEF UploadPicture, Controls
        <4>2. task[w]["photos"] \in Request
          BY <4>1, EdgeFacts
        <4>3. [task[w]["photos"] EXCEPT !.pc = "route"] \in Request
          BY <4>2 DEF Request
        <4> QED BY <3>1, <3>6, <4>1, <4>3, Placeholders DEF UploadPicture
      <3>7. ASSUME NEW w \in Viewers, NEW d \in Controls, Heard(w, d) PROVE FALSE
        <4>1. task[w][d].pc \in {"ok", "conflict"}
          BY <3>7 DEF Heard, Asked
        <4> QED BY <3>1, <3>2, <3>7, <4>1, Placeholders DEF Heard
      <3>8. ASSUME NEW w \in Viewers, Erase(w) PROVE FALSE
        <4>1. SetTask(w, "erase", Idle(w, "erase", "invalidate")) /\ "erase" \in Controls
          BY <3>8 DEF Erase, Controls
        <4>2. Idle(w, "erase", "invalidate") \in Request
          BY <4>1, Answers
        <4> QED BY <4>1, <4>2, TaskSet
      <3>9. ASSUME NEW w \in Viewers, NEW d \in Controls, Store(w, d), ~(w = v /\ d = c) PROVE FALSE
        <4>1. SetTask(w, d, Idle(w, d, "invalidate")) /\ Idle(w, d, "invalidate") \in Request
          BY <3>9, Answers DEF Store
        <4> QED BY <3>9, <4>1, TaskSet
      <3>10. ASSUME NEW w \in Viewers,
                    \/ \E p \in Pictures : AddPicture(w, p) \/ RemovePicture(w, p)
                    \/ RatePage(w) \/ ErasePage(w)
             PROVE  FALSE
        BY <3>4, <3>10 DEF AddPicture, RemovePicture, RatePage, ErasePage, Controls
      <3>11. ASSUME NEW w \in Viewers, Visit(w) \/ Deliver(w) PROVE FALSE
        BY <3>2, <3>3, <3>11 DEF Visit, Deliver
      <3>12. ~(TtlEnds \/ Purge \/ AttachSilently \/ PublishPage \/ PublishInvalidate)
        BY <3>3 DEF TtlEnds, Purge, AttachSilently, PublishPage, PublishInvalidate
      <3> QED BY <3>5, <3>6, <3>7, <3>8, <3>9, <3>10, <3>11, <3>12 DEF EdgeNext
    <2>2. current.there /\ task[v][c].saw.rev = current.rev /\ task[v][c].saw.there
      BY <2>1, EdgeFacts DEF Store, Seen, Asked
    <2> QED BY <2>2 DEF EdgeInv, PagesRemembered, VersionOf
  <1>2. SavesOverSeen <=> [][Ok]_edgeVars
    BY DEF SavesOverSeen
  <1> HIDE DEF Ok
  <1> QED BY <1>1, <1>2, EdgeAlways, PTL DEF EdgeSpec

-----------------------------------------------------------------------------
(* A call that reads goes on behind its cursor, and whatever is written    *)
(* meanwhile leaves an item of a list at the index key it had: what was    *)
(* read lies behind the cursor, and what was there all the time was either *)
(* read or lies ahead.                                                     *)

RowItem == [shape : {"gone", "unborn", "v1", "v2", "half", "count"},
         mark : Marks \cup {0}, slot : Marks \cup {NoSlot}]
Points == Int \X Int
Entry == [key : Rows, item : RowItem, after : SUBSET Points]
Reading == [op : {"none", "asc", "desc", "scan", "bundle"}, kind : ListedKinds \cup {""},
            number : Numbers \cup {0}, cursor : SUBSET Points, got : SUBSET Entry,
            steady : SUBSET Rows, done : BOOLEAN]
Lists == {"asc", "desc"}

(* Only a job's index update leaves half an item, and only the rate        *)
(* limiter counts: nothing else lies in the table that does not parse.     *)
FitsKind(k, item) == /\ item.shape = "half" => Kind(k) = "JOB"
                     /\ item.shape = "count" => Kind(k) = "RATE"

(* An entry was there when it was read, at a place the cursor has passed;  *)
(* an entry of a list is at its index key still, or deleted for good.      *)
Passed(e) ==
    /\ e.item.shape \notin {"gone", "unborn"} /\ FitsKind(e.key, e.item)
    /\ read.op \in Lists =>
          /\ Kind(e.key) = read.kind
          /\ table[e.key].shape # "gone" => There(e.key) /\ table[e.key].slot = e.item.slot
    /\ \E p \in read.cursor :
          p = Place(e.key, e.item.slot) \/ Before(Place(e.key, e.item.slot), p)

Named(k) == \E e \in read.got : e.key = k
Waits(k) == ~read.done /\ \A p \in read.cursor : Before(p, Position(k))

NamedOnce == \A e, f \in read.got : e.key = f.key => e = f

TableInv ==
    /\ TableTypeOK
    /\ read \in Reading
    /\ read.op \in Lists => read.kind \in ListedKinds
    /\ \A k \in Rows : FitsKind(k, table[k])
    /\ \A e \in read.got : Passed(e)
    /\ \A k \in read.steady : Reached(k) /\ (Named(k) \/ Waits(k))
    /\ NamedOnce

LEMMA RowKinds ==
    ASSUME NEW k \in Rows
    PROVE  /\ Kind(k) \in {"WINE", "WINERY", "REGION", "TASTING", "DISCOVERY",
                           "ANALYSIS", "JOB", "RECORDING", "RATE"}
           /\ Number(k) \in Numbers /\ Number(k) \in Int
           /\ k = <<Kind(k), Number(k)>>
           /\ Kind(k) \in {"ANALYSIS", "JOB", "RECORDING", "RATE"} => Kind(k) \notin ListedKinds
  <1>1. ASSUME NEW S, NEW T, k \in S \X T
        PROVE  k[1] \in S /\ k[2] \in T /\ k = <<k[1], k[2]>>
    BY <1>1
  <1>2. CASE k \in ListedKinds \X Numbers
    <2>1. k[1] \in ListedKinds /\ k[2] \in Numbers /\ k = <<k[1], k[2]>>
      BY <1>1, <1>2
    <2> QED BY <2>1, TableAssumption DEF TableAssumption, Kind, Number
  <1>3. CASE k \in (ChildKinds \cup {"RATE"}) \X Bundled
    <2>1. k[1] \in ChildKinds \cup {"RATE"} /\ k[2] \in Bundled /\ k = <<k[1], k[2]>>
      BY <1>1, <1>3
    <2>2. k[1] \in {"ANALYSIS", "JOB", "RECORDING", "RATE"}
      BY <2>1 DEF ChildKinds
    <2> QED BY <2>1, <2>2, TableAssumption DEF TableAssumption, Kind, Number
  <1> QED BY <1>2, <1>3 DEF Rows

LEMMA RowsFinite == IsFiniteSet(Rows)
  <1>1. IsFiniteSet(ListedKinds)
    <2>1. IsFiniteSet({"WINE", "WINERY", "REGION", "TASTING", "DISCOVERY"})
      <3>1. IsFiniteSet({}) BY FS_EmptySet
      <3>2. IsFiniteSet({} \cup {"WINE"}) BY <3>1, FS_AddElement
      <3>3. IsFiniteSet(({} \cup {"WINE"}) \cup {"WINERY"}) BY <3>2, FS_AddElement
      <3>4. IsFiniteSet((({} \cup {"WINE"}) \cup {"WINERY"}) \cup {"REGION"}) BY <3>3, FS_AddElement
      <3>5. IsFiniteSet(((({} \cup {"WINE"}) \cup {"WINERY"}) \cup {"REGION"}) \cup {"TASTING"})
        BY <3>4, FS_AddElement
      <3>6. IsFiniteSet((((({} \cup {"WINE"}) \cup {"WINERY"}) \cup {"REGION"}) \cup {"TASTING"})
                           \cup {"DISCOVERY"})
        BY <3>5, FS_AddElement
      <3>7. {"WINE", "WINERY", "REGION", "TASTING", "DISCOVERY"}
              = (((({} \cup {"WINE"}) \cup {"WINERY"}) \cup {"REGION"}) \cup {"TASTING"})
                   \cup {"DISCOVERY"}
        OBVIOUS
      <3> QED BY <3>6, <3>7
    <2> QED BY <2>1, FS_Subset, TableAssumption DEF TableAssumption
  <1>2. IsFiniteSet(ChildKinds \cup {"RATE"})
    <2>1. IsFiniteSet({}) BY FS_EmptySet
    <2>2. IsFiniteSet({} \cup {"ANALYSIS"}) BY <2>1, FS_AddElement
    <2>3. IsFiniteSet(({} \cup {"ANALYSIS"}) \cup {"JOB"}) BY <2>2, FS_AddElement
    <2>4. IsFiniteSet((({} \cup {"ANALYSIS"}) \cup {"JOB"}) \cup {"RECORDING"}) BY <2>3, FS_AddElement
    <2>5. IsFiniteSet(((({} \cup {"ANALYSIS"}) \cup {"JOB"}) \cup {"RECORDING"}) \cup {"RATE"})
      BY <2>4, FS_AddElement
    <2>6. ChildKinds \cup {"RATE"} = ((({} \cup {"ANALYSIS"}) \cup {"JOB"}) \cup {"RECORDING"}) \cup {"RATE"}
      BY DEF ChildKinds
    <2> QED BY <2>5, <2>6
  <1>3. IsFiniteSet(Numbers) /\ IsFiniteSet(Bundled)
    BY FS_Subset, TableAssumption DEF TableAssumption
  <1>4. IsFiniteSet(ListedKinds \X Numbers) /\ IsFiniteSet((ChildKinds \cup {"RATE"}) \X Bundled)
    BY <1>1, <1>2, <1>3, FS_Product
  <1> QED BY <1>4, FS_Union DEF Rows

LEMMA BeforeOrders ==
    ASSUME NEW p \in Points, NEW q \in Points, NEW r \in Points
    PROVE  /\ ~Before(p, p)
           /\ Before(p, q) /\ Before(q, r) => Before(p, r)
           /\ p = q \/ Before(p, q) \/ Before(q, p)
  <1>1. p = <<p[1], p[2]>> /\ q = <<q[1], q[2]>>
    BY DEF Points
  <1>2. p[1] \in Int /\ p[2] \in Int /\ q[1] \in Int /\ q[2] \in Int /\ r[1] \in Int /\ r[2] \in Int
    BY DEF Points
  <1> QED BY <1>1, <1>2 DEF Before

LEMMA PlaceType ==
    ASSUME NEW k \in Rows, NEW slot \in Marks \cup {NoSlot}
    PROVE  Place(k, slot) \in Points
  <1>1. Number(k) \in Int /\ slot \in Int
    BY RowKinds, TableAssumption DEF TableAssumption, NoSlot
  <1>2. Rank(Kind(k)) \in Int
    BY RowKinds DEF Rank
  <1> QED BY <1>1, <1>2 DEF Place, Points

(* Two rows a call ranges over lie at different places.                    *)
LEMMA PlacesDiffer ==
    ASSUME read.op # "none", NEW k \in Rows, NEW l \in Rows,
           NEW s \in Marks \cup {NoSlot}, NEW t \in Marks \cup {NoSlot},
           read.op \in Lists => Kind(k) = Kind(l), Place(k, s) = Place(l, t)
    PROVE  k = l
  <1>1. Number(k) \in Int /\ Number(l) \in Int /\ k = <<Kind(k), Number(k)>> /\ l = <<Kind(l), Number(l)>>
    BY RowKinds
  <1>2. CASE read.op \in Lists
    BY <1>1, <1>2 DEF Place, Lists
  <1>3. CASE read.op \notin Lists
    <2>1. Number(k) = Number(l) /\ Rank(Kind(k)) = Rank(Kind(l))
      BY <1>3 DEF Place, Lists
    <2>2. Kind(k) = Kind(l)
      BY <2>1, RowKinds DEF Rank
    <2> QED BY <1>1, <2>1, <2>2
  <1> QED BY <1>2, <1>3

LEMMA PositionType ==
    ASSUME TableInv, NEW k \in Rows
    PROVE  Position(k) \in Points /\ table[k] \in RowItem
  BY PlaceType DEF Position, TableInv, TableTypeOK, RowItem

(* A page is a first part of what lies ahead.                              *)
LEMMA PageFirst ==
    ASSUME TableInv, read.op # "none", NEW k \in NextPage, NEW l \in Ahead \ NextPage
    PROVE  Before(Position(k), Position(l))
  <1> DEFINE Earlier(x) == {y \in Ahead : Before(Position(y), Position(x))}
  <1>1. k \in Ahead /\ k \in Rows /\ l \in Rows /\ Reached(k) /\ Reached(l) /\ k # l
    BY DEF Ahead, NextPage
  <1>2. Position(k) \in Points /\ Position(l) \in Points /\ \A y \in Ahead : Position(y) \in Points
    BY <1>1, PositionType DEF Ahead
  <1>3. Position(k) # Position(l)
    <2>1. read.op \in Lists => Kind(k) = Kind(l)
      BY <1>1 DEF Reached, InRange, Lists
    <2>2. table[k].slot \in Marks \cup {NoSlot} /\ table[l].slot \in Marks \cup {NoSlot}
      BY <1>1, PositionType DEF RowItem
    <2> QED BY <1>1, <2>1, <2>2, PlacesDiffer DEF Position
  <1>4. ASSUME Before(Position(l), Position(k)) PROVE FALSE
    <2>1. Earlier(l) \subseteq Earlier(k)
      BY <1>2, <1>4, BeforeOrders
    <2>2. IsFiniteSet(Earlier(k))
      BY RowsFinite, FS_Subset DEF Ahead
    <2>3. Cardinality(Earlier(l)) <= Cardinality(Earlier(k)) /\ IsFiniteSet(Earlier(l))
      BY <2>1, <2>2, FS_Subset
    <2>4. Cardinality(Earlier(l)) \in Nat /\ Cardinality(Earlier(k)) \in Nat
      BY <2>2, <2>3, FS_CardinalityType
    <2>5. Cardinality(Earlier(k)) < PageItems /\ ~(Cardinality(Earlier(l)) < PageItems)
      BY DEF NextPage
    <2> QED BY <2>3, <2>4, <2>5, TableAssumption DEF TableAssumption
  <1> QED BY <1>2, <1>3, <1>4, BeforeOrders

(* What a write may do: an item of a list keeps its index key until it is  *)
(* deleted, and a deleted one does not return.                             *)
KeepsPlace(k) ==
    Kind(k) \in ListedKinds =>
       /\ table[k].shape = "gone" => table'[k].shape = "gone"
       /\ There(k) /\ table'[k].shape # "gone" =>
             /\ table'[k].shape # "unborn" /\ table'[k].slot = table[k].slot

LEMMA WriteKeeps ==
    ASSUME TableInv, TableTypeOK', NEW S \in SUBSET read.steady, read' = [read EXCEPT !.steady = S],
           \A k \in Rows : FitsKind(k, table'[k]) /\ KeepsPlace(k),
           \A k \in S : There(k) => table'[k].shape \notin {"gone", "unborn"}
    PROVE  TableInv'
  <1> read \in Reading /\ read.steady \subseteq Rows
    BY DEF TableInv, TableTypeOK
  <1>1. read' \in Reading /\ read'.op = read.op /\ read'.kind = read.kind /\ read'.number = read.number
           /\ read'.cursor = read.cursor /\ read'.got = read.got /\ read'.done = read.done
           /\ read'.steady = S
    BY DEF Reading
  <1>2. ASSUME NEW k, NEW s PROVE Place(k, s)' = Place(k, s)
    BY <1>1 DEF Place
  <1>3. ASSUME NEW e \in read'.got PROVE Passed(e)'
    <2>1. Passed(e) /\ e.key \in Rows
      BY <1>1 DEF TableInv, TableTypeOK
    <2>2. ASSUME read.op \in Lists, table'[e.key].shape # "gone"
          PROVE  There(e.key)' /\ table'[e.key].slot = e.item.slot
      <3>1. Kind(e.key) \in ListedKinds
        BY <2>1, <2>2 DEF Passed, TableInv
      <3> QED BY <2>1, <2>2, <3>1 DEF KeepsPlace, Passed, There
    <2> QED BY <1>1, <1>2, <2>1, <2>2 DEF Passed, There
  <1>4. ASSUME NEW k \in S PROVE Reached(k)' /\ (Named(k)' \/ Waits(k)')
    <2>1. k \in Rows /\ Reached(k) /\ (Named(k) \/ Waits(k)) /\ There(k)
      BY DEF TableInv, Reached, InRange
    <2>2. table'[k].shape \notin {"gone", "unborn"}
      BY <2>1
    <2>3. read.op \in Lists => table'[k].slot = table[k].slot
      BY <2>1, <2>2 DEF Reached, InRange, KeepsPlace, Lists, TableInv
    <2>4. Reached(k)'
      BY <1>1, <2>1, <2>2, <2>3 DEF Reached, InRange, Lists, There
    <2>5. Position(k)' = Position(k)
      BY <1>1, <2>3 DEF Position, Place, Lists
    <2> QED BY <1>1, <2>1, <2>4, <2>5 DEF Named, Waits
  <1>5. NamedOnce'
    BY <1>1 DEF TableInv, NamedOnce
  <1> QED BY <1>1, <1>3, <1>4, <1>5 DEF TableInv

(* The writes.                                                             *)
LEMMA RowSet ==
    ASSUME TableInv, NEW k \in Rows, NEW item \in RowItem, SetRow(k, item),
           FitsKind(k, item),
           Kind(k) \in ListedKinds =>
              /\ table[k].shape # "gone"
              /\ item.shape # "gone" => item.shape # "unborn" /\ (There(k) => item.slot = table[k].slot),
           changes' \in 0 .. MaxChanges, reindex' \in [Bundled -> Marks \cup {0}],
           \/ read' = read /\ item.shape \notin {"gone", "unborn"}
           \/ Unsteady({k})
    PROVE  TableInv'
  <1> table \in [Rows -> RowItem] /\ read \in Reading
    BY DEF TableInv, TableTypeOK, RowItem
  <1>1. table' = [table EXCEPT ![k] = item] /\ table' \in [Rows -> RowItem]
    BY DEF SetRow
  <1>2. PICK S \in SUBSET read.steady : /\ read' = [read EXCEPT !.steady = S]
                                        /\ k \in S => item.shape \notin {"gone", "unborn"}
    <2>1. CASE read' = read /\ item.shape \notin {"gone", "unborn"}
      <3>1. read = [read EXCEPT !.steady = read.steady]
        BY DEF Reading
      <3>2. read.steady \in SUBSET read.steady
        OBVIOUS
      <3>3. read' = [read EXCEPT !.steady = read.steady]
        BY <2>1, <3>1
      <3> QED BY <2>1, <3>2, <3>3
    <2>2. CASE Unsteady({k})
      <3>1. read' = [read EXCEPT !.steady = @ \ {k}]
        BY <2>2 DEF Unsteady
      <3>2. read' = [read EXCEPT !.steady = read.steady \ {k}]
        BY <3>1 DEF Reading
      <3>3. read.steady \ {k} \in SUBSET read.steady /\ k \notin read.steady \ {k}
        OBVIOUS
      <3> QED BY <3>2, <3>3
    <2> QED BY <2>1, <2>2
  <1>3. TableTypeOK'
    <2>1. read'.op = read.op /\ read'.got = read.got /\ read'.steady = S
      BY <1>2 DEF Reading
    <2>2. read'.op \in {"none", "asc", "desc", "scan", "bundle"} /\ read'.steady \subseteq Rows
             /\ \A e \in read'.got : e.key \in Rows
      BY <2>1 DEF TableInv, TableTypeOK
    <2>3. table' \in [Rows -> RowItem] /\ reindex' \in [Bundled -> Marks \cup {0}]
             /\ changes' \in 0 .. MaxChanges
      BY <1>1
    <2> QED BY <2>2, <2>3 DEF TableTypeOK, RowItem
  <1>4. \A l \in Rows : FitsKind(l, table'[l]) /\ KeepsPlace(l)
    BY <1>1 DEF TableInv, KeepsPlace, There
  <1>5. \A l \in S : There(l) => table'[l].shape \notin {"gone", "unborn"}
    BY <1>1, <1>2 DEF There, TableInv, TableTypeOK
  <1> QED BY <1>2, <1>3, <1>4, <1>5, WriteKeeps

LEMMA TableFacts ==
    ASSUME TableInv
    PROVE  /\ table \in [Rows -> RowItem] /\ reindex \in [Bundled -> Marks \cup {0}]
           /\ read \in Reading /\ changes \in 0 .. MaxChanges
           /\ Change => changes' \in 0 .. MaxChanges
           /\ \A k \in Rows : FitsKind(k, table[k])
           /\ \A k \in Rows : Kind(k) = "JOB" => Number(k) \in Bundled
  <1>1. \A k \in Rows : Kind(k) = "JOB" => Number(k) \in Bundled
    <2> SUFFICES ASSUME NEW k \in Rows, Kind(k) = "JOB" PROVE Number(k) \in Bundled
      OBVIOUS
    <2>1. k \in (ChildKinds \cup {"RATE"}) \X Bundled
      BY RowKinds DEF Rows, Kind
    <2> QED BY <2>1 DEF Number
  <1> QED BY <1>1, TableAssumption DEF TableInv, TableTypeOK, RowItem, Change, TableAssumption

LEMMA PutListedKeeps ==
    ASSUME TableInv, NEW k \in Rows, NEW m \in Marks, PutListed(k, m) PROVE TableInv'
  <1>1. [shape |-> "v2", mark |-> m, slot |-> m] \in RowItem
    BY DEF RowItem
  <1>2. table[k] = Unused
    BY DEF PutListed
  <1>3. table[k].shape # "gone" /\ ~There(k)
    BY <1>2 DEF Unused, There
  <1>4. SetRow(k, [shape |-> "v2", mark |-> m, slot |-> m]) /\ Change /\ reindex' = reindex /\ read' = read
    BY DEF PutListed
  <1> QED BY <1>1, <1>3, <1>4, TableFacts, RowSet DEF FitsKind

LEMMA PutChildKeeps ==
    ASSUME TableInv, NEW k \in Rows, PutChild(k) PROVE TableInv'
  <1>1. [shape |-> "v2", mark |-> 0, slot |-> NoSlot] \in RowItem
    BY DEF RowItem
  <1>2. Kind(k) \notin ListedKinds
    BY RowKinds DEF PutChild
  <1> QED BY <1>1, <1>2, TableFacts, RowSet DEF PutChild, FitsKind

LEMMA PutJobKeeps ==
    ASSUME TableInv, NEW k \in Rows, NEW m \in Marks, PutJob(k, m) PROVE TableInv'
  <1>1. [shape |-> "v2", mark |-> m, slot |-> m] \in RowItem
    BY DEF RowItem
  <1>2. Kind(k) \notin ListedKinds
    BY RowKinds DEF PutJob
  <1> QED BY <1>1, <1>2, TableFacts, RowSet DEF PutJob, FitsKind

LEMMA CountRequestKeeps ==
    ASSUME TableInv, NEW k \in Rows, CountRequest(k) PROVE TableInv'
  <1>1. [shape |-> "count", mark |-> 0, slot |-> NoSlot] \in RowItem
    BY DEF RowItem
  <1>2. Kind(k) \notin ListedKinds
    BY RowKinds DEF CountRequest
  <1> QED BY <1>1, <1>2, TableFacts, RowSet DEF CountRequest, FitsKind

LEMMA PatchRowKeeps ==
    ASSUME TableInv, NEW k \in Rows, NEW m \in Marks, PatchRow(k, m) PROVE TableInv'
  <1> DEFINE item == [table[k] EXCEPT !.mark = m, !.slot = SlotAfter(k, m)]
  <1>1. item \in RowItem /\ item.shape = "v2" /\ item.slot = table[k].slot /\ table[k].shape = "v2"
    BY TableFacts DEF PatchRow, SlotAfter, RowItem
  <1>2. reindex' \in [Bundled -> Marks \cup {0}]
    BY TableFacts DEF PatchRow
  <1>3. SetRow(k, item) /\ Change /\ read' = read
    BY DEF PatchRow
  <1> HIDE DEF item
  <1> QED BY <1>1, <1>2, <1>3, TableFacts, RowSet DEF FitsKind

LEMMA ReindexJobKeeps ==
    ASSUME TableInv, NEW k \in Rows, ReindexJob(k) PROVE TableInv'
  <1> DEFINE item == [table[k] EXCEPT !.slot = reindex[Number(k)],
                                      !.shape = IF There(k) THEN @ ELSE "half"]
  <1>1. Kind(k) = "JOB" /\ Kind(k) \notin ListedKinds /\ Number(k) \in Bundled
    BY TableFacts, RowKinds DEF ReindexJob
  <1>2. item \in RowItem /\ item.shape \notin {"gone", "unborn"} /\ FitsKind(k, item)
    BY <1>1, TableFacts DEF RowItem, There, NoSlot, FitsKind
  <1>3. reindex' \in [Bundled -> Marks \cup {0}]
    BY <1>1, TableFacts DEF ReindexJob
  <1>4. SetRow(k, item) /\ read' = read /\ changes' = changes
    BY DEF ReindexJob
  <1> HIDE DEF item
  <1> QED BY <1>1, <1>2, <1>3, <1>4, TableFacts, RowSet

LEMMA RemoveRowKeeps ==
    ASSUME TableInv, NEW k \in Rows, RemoveRow(k) PROVE TableInv'
  <1>1. Gone \in RowItem /\ Gone.shape = "gone"
    BY DEF Gone, RowItem
  <1>2. table[k].shape # "gone"
    BY DEF RemoveRow, There
  <1> QED BY <1>1, <1>2, TableFacts, RowSet DEF RemoveRow, FitsKind

LEMMA StartReadKeeps ==
    ASSUME TableInv, NEW op \in {"asc", "desc", "scan", "bundle"},
           NEW kind \in ListedKinds \cup {""}, NEW n \in Numbers \cup {0},
           op \in Lists => kind \in ListedKinds, StartRead(op, kind, n)
    PROVE  TableInv'
  <1> DEFINE S == {k \in Rows : InRange(op, kind, n, k)}
  <1>1. read' = [op |-> op, kind |-> kind, number |-> n, cursor |-> {}, got |-> {},
                 steady |-> S, done |-> FALSE]
    BY DEF StartRead, NoRead
  <1>2. read' \in Reading
    BY <1>1 DEF Reading
  <1>3. UNCHANGED <<table, reindex, changes>>
    BY DEF StartRead
  <1>4. \A k \in S : Reached(k)' /\ Waits(k)'
    BY <1>1, <1>3 DEF Reached, InRange, There, Waits
  <1> HIDE DEF S
  <1>5. TableTypeOK'
    BY <1>1, <1>2, <1>3, TableFacts DEF TableInv, TableTypeOK, Reading
  <1> QED BY <1>1, <1>2, <1>3, <1>4, <1>5 DEF TableInv, NamedOnce

LEMMA EndReadKeeps == ASSUME TableInv, EndRead PROVE TableInv'
  <1>1. NoRead \in Reading /\ NoRead.op = "none" /\ NoRead.got = {} /\ NoRead.steady = {}
    BY DEF NoRead, Reading
  <1>2. UNCHANGED <<table, reindex, changes>> /\ read' = NoRead
    BY DEF EndRead
  <1>3. TableTypeOK'
    BY <1>1, <1>2 DEF TableInv, TableTypeOK
  <1> QED BY <1>1, <1>2, <1>3 DEF TableInv, NamedOnce, Lists

LEMMA ReadPageKeeps == ASSUME TableInv, ReadPage PROVE TableInv'
  <1> DEFINE entry(k) == [key |-> k, item |-> table[k], after |-> read.cursor]
             new == {entry(k) : k \in NextPage}
             passed == {Position(k) : k \in NextPage}
  <1>1. read.op # "none" /\ ~read.done /\ read \in Reading /\ UNCHANGED <<table, reindex, changes>>
    BY TableFacts DEF ReadPage
  <1>2. /\ NextPage \subseteq Ahead /\ Ahead \subseteq Rows
        /\ \A k \in Ahead : Reached(k) /\ \A p \in read.cursor : Before(p, Position(k))
    BY DEF NextPage, Ahead
  <1>3. /\ read'.op = read.op /\ read'.kind = read.kind /\ read'.number = read.number
        /\ read'.steady = read.steady /\ read'.got = read.got \cup new
        /\ read'.cursor = (IF NextPage = {} THEN read.cursor ELSE passed)
        /\ read'.done = (NextPage = Ahead)
    BY <1>1 DEF ReadPage, Reading
  <1>4. \A k \in NextPage : Position(k) \in Points /\ table[k] \in RowItem
    BY <1>2, PositionType
  <1>5. read' \in Reading
    <2>1. new \subseteq Entry /\ passed \subseteq Points
      <3>1. read.cursor \in SUBSET Points
        BY <1>1 DEF Reading
      <3>2. \A k \in NextPage : k \in Rows /\ entry(k) \in Entry
        BY <1>2, <1>4, <3>1 DEF Entry
      <3> HIDE DEF entry
      <3> QED BY <1>4, <3>2
    <2>2. read'.got \subseteq Entry /\ read'.cursor \subseteq Points /\ read'.done \in BOOLEAN
      BY <1>1, <1>3, <2>1 DEF Reading
    <2>3. read' = [read EXCEPT !.got = read'.got, !.cursor = read'.cursor, !.done = read'.done]
      BY <1>1, <1>3 DEF ReadPage, Reading
    <2> QED BY <1>1, <2>2, <2>3 DEF Reading
  <1>6. ASSUME NEW k, NEW s PROVE Place(k, s)' = Place(k, s)
    BY <1>3 DEF Place
  <1>7. \A k \in Rows : Position(k)' = Position(k)
    BY <1>1, <1>6 DEF Position
  <1>8. TableTypeOK'
    BY <1>1, <1>3, <1>5 DEF TableInv, TableTypeOK, Reading, Entry
  <1>9. ASSUME NEW e \in read'.got PROVE Passed(e)'
    <2>1. CASE e \in read.got
      <3>1. Passed(e) /\ e.key \in Rows /\ e.item.slot \in Marks \cup {NoSlot}
        BY <1>1, <2>1 DEF TableInv, Reading, Entry, RowItem
      <3>2. PICK p \in read.cursor :
               p = Place(e.key, e.item.slot) \/ Before(Place(e.key, e.item.slot), p)
        BY <3>1 DEF Passed
      <3>3. \E q \in read'.cursor :
               q = Place(e.key, e.item.slot) \/ Before(Place(e.key, e.item.slot), q)
        <4>1. CASE NextPage = {}
          BY <1>3, <3>2, <4>1
        <4>2. CASE NextPage # {}
          <5>1. PICK k \in NextPage : TRUE
            BY <4>2
          <5>2. Before(p, Position(k)) /\ Position(k) \in read'.cursor
            BY <1>2, <1>3, <4>2, <5>1
          <5>3. p \in Points /\ Position(k) \in Points /\ Place(e.key, e.item.slot) \in Points
            BY <1>1, <1>4, <3>1, PlaceType DEF Reading
          <5> QED BY <3>2, <5>2, <5>3, BeforeOrders
        <4> QED BY <4>1, <4>2
      <3> QED BY <1>1, <1>3, <1>6, <3>1, <3>3 DEF Passed, There
    <2>2. CASE e \in new
      <3>1. PICK k \in NextPage : e = entry(k)
        BY <2>2
      <3>2. e.key = k /\ e.item = table[k] /\ k \in Rows /\ Reached(k)
        BY <1>2, <3>1
      <3>3. Place(e.key, e.item.slot) \in read'.cursor
        BY <1>3, <3>1, <3>2 DEF Position
      <3>4. FitsKind(k, table[k]) /\ table[k].shape \notin {"gone", "unborn"} /\ There(k)
        BY <3>2, TableFacts DEF Reached, InRange, There
      <3>5. read.op \in Lists => Kind(k) = read.kind
        BY <3>2 DEF Reached, InRange, Lists
      <3> QED BY <1>1, <1>3, <1>6, <3>2, <3>3, <3>4, <3>5 DEF Passed, There
    <2> QED BY <1>3, <2>1, <2>2
  <1>10. ASSUME NEW k \in read'.steady PROVE Reached(k)' /\ (Named(k)' \/ Waits(k)')
    <2>1. k \in Rows /\ Reached(k) /\ (Named(k) \/ Waits(k))
      BY <1>3 DEF TableInv, TableTypeOK
    <2>2. Reached(k)'
      BY <1>1, <1>3, <2>1 DEF Reached, InRange, There
    <2>3. CASE Named(k)
      BY <1>3, <2>2, <2>3 DEF Named
    <2>4. CASE k \in NextPage
      <3>1. entry(k) \in read'.got /\ entry(k).key = k
        BY <1>3, <2>4
      <3> QED BY <2>2, <3>1 DEF Named
    <2>5. CASE Waits(k) /\ k \notin NextPage
      <3>1. k \in Ahead \ NextPage
        BY <2>1, <2>5 DEF Ahead, Waits
      <3>2. \A p \in read'.cursor : Before(p, Position(k))
        BY <1>1, <1>3, <2>5, <3>1, PageFirst DEF Waits
      <3> QED BY <1>3, <1>7, <2>1, <2>2, <3>1, <3>2 DEF Waits
    <2> QED BY <2>1, <2>3, <2>4, <2>5
  <1>11. ASSUME NEW e \in read.got, NEW k \in NextPage, e.key = k PROVE FALSE
    <2>1. Passed(e) /\ k \in Rows /\ e.item.slot \in Marks \cup {NoSlot} /\ Reached(k)
      BY <1>1, <1>2, <1>11 DEF TableInv, Reading, Entry, RowItem
    <2>2. Place(k, e.item.slot) = Position(k)
      <3>1. CASE read.op \in Lists
        <4>1. table[k].slot = e.item.slot
          BY <1>11, <2>1, <3>1 DEF Passed, Reached, InRange, There
        <4> QED BY <4>1 DEF Position
      <3>2. CASE read.op \notin Lists
        BY <3>2 DEF Place, Position, Lists
      <3> QED BY <3>1, <3>2
    <2>3. PICK p \in read.cursor : p = Position(k) \/ Before(Position(k), p)
      BY <1>11, <2>1, <2>2 DEF Passed
    <2>4. Before(p, Position(k)) /\ p \in Points /\ Position(k) \in Points
      BY <1>1, <1>2, <1>4 DEF Reading
    <2> QED BY <2>3, <2>4, BeforeOrders
  <1>12. NamedOnce'
    <2> SUFFICES ASSUME NEW e \in read'.got, NEW f \in read'.got, e.key = f.key PROVE e = f
      BY DEF NamedOnce
    <2>1. \A x \in new : x.key \in NextPage /\ x = entry(x.key)
      OBVIOUS
    <2>2. (e \in read.got \/ e \in new) /\ (f \in read.got \/ f \in new)
      BY <1>3
    <2>3. e \in read.got /\ f \in read.got => e = f
      BY DEF TableInv, NamedOnce
    <2> HIDE DEF new, entry
    <2> QED BY <1>11, <2>1, <2>2, <2>3
  <1>13. read'.op \in Lists => read'.kind \in ListedKinds
    BY <1>3 DEF TableInv
  <1>14. \A k \in Rows : FitsKind(k, table'[k])
    BY <1>1, TableFacts
  <1> QED BY <1>5, <1>8, <1>9, <1>10, <1>12, <1>13, <1>14 DEF TableInv

LEMMA TableStarts == TableInit => TableInv
  <1> SUFFICES ASSUME TableInit PROVE TableInv
    OBVIOUS
  <1>1. table \in [Rows -> RowItem]
    <2>1. {Unused} \cup [shape : {"v1"}, mark : Marks, slot : Marks] \subseteq RowItem
      BY DEF Unused, RowItem
    <2> QED BY <2>1 DEF TableInit
  <1>2. \A k \in Rows : table[k].shape \in {"unborn", "v1"}
    BY DEF TableInit, Unused
  <1>3. NoRead \in Reading /\ NoRead.op = "none" /\ NoRead.got = {} /\ NoRead.steady = {}
    BY DEF NoRead, Reading
  <1>4. TableTypeOK
    BY <1>1, <1>3, TableAssumption DEF TableInit, TableTypeOK, RowItem, TableAssumption
  <1> QED BY <1>2, <1>3, <1>4 DEF TableInit, TableInv, FitsKind, NamedOnce, Lists

LEMMA TableKeeps == TableInv /\ [TableNext]_tableVars => TableInv'
  <1> SUFFICES ASSUME TableInv, [TableNext]_tableVars PROVE TableInv'
    OBVIOUS
  <1>1. CASE UNCHANGED tableVars
    <2>1. UNCHANGED <<table, reindex, read, changes>>
      BY <1>1 DEF tableVars
    <2> QED BY <2>1 DEF TableInv, TableTypeOK, Passed, There, Place, Reached, InRange, Named,
                        Waits, Position, NamedOnce
  <1>2. CASE \E k \in Rows, m \in Marks : PutListed(k, m) \/ PutJob(k, m) \/ PatchRow(k, m)
    BY <1>2, PutListedKeeps, PutJobKeeps, PatchRowKeeps
  <1>3. CASE \E k \in Rows : PutChild(k) \/ CountRequest(k) \/ ReindexJob(k) \/ RemoveRow(k)
    BY <1>3, PutChildKeeps, CountRequestKeeps, ReindexJobKeeps, RemoveRowKeeps
  <1>4. CASE \E op \in {"asc", "desc"}, kind \in ListedKinds : StartRead(op, kind, 0)
    BY <1>4, StartReadKeeps DEF Lists
  <1>5. CASE StartRead("scan", "", 0)
    BY <1>5, StartReadKeeps DEF Lists
  <1>6. CASE \E n \in Bundled : StartRead("bundle", "", n)
    BY <1>6, StartReadKeeps, TableAssumption DEF Lists, TableAssumption
  <1>7. CASE ReadPage \/ EndRead
    BY <1>7, ReadPageKeeps, EndReadKeeps
  <1> QED BY <1>1, <1>2, <1>3, <1>4, <1>5, <1>6, <1>7 DEF TableNext

LEMMA TableInvMeans == TableInv => ReadsWhole
  <1> SUFFICES ASSUME TableInv, read.done PROVE ReadsWhole
    BY DEF ReadsWhole
  <1>1. ASSUME NEW k \in read.steady
        PROVE  \/ k \in Given
               \/ k \in Quarantined /\ (read.op = "bundle" \/ Kind(k) = "JOB")
               \/ ~HasSchema(k)
    <2>1. k \in Rows /\ Reached(k) /\ Named(k)
      BY DEF TableInv, TableTypeOK, Waits
    <2>2. PICK e \in read.got : e.key = k
      BY <2>1 DEF Named
    <2>3. Passed(e) /\ e.item.shape \in {"gone", "unborn", "v1", "v2", "half", "count"} /\ e.item \in RowItem
      BY TableFacts DEF TableInv, Reading, Entry, RowItem
    <2>4. CASE ~HasSchema(k)
      BY <2>4
    <2>5. CASE HasSchema(k)
      <3>1. e \in Considered
        BY <2>2, <2>5 DEF Considered
      <3>2. CASE Understood(e)
        BY <2>2, <3>1, <3>2 DEF Given
      <3>3. CASE ~Understood(e)
        <4>1. read.op = "bundle" \/ Kind(k) = "JOB"
          BY <2>2, <2>3, <2>5, <3>3 DEF Understood, Parses, Promoted, Passed, FitsKind, HasSchema, RowItem
        <4> QED BY <2>2, <3>1, <4>1 DEF Quarantined
      <3> QED BY <3>2, <3>3
    <2> QED BY <2>4, <2>5
  <1> QED BY <1>1 DEF ReadsWhole, TableInv, NamedOnce

(* Whatever is written between the pages of a call, its answer names no    *)
(* item twice and every item that was there from its start to its end, all *)
(* but counters and broken jobs as readable ones (repository.ts: lists,    *)
(* scans and bundles), for any table, any size of a page and any number of *)
(* writes.                                                                 *)
THEOREM ReadsAreWhole == TableSpec => []ReadsWhole
  <1>1. TableInv /\ [TableNext]_tableVars => TableInv'
    BY TableKeeps
  <1> QED BY <1>1, TableStarts, TableInvMeans, PTL DEF TableSpec

LEMMA TableTypes == TableSpec => []TableTypeOK
  <1>1. TableInv /\ [TableNext]_tableVars => TableInv'
    BY TableKeeps
  <1>2. TableInv => TableTypeOK BY DEF TableInv
  <1> QED BY <1>1, <1>2, TableStarts, PTL DEF TableSpec

-----------------------------------------------------------------------------
(* The lists of the pages.  An order that is irreflexive, transitive and   *)
(* total on a finite set sorts it into a list that names each of its       *)
(* members once: a member's place is one more than the number of those     *)
(* before it, which is one-to-one and therefore onto.                      *)
StrictOrder(S, order) ==
    /\ \A x \in S : x \notin order[x]
    /\ \A x, y, z \in S : y \in order[x] /\ z \in order[y] => z \in order[x]
    /\ \A x, y \in S : x # y => y \in order[x] \/ x \in order[y]

LEMMA SortedIsOf ==
    ASSUME NEW S, IsFiniteSet(S), NEW order, StrictOrder(S, order)
    PROVE  LET list == Sorted(S, order)
           IN  /\ list \in [1 .. Cardinality(S) -> S] /\ InOrder(list, order)
               /\ IsInjective(list) /\ Range(list) = S
  <1> DEFINE n == Cardinality(S)
             below(x) == {y \in S : x \in order[y]}
             rank == [x \in S |-> Cardinality(below(x)) + 1]
  <1>0. n \in Nat /\ IsFiniteSet(1 .. n) /\ Cardinality(1 .. n) = n
    BY FS_CardinalityType, FS_Interval
  <1>1. \A x \in S : /\ IsFiniteSet(below(x)) /\ Cardinality(below(x)) \in Nat
                     /\ Cardinality(below(x)) < n
    <2> TAKE x \in S
    <2>1. below(x) \subseteq S /\ x \notin below(x)
      BY DEF StrictOrder
    <2> QED BY <2>1, <1>0, FS_Subset, FS_CardinalityType
  <1>2. ASSUME NEW x \in S, NEW y \in S, y \in order[x]
        PROVE  rank[x] < rank[y]
    <2>1. below(x) \subseteq below(y) /\ x \in below(y) /\ x \notin below(x)
      BY <1>2 DEF StrictOrder
    <2>2. Cardinality(below(x)) < Cardinality(below(y))
      BY <2>1, <1>1, FS_Subset
    <2>3. rank[x] = Cardinality(below(x)) + 1 /\ rank[y] = Cardinality(below(y)) + 1
      OBVIOUS
    <2> HIDE DEF below, rank
    <2> QED BY <2>2, <2>3, <1>1
  <1>3. rank \in Injection(S, 1 .. n)
    <2>1. rank \in [S -> 1 .. n]
      <3> SUFFICES ASSUME NEW x \in S PROVE Cardinality(below(x)) + 1 \in 1 .. n
        OBVIOUS
      <3> HIDE DEF below
      <3> QED BY <1>0, <1>1
    <2>2. ASSUME NEW x \in S, NEW y \in S, x # y
          PROVE  rank[x] # rank[y]
      <3> HIDE DEF rank
      <3>1. y \in order[x] \/ x \in order[y]
        BY <2>2 DEF StrictOrder
      <3>2. rank[x] \in Int /\ rank[y] \in Int
        BY <2>1, <1>0
      <3> QED BY <3>1, <3>2, <1>2
    <2> QED BY <2>1, <2>2 DEF Injection, IsInjective
  <1>4. \A k \in 1 .. n : \E x \in S : rank[x] = k
    <2>1. rank \in Surjection(S, 1 .. n)
      BY <1>0, <1>3, FS_Injection
    <2> QED BY <2>1 DEF Surjection
  <1> DEFINE some == [k \in 1 .. n |-> CHOOSE x \in S : rank[x] = k]
  <1>5. /\ some \in [1 .. n -> S]
        /\ \A k \in 1 .. n : rank[some[k]] = k
    BY <1>4
  <1>6. InOrder(some, order)
    <2> SUFFICES ASSUME NEW j \in 1 .. n, NEW k \in 1 .. n, j < k
                 PROVE  some[k] \in order[some[j]]
      BY <1>5 DEF InOrder
    <2> HIDE DEF some, rank
    <2>1. some[j] \in S /\ some[k] \in S /\ some[j] # some[k]
      BY <1>5, <1>0
    <2>2. some[j] \notin order[some[k]]
      BY <2>1, <1>2, <1>5, <1>0
    <2> QED BY <2>1, <2>2 DEF StrictOrder
  <1> DEFINE list == Sorted(S, order)
  <1>7. list \in [1 .. n -> S] /\ InOrder(list, order)
    <2> HIDE DEF some
    <2> QED BY <1>5, <1>6 DEF Sorted
  <1> HIDE DEF list
  <1>8. list \in Injection(1 .. n, S)
    <2>1. ASSUME NEW j \in 1 .. n, NEW k \in 1 .. n, j < k
          PROVE  list[j] # list[k]
      BY <2>1, <1>7 DEF InOrder, StrictOrder
    <2> QED BY <2>1, <1>7, <1>0 DEF Injection, IsInjective
  <1>9. list \in Surjection(1 .. n, S)
    BY <1>0, <1>8, FS_Injection
  <1> QED BY <1>7, <1>8, <1>9 DEF Injection, Surjection, Range, list

(* An analysis, and with it the public lifecycle, needs a recording.       *)
HeardFirst == \A i \in Ids : shelf[i].job # "none" \/ shelf[i].life = "ready" => shelf[i].heard

PagesInv == PagesTypeOK /\ HeardFirst

LEMMA PagesInitInv == PagesInit => PagesInv
  <1> SUFFICES ASSUME PagesInit PROVE PagesInv
    OBVIOUS
  <1>1. Blank \in ShelfItem /\ Blank.job = "none" /\ Blank.life # "ready"
    BY DEF Blank, ShelfItem, Unrated
  <1>2. edits \in 0 .. MaxEdits
    BY PagesAssumption DEF PagesInit
  <1> QED BY <1>1, <1>2 DEF PagesInit, PagesInv, PagesTypeOK, HeardFirst

(* Every action puts one item in place of another.                         *)
LEMMA ItemChanges ==
    ASSUME PagesInv, NEW i \in Ids, NEW item \in ShelfItem,
           item.job # "none" \/ item.life = "ready" => item.heard,
           shelf' = [shelf EXCEPT ![i] = item], Edit \/ UNCHANGED edits
    PROVE  PagesInv'
  <1>1. (edits \in 0 .. MaxEdits)'
    BY PagesAssumption DEF PagesInv, PagesTypeOK, Edit
  <1> QED BY <1>1 DEF PagesInv, PagesTypeOK, HeardFirst

LEMMA PagesNextInv == PagesInv /\ [PagesNext]_pagesVars => PagesInv'
  <1> SUFFICES ASSUME PagesInv, [PagesNext]_pagesVars PROVE PagesInv'
    OBVIOUS
  <1>0. \A i \in Ids : /\ shelf[i] \in ShelfItem
                       /\ shelf[i].job # "none" \/ shelf[i].life = "ready" => shelf[i].heard
    BY DEF PagesInv, PagesTypeOK, HeardFirst
  <1>1. CASE UNCHANGED pagesVars
    BY <1>1 DEF pagesVars, PagesInv, PagesTypeOK, HeardFirst
  <1>2. ASSUME NEW i \in Ids, NEW b \in Bottles \cup {NoBottle}, NEW d \in Dates, StartItem(i, b, d)
        PROVE  PagesInv'
    <2> DEFINE life == IF b = NoBottle THEN "collecting" ELSE "awaiting_audio"
               item == [shelf[i] EXCEPT !.there = TRUE, !.bottle = b, !.date = d, !.slot = d, !.life = life]
    <2>a. shelf[i] \in ShelfItem /\ life \in {"collecting", "awaiting_audio"}
      BY <1>0
    <2>1. item \in ShelfItem /\ item.life # "ready" /\ item.job = shelf[i].job /\ item.heard = shelf[i].heard
      <3> HIDE DEF life
      <3> QED BY <2>a DEF ShelfItem
    <2>2. shelf' = [shelf EXCEPT ![i] = item] /\ UNCHANGED edits
      BY <1>2 DEF StartItem
    <2> HIDE DEF item
    <2> QED BY <1>0, <2>1, <2>2, ItemChanges
  <1>old. ASSUME NEW i \in Ids, NEW b \in Bottles, NEW d \in Dates, OlderItem(i, b, d)
          PROVE  PagesInv'
    <2> DEFINE item == [shelf[i] EXCEPT !.there = TRUE, !.bottle = b, !.date = d, !.slot = d,
                                        !.life = "none"]
    <2>1. item \in ShelfItem /\ item.life # "ready" /\ item.job = shelf[i].job /\ item.heard = shelf[i].heard
      BY <1>0 DEF ShelfItem
    <2>2. shelf' = [shelf EXCEPT ![i] = item] /\ UNCHANGED edits
      BY <1>old DEF OlderItem
    <2> HIDE DEF item
    <2> QED BY <1>0, <2>1, <2>2, ItemChanges
  <1>3. ASSUME NEW i \in Ids, HearItem(i)
        PROVE  PagesInv'
    <2> DEFINE item == [shelf[i] EXCEPT !.heard = TRUE, !.job = "open"]
    <2>1. item \in ShelfItem /\ item.heard
      BY <1>0 DEF ShelfItem
    <2>2. shelf' = [shelf EXCEPT ![i] = item] /\ UNCHANGED edits
      BY <1>3 DEF HearItem
    <2> HIDE DEF item
    <2> QED BY <2>1, <2>2, ItemChanges
  <1>4. ASSUME NEW i \in Ids, NEW b \in Bottles, AttachBottle(i, b)
        PROVE  PagesInv'
    <2> DEFINE life == IF shelf[i].heard THEN "polishing" ELSE "awaiting_audio"
               item == [shelf[i] EXCEPT !.bottle = b, !.life = life]
    <2>a. shelf[i] \in ShelfItem /\ life \in {"polishing", "awaiting_audio"}
      BY <1>0
    <2>1. item \in ShelfItem /\ item.life # "ready" /\ item.job = shelf[i].job /\ item.heard = shelf[i].heard
      <3> HIDE DEF life
      <3> QED BY <2>a DEF ShelfItem
    <2>2. shelf' = [shelf EXCEPT ![i] = item] /\ Edit
      BY <1>4 DEF AttachBottle
    <2> HIDE DEF item
    <2> QED BY <1>0, <2>1, <2>2, ItemChanges
  <1>5. ASSUME NEW i \in Ids, NEW r \in Scores \cup {Unrated}, PublishItem(i, r)
        PROVE  PagesInv'
    <2> DEFINE rating == IF r = Unrated THEN shelf[i].ai ELSE r
               item == [shelf[i] EXCEPT !.ai = rating, !.job = "completed", !.life = "ready"]
    <2>1. rating \in Scores \cup {Unrated}
      BY <1>0 DEF ShelfItem
    <2>2. shelf' = [shelf EXCEPT ![i] = item] /\ UNCHANGED edits /\ shelf[i].job = "open"
      BY <1>5 DEF PublishItem
    <2>3. item \in ShelfItem /\ item.heard = shelf[i].heard
      <3> HIDE DEF rating
      <3> QED BY <1>0, <2>1 DEF ShelfItem
    <2> HIDE DEF item
    <2> QED BY <1>0, <2>2, <2>3, ItemChanges
  <1>6. ASSUME NEW i \in Ids, FailItem(i)
        PROVE  PagesInv'
    <2> DEFINE item == [shelf[i] EXCEPT !.job = "failed"]
    <2>1. item \in ShelfItem /\ item.heard = shelf[i].heard
      BY <1>0 DEF ShelfItem
    <2>2. shelf' = [shelf EXCEPT ![i] = item] /\ UNCHANGED edits /\ shelf[i].job = "open"
      BY <1>6 DEF FailItem
    <2> HIDE DEF item
    <2> QED BY <1>0, <2>1, <2>2, ItemChanges
  <1>7. ASSUME NEW i \in Ids, ReanalyzeItem(i)
        PROVE  PagesInv'
    <2> DEFINE item == [shelf[i] EXCEPT !.job = "open"]
    <2>1. item \in ShelfItem /\ item.heard = shelf[i].heard
      BY <1>0 DEF ShelfItem
    <2>2. shelf' = [shelf EXCEPT ![i] = item] /\ Edit /\ shelf[i].job # "none"
      BY <1>7 DEF ReanalyzeItem
    <2> HIDE DEF item
    <2> QED BY <1>0, <2>1, <2>2, ItemChanges
  <1>8. ASSUME NEW i \in Ids, NEW r \in Scores, RateItem(i, r)
        PROVE  PagesInv'
    <2> DEFINE item == [shelf[i] EXCEPT !.manual = r]
    <2>1. /\ item \in ShelfItem /\ item.heard = shelf[i].heard
          /\ item.job = shelf[i].job /\ item.life = shelf[i].life
      BY <1>0 DEF ShelfItem
    <2>2. shelf' = [shelf EXCEPT ![i] = item] /\ Edit
      BY <1>8 DEF RateItem
    <2> HIDE DEF item
    <2> QED BY <1>0, <2>1, <2>2, ItemChanges
  <1>9. ASSUME NEW i \in Ids, NEW d \in Dates, RedateItem(i, d)
        PROVE  PagesInv'
    <2> DEFINE item == [shelf[i] EXCEPT !.date = d]
    <2>1. /\ item \in ShelfItem /\ item.heard = shelf[i].heard
          /\ item.job = shelf[i].job /\ item.life = shelf[i].life
      BY <1>0 DEF ShelfItem
    <2>2. shelf' = [shelf EXCEPT ![i] = item] /\ Edit
      BY <1>9 DEF RedateItem
    <2> HIDE DEF item
    <2> QED BY <1>0, <2>1, <2>2, ItemChanges
  <1>10. ASSUME NEW i \in Ids, EraseItem(i)
         PROVE  PagesInv'
    <2>1. Blank \in ShelfItem /\ Blank.job = "none" /\ Blank.life # "ready"
      BY DEF Blank, ShelfItem, Unrated
    <2>2. shelf' = [shelf EXCEPT ![i] = Blank] /\ Edit
      BY <1>10 DEF EraseItem
    <2> QED BY <2>1, <2>2, ItemChanges
  <1> QED BY <1>1, <1>2, <1>old, <1>3, <1>4, <1>5, <1>6, <1>7, <1>8, <1>9, <1>10 DEF PagesNext

LEMMA IdsFinite == ASSUME NEW S \in SUBSET Ids PROVE IsFiniteSet(S)
  <1>1. IsFiniteSet(Ids)
    BY PagesAssumption, FS_Interval DEF Ids
  <1> QED BY <1>1, FS_Subset

LEMMA NumbersOf ==
    ASSUME PagesTypeOK
    PROVE  \A i \in Ids : /\ i \in Int /\ shelf[i].slot \in Int /\ shelf[i].date \in Int
                          /\ SummaryRating(i) \in {0, 2, 4}
  <1> SUFFICES ASSUME NEW i \in Ids
               PROVE  /\ i \in Int /\ shelf[i].slot \in Int /\ shelf[i].date \in Int
                      /\ SummaryRating(i) \in {0, 2, 4}
    OBVIOUS
  <1>1. shelf[i] \in ShelfItem /\ i \in Int
    BY PagesAssumption DEF PagesTypeOK, Ids
  <1>2. /\ shelf[i].slot \in Int /\ shelf[i].date \in Int
        /\ shelf[i].manual \in {0, 2, 4} /\ shelf[i].ai \in {0, 2, 4}
    <2>1. /\ shelf[i].slot \in Dates \cup {0} /\ shelf[i].date \in Dates \cup {0}
          /\ shelf[i].manual \in Scores \cup {Unrated} /\ shelf[i].ai \in Scores \cup {Unrated}
      BY <1>1 DEF ShelfItem
    <2>2. Dates \cup {0} \subseteq Int
      BY PagesAssumption
    <2> QED BY <2>1, <2>2 DEF Scores, Unrated
  <1> QED BY <1>1, <1>2 DEF SummaryRating, DisplayRating

(* The three orders that the pages sort by are strict: the last word is    *)
(* the tasting's own place in the index.                                   *)
LEMMA OrdersAreStrict ==
    ASSUME PagesTypeOK, NEW S \in SUBSET Ids
    PROVE  /\ StrictOrder(S, NewestFirst)
           /\ StrictOrder(S, Stable(ByRating, NewestFirst))
           /\ StrictOrder(S, Stable(ByDate, OldestFirst))
  <1> DEFINE rating(i) == SummaryRating(i)
             date(i) == shelf[i].date
             slot(i) == shelf[i].slot
             older(i, j) == slot(i) < slot(j) \/ (slot(i) = slot(j) /\ i < j)
  <1>1. \A i \in Ids : i \in Int /\ slot(i) \in Int /\ date(i) \in Int /\ rating(i) \in Int
    BY NumbersOf
  <1>2. \A i, j \in Ids : j \in NewestFirst[i] <=> older(j, i)
    BY DEF NewestFirst, OldestFirst
  <1>3. \A i, j \in Ids : j \in Stable(ByDate, OldestFirst)[i]
                              <=> date(i) < date(j) \/ (~(date(j) < date(i)) /\ older(i, j))
    BY DEF Stable, ByDate, OldestFirst
  <1>4. \A i, j \in Ids : j \in Stable(ByRating, NewestFirst)[i]
                              <=> \/ rating(i) > rating(j)
                                  \/ rating(i) = rating(j) /\ date(i) > date(j)
                                  \/ rating(i) = rating(j) /\ date(i) = date(j) /\ older(j, i)
    <2> SUFFICES ASSUME NEW i \in Ids, NEW j \in Ids
                 PROVE  j \in Stable(ByRating, NewestFirst)[i]
                          <=> \/ rating(i) > rating(j)
                              \/ rating(i) = rating(j) /\ date(i) > date(j)
                              \/ rating(i) = rating(j) /\ date(i) = date(j) /\ older(j, i)
      OBVIOUS
    <2>1. /\ j \in ByRating[i] <=> rating(i) > rating(j) \/ (rating(i) = rating(j) /\ date(i) > date(j))
          /\ i \in ByRating[j] <=> rating(j) > rating(i) \/ (rating(j) = rating(i) /\ date(j) > date(i))
      BY DEF ByRating
    <2>2. j \in Stable(ByRating, NewestFirst)[i]
            <=> j \in ByRating[i] \/ (i \notin ByRating[j] /\ j \in NewestFirst[i])
      BY DEF Stable
    <2> HIDE DEF rating, date, slot
    <2> QED BY <1>1, <1>2, <2>1, <2>2
  <1> HIDE DEF rating, date, slot
  <1>5. StrictOrder(S, NewestFirst)
    BY <1>1, <1>2 DEF StrictOrder
  <1>6. StrictOrder(S, Stable(ByRating, NewestFirst))
    <2> DEFINE order == Stable(ByRating, NewestFirst)
    <2>1. \A i, j \in S : j \in order[i]
                           <=> \/ rating(i) > rating(j)
                               \/ rating(i) = rating(j) /\ date(i) > date(j)
                               \/ rating(i) = rating(j) /\ date(i) = date(j) /\ older(j, i)
      BY <1>4
    <2>2. \A i \in S : i \in Int /\ slot(i) \in Int /\ date(i) \in Int /\ rating(i) \in Int
      BY <1>1
    <2> HIDE DEF order
    <2>3. ASSUME NEW i \in S, NEW j \in S, NEW k \in S, j \in order[i], k \in order[j]
          PROVE  k \in order[i]
      BY <2>1, <2>2, <2>3
    <2>4. \A i \in S : i \notin order[i]
      BY <2>1, <2>2
    <2>5. ASSUME NEW i \in S, NEW j \in S, i # j
          PROVE  j \in order[i] \/ i \in order[j]
      BY <2>1, <2>2, <2>5
    <2> QED BY <2>3, <2>4, <2>5 DEF StrictOrder, order
  <1>7. StrictOrder(S, Stable(ByDate, OldestFirst))
    BY <1>1, <1>3 DEF StrictOrder
  <1> QED BY <1>5, <1>6, <1>7

(* What is on each list, and in which order.                               *)
LEMMA ListsAreOf ==
    ASSUME PagesTypeOK
    PROVE  /\ Range(Timeline) = OnTimeline
           /\ InOrder(Ranking, Stable(ByRating, NewestFirst)) /\ IsInjective(Ranking)
           /\ Range(Ranking) = Rated(OnTimeline)
           /\ \A b \in Bottles :
                 /\ WineHistory(b) \in [1 .. Cardinality(HistoryOf(b)) -> HistoryOf(b)]
                 /\ InOrder(RatingTrend(b), Stable(ByDate, OldestFirst))
                 /\ Range(RatingTrend(b)) = Rated(HistoryOf(b))
  <1>1. /\ OnTimeline \subseteq Ids /\ Rated(OnTimeline) \subseteq Ids
        /\ \A b \in Bottles : HistoryOf(b) \subseteq Ids /\ Rated(HistoryOf(b)) \subseteq Ids
    BY DEF OnTimeline, Rated, HistoryOf
  <1>2. Range(Timeline) = OnTimeline
    BY <1>1, IdsFinite, OrdersAreStrict, SortedIsOf DEF Timeline
  <1>3. /\ InOrder(Ranking, Stable(ByRating, NewestFirst)) /\ IsInjective(Ranking)
        /\ Range(Ranking) = Rated(OnTimeline)
    BY <1>1, IdsFinite, OrdersAreStrict, SortedIsOf DEF Ranking
  <1>4. ASSUME NEW b \in Bottles
        PROVE  /\ WineHistory(b) \in [1 .. Cardinality(HistoryOf(b)) -> HistoryOf(b)]
               /\ InOrder(RatingTrend(b), Stable(ByDate, OldestFirst))
               /\ Range(RatingTrend(b)) = Rated(HistoryOf(b))
    <2>1. WineHistory(b) \in [1 .. Cardinality(HistoryOf(b)) -> HistoryOf(b)]
      BY <1>1, IdsFinite, OrdersAreStrict, SortedIsOf DEF WineHistory
    <2>2. /\ InOrder(RatingTrend(b), Stable(ByDate, OldestFirst))
          /\ Range(RatingTrend(b)) = Rated(HistoryOf(b))
      BY <1>1, IdsFinite, OrdersAreStrict, SortedIsOf DEF RatingTrend
    <2> QED BY <2>1, <2>2
  <1> QED BY <1>2, <1>3, <1>4

(* The four parts of PagesAgree; only OfferedApart needs more than types.  *)
LEMMA RatingsDoAgree == ASSUME PagesTypeOK PROVE RatingsAgree
  <1>1. \A i \in Range(Timeline) : DetailRating(i) = SummaryRating(i)
    BY DEF DetailRating, SummaryRating
  <1>2. Range(Ranking) = {i \in Range(Timeline) : DetailRating(i) # Unrated}
    BY ListsAreOf DEF DetailRating, SummaryRating, Rated
  <1>3. ASSUME NEW m \in DOMAIN Ranking, NEW n \in DOMAIN Ranking, m < n
        PROVE  DetailRating(Ranking[m]) >= DetailRating(Ranking[n])
    <2>1. Ranking[n] \in Stable(ByRating, NewestFirst)[Ranking[m]]
      BY <1>3, ListsAreOf DEF InOrder
    <2>2. Ranking[m] \in Ids /\ Ranking[n] \in Ids
      BY ListsAreOf DEF Range, Rated, OnTimeline
    <2>3. SummaryRating(Ranking[m]) \in {0, 2, 4} /\ SummaryRating(Ranking[n]) \in {0, 2, 4}
      BY <2>2, NumbersOf
    <2>4. Ranking[n] \in ByRating[Ranking[m]] \/ Ranking[m] \notin ByRating[Ranking[n]]
      BY <2>1, <2>2 DEF Stable
    <2>5. SummaryRating(Ranking[m]) >= SummaryRating(Ranking[n])
      BY <2>2, <2>3, <2>4 DEF ByRating
    <2> QED BY <2>5 DEF DetailRating, SummaryRating
  <1>4. Range(Ranking) = UNION {Range(RatingTrend(b)) : b \in Bottles}
    <2>1. \A i \in OnTimeline : shelf[i].bottle \in Bottles
      BY DEF OnTimeline, IsPublished, PagesTypeOK, ShelfItem
    <2>2. \A b \in Bottles : Range(RatingTrend(b)) = {i \in Rated(OnTimeline) : shelf[i].bottle = b}
      BY ListsAreOf DEF Rated, HistoryOf
    <2>3. Range(Ranking) = Rated(OnTimeline) /\ Rated(OnTimeline) \subseteq OnTimeline
      BY ListsAreOf DEF Rated
    <2> QED BY <2>1, <2>2, <2>3
  <1>5. ASSUME NEW b \in Bottles, NEW m \in DOMAIN RatingTrend(b), NEW n \in DOMAIN RatingTrend(b), m < n
        PROVE  shelf[RatingTrend(b)[m]].date <= shelf[RatingTrend(b)[n]].date
    <2> DEFINE i == RatingTrend(b)[m]
               j == RatingTrend(b)[n]
    <2>1. j \in Stable(ByDate, OldestFirst)[i]
      BY <1>5, ListsAreOf DEF InOrder
    <2>a. i \in Range(RatingTrend(b)) /\ j \in Range(RatingTrend(b))
      BY DEF Range
    <2>b. Range(RatingTrend(b)) = Rated(HistoryOf(b))
      BY ListsAreOf
    <2>c. Rated(HistoryOf(b)) \subseteq Ids
      BY DEF Rated, HistoryOf, OnTimeline
    <2> HIDE DEF i, j
    <2>2. i \in Ids /\ j \in Ids
      BY <2>a, <2>b, <2>c
    <2>3. j \in ByDate[i] \/ i \notin ByDate[j]
      BY <2>1, <2>2 DEF Stable
    <2>4. shelf[i].date <= shelf[j].date
      BY <2>2, <2>3, NumbersOf DEF ByDate
    <2> QED BY <2>4 DEF i, j
  <1>6. IsInjective(Ranking)
    BY ListsAreOf
  <1> QED BY <1>1, <1>2, <1>3, <1>4, <1>5, <1>6 DEF RatingsAgree

LEMMA MeansDoAgree == ASSUME PagesTypeOK PROVE MeansAgree
  <1> SUFFICES ASSUME NEW b \in Bottles, \A i \in WineTastings(b) : IsPublished(i)
               PROVE  /\ Cardinality(WineTastings(b)) = Len(WineHistory(b))
                      /\ SumFunction([i \in WineRatings(b) |-> DetailRating(i)])
                          = SumFunction([i \in Range(RatingTrend(b)) |-> SummaryRating(i)])
    BY DEF MeansAgree
  <1>1. WineTastings(b) = HistoryOf(b)
    BY DEF WineTastings, HistoryOf, OnTimeline, Listed, IsPublished, Present
  <1>2. IsFiniteSet(HistoryOf(b))
    BY IdsFinite DEF HistoryOf, OnTimeline
  <1>3. Len(WineHistory(b)) = Cardinality(HistoryOf(b))
    BY <1>2, ListsAreOf, FS_CardinalityType
  <1>4. WineRatings(b) = Range(RatingTrend(b))
    BY <1>1, ListsAreOf DEF WineRatings, Rated, SummaryRating
  <1>5. [i \in WineRatings(b) |-> DetailRating(i)] = [i \in Range(RatingTrend(b)) |-> SummaryRating(i)]
    BY <1>4 DEF DetailRating, SummaryRating
  <1> QED BY <1>1, <1>3, <1>5

LEMMA OfferedAreApart == ASSUME PagesInv PROVE OfferedApart
  <1>1. Range(Timeline) = OnTimeline
    BY ListsAreOf DEF PagesInv
  <1>2. \A i \in OnTimeline : shelf[i].bottle # NoBottle /\ (shelf[i].heard \/ shelf[i].life = "none")
    BY DEF OnTimeline, IsPublished, PagesInv, HeardFirst
  <1> QED BY <1>1, <1>2 DEF OfferedApart, NeedsWine, NeedsAudio

LEMMA FitIsAsRated == ASSUME PagesTypeOK PROVE FitAsRated
  <1> SUFFICES ASSUME ProfileActive
               PROVE  /\ \A key \in DOMAIN Liked : Liked[key].n = Cardinality(HitsOf(Group(key)))
                      /\ \A i \in Listed : Keys(i) # {} /\ DetailRating(i) # Unrated =>
                            Fit(Keys(i)) \notin {"unknown", IF DetailRating(i) >= 4 THEN "dislike" ELSE "perfect"}
    BY DEF FitAsRated
  <1>1. \A i \in Listed : RatingOf(i) = DetailRating(i) /\ RatingOf(i) \in {0, 2, 4}
    BY NumbersOf DEF Listed, RatingOf, DetailRating, SummaryRating, DisplayRating
  <1> DEFINE met(scores) == {i \in Listed : RatingOf(i) \in scores}
             likedScores == {r \in Scores : r >= 4}
             dislikedScores == {r \in Scores : r <= 2}
  <1>2. likedScores = {4} /\ dislikedScores = {2}
    BY DEF Scores
  <1>3. /\ DOMAIN Liked = UNION {Keys(i) : i \in met({4})}
        /\ DOMAIN Disliked = UNION {Keys(i) : i \in met({2})}
    BY <1>2 DEF Liked, Disliked, Attributes
  <1>4. ASSUME NEW key \in DOMAIN Liked
        PROVE  Liked[key].n = Cardinality(HitsOf(Group(key)))
    <2>1. Liked[key].n = Cardinality({i \in met({4}) : key \in Keys(i)})
      BY <1>2, <1>4 DEF Liked, Attributes
    <2>2. {i \in met({4}) : key \in Keys(i)} = HitsOf(Group(key))
      BY <1>1 DEF HitsOf, Group, Unrated
    <2> QED BY <2>1, <2>2
  <1>5. ASSUME NEW i \in Listed, Keys(i) # {}, DetailRating(i) # Unrated
        PROVE  Fit(Keys(i)) \notin {"unknown", IF DetailRating(i) >= 4 THEN "dislike" ELSE "perfect"}
    <2> DEFINE likes == Keys(i) \cap DOMAIN Liked
               dislikes == Keys(i) \cap DOMAIN Disliked
    <2>1. DetailRating(i) = 4 \/ DetailRating(i) = 2
      BY <1>1, <1>5 DEF Unrated
    <2>2. DetailRating(i) = 4 => likes # {}
      <3>1. DetailRating(i) = 4 => Keys(i) \subseteq DOMAIN Liked
        BY <1>1, <1>3
      <3> QED BY <1>5, <3>1
    <2>3. DetailRating(i) = 2 => dislikes # {}
      <3>1. DetailRating(i) = 2 => Keys(i) \subseteq DOMAIN Disliked
        BY <1>1, <1>3
      <3> QED BY <1>5, <3>1
    <2>4. Fit(Keys(i)) = IF likes = {} THEN IF dislikes = {} THEN "unknown" ELSE "dislike"
                                       ELSE IF dislikes = {} THEN "perfect" ELSE "challenging"
      <3>1. CASE likes = {} /\ dislikes = {}
        BY <3>1 DEF Fit
      <3>2. CASE likes # {} /\ dislikes = {}
        BY <3>2 DEF Fit
      <3>3. CASE likes = {} /\ dislikes # {}
        BY <3>3 DEF Fit
      <3>4. CASE likes # {} /\ dislikes # {}
        BY <3>4 DEF Fit
      <3> QED BY <3>1, <3>2, <3>3, <3>4
    <2> HIDE DEF likes, dislikes
    <2> QED BY <2>1, <2>2, <2>3, <2>4
  <1> QED BY <1>4, <1>5

(* The timeline, the ranking, the trends, the wines' means, the captures   *)
(* offered for completion, the statistics and the profile say the same of  *)
(* the tastings (read.ts, profile.ts and stats.ts each work it out for     *)
(* themselves), for any number of tastings, wines, dates and changes.      *)
THEOREM PagesDoAgree == PagesSpec => []PagesAgree
  <1>1. PagesInv => PagesAgree
    BY RatingsDoAgree, MeansDoAgree, OfferedAreApart, FitIsAsRated DEF PagesInv, PagesAgree
  <1> QED BY <1>1, PagesInitInv, PagesNextInv, PTL DEF PagesSpec

LEMMA PagesTypes == PagesSpec => []PagesTypeOK
  <1>1. PagesInv => PagesTypeOK BY DEF PagesInv
  <1> QED BY <1>1, PagesInitInv, PagesNextInv, PTL DEF PagesSpec

-----------------------------------------------------------------------------
(* The regions.  While the loops run the table rests: a walk needs a tree   *)
(* only for pathFor, and what the check keeps is empty between its loops.   *)
Working ==
    /\ tree # "checking" => unchecked = {} /\ at = Nowhere /\ visiting = <<>>
    /\ walk # "none" => tree # "checking"
    /\ walk = "none" <=> path = <<>>
    /\ walk = "pathFor" => tree = "built"

\* checkChain waits along a chain: each region for its parent, the last for the one it is called for.
Waiting ==
    /\ \A i \in 1 .. Len(visiting) : above[visiting[i]] \in known
    /\ \A i \in 1 .. Len(visiting) - 1 : above[visiting[i]] = visiting[i + 1]
    /\ visiting # <<>> => IF at # Nowhere THEN above[visiting[Len(visiting)]] = at
                                          ELSE verdicts[above[visiting[Len(visiting)]]] # "none"

\* What isValidParentChain says so far.
VerdictsTrue == \A p \in known : /\ verdicts[p] = "valid" => ~Lost(p)
                                 /\ verdicts[p] = "invalid" => Lost(p)

\* No region is passed over.
AllChecked ==
    tree # "none" => \A p \in known : p \in unchecked \/ verdicts[p] # "none" \/ p = at \/ Visited(p)

\* The path is a chain of parents, and never climbs out of a chain that reaches a root.
WayUp == walk # "none" =>
             /\ \A i \in 2 .. Len(path) : Up(path[i]) = path[i - 1]
             /\ ~Lost(path[Len(path)]) => ~Lost(path[1])

RegionInv == RegionTypeOK /\ Working /\ Waiting /\ VerdictsTrue /\ AllChecked /\ WayUp

\* A region is lost with its parent: no counting of the chain's links is needed.
LEMMA LostWithParent ==
    ASSUME RegionTypeOK, NEW p \in known, above[p] \in known
    PROVE  Lost(p) <=> Lost(above[p])
  <1>1. above[p] # NoParent
    BY RegionAssumption DEF RegionTypeOK
  <1>2. ASSUME Lost(p) PROVE Lost(above[p])
    BY <1>2 DEF Lost
  <1>3. ASSUME Lost(above[p]) PROVE Lost(p)
    <2>1. PICK S \in SUBSET known :
             above[p] \in S /\ \A s \in S : above[s] # NoParent /\ (above[s] \in known => above[s] \in S)
      BY <1>3 DEF Lost
    <2> DEFINE T == S \cup {p}
    <2>2. T \in SUBSET known /\ p \in T
      OBVIOUS
    <2>3. \A s \in T : above[s] # NoParent /\ (above[s] \in known => above[s] \in T)
      BY <1>1, <2>1
    <2> HIDE DEF T
    <2> QED BY <2>2, <2>3 DEF Lost
  <1> QED BY <1>2, <1>3

\* Without a parent in the table, a region is lost unless it is a root.
LEMMA LostAlone ==
    ASSUME NEW p \in known, above[p] \notin known
    PROVE  Lost(p) <=> above[p] # NoParent
  <1>1. ASSUME Lost(p) PROVE above[p] # NoParent
    BY <1>1 DEF Lost
  <1>2. ASSUME above[p] # NoParent PROVE Lost(p)
    <2>1. {p} \in SUBSET known /\ p \in {p}
      OBVIOUS
    <2>2. \A s \in {p} : above[s] # NoParent /\ (above[s] \in known => above[s] \in {p})
      BY <1>2
    <2> QED BY <2>1, <2>2 DEF Lost
  <1> QED BY <1>1, <1>2

LEMMA RegionInitInv == RegionInit => RegionInv
  BY DEF RegionInit, RegionInv, RegionTypeOK, Working, Waiting, VerdictsTrue, AllChecked, WayUp, NoVerdicts

\* A change of the table, whichever it is, drops what was built.
LEMMA TableKeepsInv ==
    ASSUME RegionInv, TreeForgotten, known' \subseteq Places,
           above' \in [Places -> Places \cup {NoParent}], removing' \in Places \cup {NoParent}
    PROVE  RegionInv'
  <1>1. unchecked' = {} /\ at' = Nowhere /\ visiting' = <<>> /\ walk' = "none" /\ path' = <<>>
    BY DEF TreeForgotten, walkVars, RegionInv, Working
  <1>2. tree' = "none" /\ verdicts' = NoVerdicts
    BY DEF TreeForgotten
  <1>3. RegionTypeOK'
    BY <1>1, <1>2 DEF RegionTypeOK, NoVerdicts
  <1>4. \A p \in known' : verdicts'[p] = "none"
    BY <1>2 DEF NoVerdicts
  <1> QED BY <1>1, <1>2, <1>3, <1>4 DEF RegionInv, Working, Waiting, VerdictsTrue, AllChecked, WayUp

LEMMA LostStays ==
    ASSUME UNCHANGED <<known, above>>, NEW p
    PROVE  Lost(p)' <=> Lost(p)
  BY DEF Lost

\* Where checkChain ends without its parent: a cycle is the regions that wait from at's place on.
LEMMA CheckEndsKeeps == ASSUME RegionInv, CheckEnds PROVE RegionInv'
  <1>1. /\ at \in known /\ at' = Nowhere /\ at # Nowhere /\ tree = "checking" /\ walk = "none"
        /\ UNCHANGED <<known, above, removing, tree, unchecked, visiting, walk, path>>
    BY DEF CheckEnds, RegionInv, RegionTypeOK, Working, hierarchy, walkVars
  <1>2. /\ verdicts[at] # "none" => verdicts' = verdicts
        /\ verdicts[at] = "none" => verdicts' = [verdicts EXCEPT ![at] = Verdict(at)]
        /\ Verdict(at) \in {"valid", "invalid"}
    BY DEF CheckEnds, Verdict
  <1>3. /\ verdicts \in [Places -> {"none", "valid", "invalid"}] /\ known \subseteq Places
        /\ visiting \in Seq(known)
    BY DEF RegionInv, RegionTypeOK
  <1>4. verdicts' \in [Places -> {"none", "valid", "invalid"}] /\ verdicts'[at] # "none"
    BY <1>1, <1>2, <1>3
  <1>5. RegionTypeOK'
    BY <1>1, <1>4 DEF RegionInv, RegionTypeOK
  <1>6. \A p \in known : verdicts[p] # "none" => verdicts'[p] = verdicts[p]
    BY <1>1, <1>2, <1>3
  <1>7. Waiting'
    BY <1>1, <1>4 DEF RegionInv, Waiting
  <1>8. verdicts[at] = "none" => (Verdict(at) = "invalid" <=> Lost(at))
    <2> SUFFICES ASSUME verdicts[at] = "none" PROVE Verdict(at) = "invalid" <=> Lost(at)
      OBVIOUS
    <2>1. CASE above[at] \notin known
      BY <1>1, <2>1, LostAlone DEF Verdict
    <2>2. CASE above[at] \in known /\ Visited(at)
      <3>1. PICK k \in 1 .. Len(visiting) : visiting[k] = at
        BY <1>3, <2>2 DEF Visited
      <3> DEFINE S == {visiting[i] : i \in k .. Len(visiting)}
      <3>2. S \in SUBSET known /\ at \in S
        BY <1>3, <3>1
      <3>3. ASSUME NEW i \in k .. Len(visiting)
            PROVE  above[visiting[i]] \in known /\ above[visiting[i]] \in S
        <4>1. i \in 1 .. Len(visiting) /\ Len(visiting) \in Nat /\ visiting # <<>>
          BY <1>3, <3>1
        <4>2. CASE i = Len(visiting)
          <5>1. above[visiting[i]] = at
            BY <1>1, <4>1, <4>2 DEF RegionInv, Waiting
          <5> QED BY <1>1, <3>2, <5>1
        <4>3. CASE i # Len(visiting)
          <5>1. i \in 1 .. Len(visiting) - 1 /\ i + 1 \in k .. Len(visiting)
            BY <3>1, <4>1, <4>3
          <5>2. above[visiting[i]] = visiting[i + 1] /\ above[visiting[i]] \in known
            BY <4>1, <5>1 DEF RegionInv, Waiting
          <5> QED BY <5>1, <5>2
        <4> QED BY <4>2, <4>3
      <3>4. \A s \in S : above[s] # NoParent /\ above[s] \in S
        BY <1>3, <3>3, RegionAssumption
      <3> HIDE DEF S
      <3>5. Lost(at)
        BY <3>2, <3>4 DEF Lost
      <3>6. above[at] # NoParent
        BY <3>2, <3>4
      <3> QED BY <3>5, <3>6 DEF Verdict
    <2> QED BY <2>1, <2>2 DEF CheckEnds
  <1>9. VerdictsTrue'
    <2> SUFFICES ASSUME NEW p \in known
                 PROVE  /\ verdicts'[p] = "valid" => ~Lost(p)
                        /\ verdicts'[p] = "invalid" => Lost(p)
      BY <1>1, LostStays DEF VerdictsTrue
    <2>1. CASE verdicts'[p] = verdicts[p]
      BY <2>1 DEF RegionInv, VerdictsTrue
    <2>2. CASE p = at /\ verdicts[at] = "none"
      BY <1>1, <1>2, <1>3, <1>8, <2>2
    <2> QED BY <1>1, <1>2, <1>3, <2>1, <2>2
  <1>10. AllChecked'
    <2> SUFFICES ASSUME NEW p \in known
                 PROVE  p \in unchecked \/ verdicts'[p] # "none" \/ Visited(p)
      BY <1>1 DEF AllChecked, Visited
    <2>1. p \in unchecked \/ verdicts[p] # "none" \/ p = at \/ Visited(p)
      BY <1>1 DEF RegionInv, AllChecked
    <2> QED BY <1>4, <1>6, <2>1
  <1>11. Working' /\ WayUp'
    BY <1>1 DEF RegionInv, Working, WayUp
  <1> QED BY <1>5, <1>7, <1>9, <1>10, <1>11 DEF RegionInv

LEMMA CheckParentKeeps == ASSUME RegionInv, CheckParent PROVE RegionInv'
  <1>1. /\ at \in known /\ at' = above[at] /\ above[at] \in known /\ tree = "checking" /\ walk = "none"
        /\ visiting' = Append(visiting, at)
        /\ UNCHANGED <<known, above, removing, tree, unchecked, verdicts, walk, path>>
    BY DEF CheckParent, RegionInv, RegionTypeOK, Working, hierarchy, walkVars
  <1>2. visiting \in Seq(known) /\ Nowhere \notin known
    BY RegionAssumption DEF RegionInv, RegionTypeOK
  <1>3. /\ visiting' \in Seq(known) /\ Len(visiting') = Len(visiting) + 1
        /\ visiting'[Len(visiting')] = at
        /\ \A i \in 1 .. Len(visiting) : visiting'[i] = visiting[i]
    BY <1>1, <1>2
  <1>4. RegionTypeOK'
    BY <1>1, <1>3 DEF RegionInv, RegionTypeOK
  <1>5. Waiting'
    <2>1. ASSUME NEW i \in 1 .. Len(visiting')
          PROVE  above[visiting'[i]] \in known
      <3>1. i \in 1 .. Len(visiting) \/ i = Len(visiting')
        BY <1>2, <1>3
      <3> QED BY <1>1, <1>3, <3>1 DEF RegionInv, Waiting
    <2>2. ASSUME NEW i \in 1 .. Len(visiting') - 1
          PROVE  above[visiting'[i]] = visiting'[i + 1]
      <3>1. CASE i = Len(visiting)
        <4>1. visiting # <<>> /\ above[visiting[i]] = at
          BY <1>1, <1>2, <3>1 DEF RegionInv, Waiting
        <4> QED BY <1>2, <1>3, <3>1, <4>1
      <3>2. CASE i # Len(visiting)
        <4>1. i \in 1 .. Len(visiting) - 1 /\ i + 1 \in 1 .. Len(visiting) /\ i \in 1 .. Len(visiting)
          BY <1>2, <1>3, <3>2
        <4> QED BY <1>3, <4>1 DEF RegionInv, Waiting
      <3> QED BY <3>1, <3>2
    <2>3. at' # Nowhere /\ above[visiting'[Len(visiting')]] = at'
      BY <1>1, <1>2, <1>3
    <2> QED BY <1>1, <2>1, <2>2, <2>3 DEF Waiting
  <1>6. VerdictsTrue'
    BY <1>1, LostStays DEF RegionInv, VerdictsTrue
  <1>7. AllChecked'
    <2> SUFFICES ASSUME NEW p \in known
                 PROVE  p \in unchecked \/ verdicts[p] # "none" \/ \E i \in 1 .. Len(visiting') : visiting'[i] = p
      BY <1>1, <1>3 DEF AllChecked, Visited
    <2>1. p \in unchecked \/ verdicts[p] # "none" \/ p = at \/ \E i \in 1 .. Len(visiting) : visiting[i] = p
      BY <1>1, <1>2 DEF RegionInv, AllChecked, Visited
    <2>2. 1 .. Len(visiting) \subseteq 1 .. Len(visiting') /\ Len(visiting') \in 1 .. Len(visiting')
      BY <1>2, <1>3
    <2> QED BY <1>3, <2>1, <2>2
  <1>8. Working' /\ WayUp'
    BY <1>1 DEF RegionInv, Working, WayUp
  <1> QED BY <1>4, <1>5, <1>6, <1>7, <1>8 DEF RegionInv

\* The verdict of a parent is the child's.
LEMMA CheckReturnsKeeps == ASSUME RegionInv, CheckReturns PROVE RegionInv'
  <1> DEFINE n == Len(visiting)
             p == visiting[n]
  <1>1. /\ at = Nowhere /\ visiting # <<>> /\ tree = "checking" /\ walk = "none"
        /\ verdicts' = [verdicts EXCEPT ![p] = verdicts[above[p]]]
        /\ visiting' = SubSeq(visiting, 1, n - 1)
        /\ UNCHANGED <<known, above, removing, tree, unchecked, at, walk, path>>
    BY DEF CheckReturns, RegionInv, Working, hierarchy, walkVars
  <1>2. /\ visiting \in Seq(known) /\ n \in Nat /\ n > 0 /\ p \in known /\ known \subseteq Places
        /\ verdicts \in [Places -> {"none", "valid", "invalid"}]
    BY <1>1 DEF RegionInv, RegionTypeOK
  <1>3. /\ visiting' \in Seq(known) /\ Len(visiting') = n - 1
        /\ \A i \in 1 .. n - 1 : visiting'[i] = visiting[i]
    <2> HIDE DEF p
    <2>1. n - 1 \in Int /\ \A i \in 1 .. n - 1 : visiting[i] \in known
      BY <1>2
    <2>2. /\ SubSeq(visiting, 1, n - 1) \in Seq(known)
          /\ Len(SubSeq(visiting, 1, n - 1)) = IF 1 <= n - 1 THEN (n - 1) - 1 + 1 ELSE 0
          /\ \A i \in 1 .. (n - 1) - 1 + 1 : SubSeq(visiting, 1, n - 1)[i] = visiting[1 + i - 1]
      BY <2>1, SubSeqProperties
    <2> HIDE DEF n
    <2>3. \A i \in 1 .. n - 1 : i \in 1 .. (n - 1) - 1 + 1 /\ 1 + i - 1 = i
      BY <1>2
    <2> QED BY <1>1, <1>2, <2>2, <2>3
  <1>4. above[p] \in known /\ verdicts[above[p]] \in {"valid", "invalid"}
    <2>1. above[p] \in known /\ verdicts[above[p]] # "none"
      <3>1. Len(visiting) \in 1 .. Len(visiting)
        BY <1>2
      <3> QED BY <1>1, <3>1 DEF RegionInv, Waiting
    <2> HIDE DEF p
    <2> QED BY <1>2, <2>1
  <1>5. /\ verdicts' \in [Places -> {"none", "valid", "invalid"}] /\ verdicts'[p] = verdicts[above[p]]
        /\ \A q \in known : q # p => verdicts'[q] = verdicts[q]
    <2> HIDE DEF p
    <2> QED BY <1>1, <1>2, <1>4
  <1> HIDE DEF n, p
  <1>6. RegionTypeOK'
    BY <1>1, <1>3, <1>5 DEF RegionInv, RegionTypeOK
  <1>7. Waiting'
    <2>1. \A i \in 1 .. n - 1 : above[visiting'[i]] \in known
      BY <1>2, <1>3 DEF RegionInv, Waiting, n
    <2>2. \A i \in 1 .. n - 2 : above[visiting'[i]] = visiting'[i + 1]
      BY <1>2, <1>3 DEF RegionInv, Waiting, n
    <2>3. ASSUME visiting' # <<>>
          PROVE  verdicts'[above[visiting'[n - 1]]] # "none"
      <3>1. n - 1 \in 1 .. n - 1
        BY <1>2, <1>3, <2>3
      <3>2. above[visiting[n - 1]] = p
        BY <1>2, <3>1 DEF RegionInv, Waiting, n, p
      <3> QED BY <1>3, <1>4, <1>5, <3>1, <3>2
    <2>4. Len(visiting') - 1 = n - 2
      BY <1>2, <1>3
    <2> QED BY <1>1, <1>3, <2>1, <2>2, <2>3, <2>4 DEF Waiting
  <1>8. VerdictsTrue'
    <2> SUFFICES ASSUME NEW q \in known
                 PROVE  /\ verdicts'[q] = "valid" => ~Lost(q)
                        /\ verdicts'[q] = "invalid" => Lost(q)
      BY <1>1, LostStays DEF VerdictsTrue
    <2>1. CASE q = p
      BY <1>2, <1>4, <1>5, <2>1, LostWithParent DEF RegionInv, VerdictsTrue
    <2>2. CASE q # p
      BY <1>5, <2>2 DEF RegionInv, VerdictsTrue
    <2> QED BY <2>1, <2>2
  <1>9. AllChecked'
    <2> SUFFICES ASSUME NEW q \in known
                 PROVE  q \in unchecked \/ verdicts'[q] # "none" \/ \E i \in 1 .. n - 1 : visiting'[i] = q
      BY <1>1, <1>3 DEF AllChecked, Visited
    <2>1. q \in unchecked \/ verdicts[q] # "none" \/ \E i \in 1 .. n : visiting[i] = q
      BY <1>1, <1>2, RegionAssumption DEF RegionInv, AllChecked, Visited, n
    <2>2. \A i \in 1 .. n : i = n \/ i \in 1 .. n - 1
      BY <1>2
    <2> QED BY <1>3, <1>4, <1>5, <2>1, <2>2 DEF p
  <1>10. Working' /\ WayUp'
    BY <1>1 DEF RegionInv, Working, WayUp
  <1> QED BY <1>6, <1>7, <1>8, <1>9, <1>10 DEF RegionInv

LEMMA TreeStepsKeep ==
    ASSUME RegionInv, BuildTree \/ TreeBuilt \/ \E p \in Places : CheckNext(p)
    PROVE  RegionInv'
  <1>1. UNCHANGED <<known, above, removing, visiting, verdicts, walk, path>>
    BY DEF BuildTree, TreeBuilt, CheckNext, hierarchy, checkVars, walkVars
  <1>2. CASE BuildTree
    <2>1. RegionTypeOK'
      BY <1>1, <1>2 DEF BuildTree, RegionInv, RegionTypeOK
    <2>2. tree' = "checking" /\ unchecked' = known /\ at' = at /\ walk = "none"
      BY <1>2 DEF BuildTree
    <2>3. Working' /\ Waiting' /\ AllChecked' /\ WayUp'
      BY <1>1, <2>2 DEF RegionInv, Working, Waiting, AllChecked, WayUp
    <2>4. VerdictsTrue'
      BY <1>1, LostStays DEF RegionInv, VerdictsTrue
    <2> QED BY <2>1, <2>3, <2>4 DEF RegionInv
  <1>3. CASE TreeBuilt
    <2>1. RegionTypeOK'
      BY <1>1, <1>3 DEF TreeBuilt, checkVars, RegionInv, RegionTypeOK
    <2>2. /\ tree = "checking" /\ tree' = "built" /\ at = Nowhere /\ visiting = <<>> /\ unchecked = {}
          /\ at' = at /\ unchecked' = unchecked
      BY <1>3 DEF TreeBuilt, checkVars
    <2>3. Working' /\ Waiting' /\ WayUp'
      BY <1>1, <2>2 DEF RegionInv, Working, Waiting, WayUp
    <2>4. AllChecked'
      BY <1>1, <2>2 DEF RegionInv, AllChecked, Visited
    <2>5. VerdictsTrue'
      BY <1>1, LostStays DEF RegionInv, VerdictsTrue
    <2> QED BY <2>1, <2>3, <2>4, <2>5 DEF RegionInv
  <1>4. ASSUME NEW p \in Places, CheckNext(p) PROVE RegionInv'
    <2>1. /\ tree = "checking" /\ tree' = tree /\ at = Nowhere /\ visiting = <<>> /\ p \in unchecked
          /\ at' = p /\ unchecked' = unchecked \ {p}
      BY <1>4 DEF CheckNext
    <2>2. RegionTypeOK'
      BY <1>1, <2>1 DEF RegionInv, RegionTypeOK
    <2>3. Working' /\ Waiting' /\ WayUp'
      BY <1>1, <2>1 DEF RegionInv, Working, Waiting, WayUp
    <2>4. AllChecked'
      <3> SUFFICES ASSUME NEW q \in known
                   PROVE  q \in unchecked \ {p} \/ verdicts[q] # "none" \/ q = p
        BY <1>1, <2>1 DEF AllChecked
      <3>1. q \in unchecked \/ verdicts[q] # "none" \/ q = at \/ Visited(q)
        BY <2>1 DEF RegionInv, AllChecked
      <3>2. q # at /\ ~Visited(q)
        BY <2>1, RegionAssumption DEF RegionInv, RegionTypeOK, Visited
      <3> QED BY <3>1, <3>2
    <2>5. VerdictsTrue'
      BY <1>1, LostStays DEF RegionInv, VerdictsTrue
    <2> QED BY <2>2, <2>3, <2>4, <2>5 DEF RegionInv
  <1> QED BY <1>2, <1>3, <1>4

\* Both walks follow the table's parents.
LEMMA UpIsAbove ==
    ASSUME RegionInv, NEW p \in known, Up(p) \in known
    PROVE  above[p] = Up(p)
  BY RegionAssumption DEF Up, EffectiveParent, RegionInv, RegionTypeOK

LEMMA WalkUpKeeps == ASSUME RegionInv, WalkUp PROVE RegionInv'
  <1> DEFINE q == Up(path[1])
             n == Len(path)
  <1>1. /\ walk # "none" /\ q \in known /\ path' = <<q>> \o path
        /\ UNCHANGED <<known, above, removing, tree, unchecked, at, visiting, verdicts, walk>>
    BY DEF WalkUp, hierarchy, checkVars
  <1>2. path \in Seq(known) /\ n \in Nat /\ n > 0 /\ path[1] \in known
    BY <1>1 DEF RegionInv, RegionTypeOK, Working
  <1>3. above[path[1]] = q
    BY <1>1, <1>2, UpIsAbove
  <1> HIDE DEF q
  <1>5. /\ path' \in Seq(known) /\ path' # <<>> /\ Len(path') = n + 1 /\ path'[1] = q
        /\ \A i \in 2 .. n + 1 : path'[i] = path[i - 1]
    BY <1>1, <1>2
  <1>6. RegionTypeOK'
    BY <1>1, <1>5 DEF RegionInv, RegionTypeOK
  <1>7. Working' /\ Waiting'
    BY <1>1, <1>2, <1>5 DEF RegionInv, Working, Waiting
  <1>8. VerdictsTrue' /\ AllChecked'
    BY <1>1, LostStays DEF RegionInv, VerdictsTrue, AllChecked, Visited
  <1>9. WayUp'
    <2>1. ASSUME NEW i \in 2 .. Len(path')
          PROVE  (Up(path[i]) = path[i - 1])'
      <3>1. Up(path[i])' = Up(path[i - 1])
        BY <1>1, <1>5, <2>1 DEF Up, EffectiveParent
      <3>2. CASE i = 2
        BY <1>5, <3>1, <3>2 DEF q
      <3>3. CASE i # 2
        <4>1. i - 1 \in 2 .. n /\ i - 1 \in 2 .. n + 1
          BY <1>2, <1>5, <3>3
        <4>2. Up(path[i - 1]) = path[i - 1 - 1]
          BY <1>1, <4>1 DEF RegionInv, WayUp
        <4> QED BY <1>5, <3>1, <4>1, <4>2
      <3> QED BY <3>2, <3>3
    <2>2. ASSUME ~Lost(path[Len(path)])' PROVE ~Lost(path[1])'
      <3>1. path'[Len(path')] = path[n]
        BY <1>2, <1>5
      <3>2. ~Lost(path[n])
        BY <1>1, <2>2, <3>1 DEF Lost
      <3>3. ~Lost(path[1])
        BY <1>1, <3>2 DEF RegionInv, WayUp
      <3>4. ~Lost(q)
        BY <1>1, <1>2, <1>3, <3>3, LostWithParent DEF RegionInv
      <3> QED BY <1>1, <1>5, <3>4 DEF Lost
    <2> QED BY <2>1, <2>2 DEF WayUp
  <1> QED BY <1>6, <1>7, <1>8, <1>9 DEF RegionInv

LEMMA WalkFromKeeps ==
    ASSUME RegionInv, NEW by \in {"pathFor", "regionPath"}, NEW p \in Places, WalkFrom(by, p)
    PROVE  RegionInv'
  <1>1. /\ walk = "none" /\ p \in known /\ walk' = by /\ path' = <<p>> /\ tree # "checking"
        /\ by = "pathFor" => tree = "built"
        /\ UNCHANGED <<known, above, removing, tree, unchecked, at, visiting, verdicts>>
    BY DEF WalkFrom, hierarchy, checkVars
  <1>2. path' \in Seq(known) /\ Len(path') = 1 /\ path'[1] = p /\ path' # <<>>
    BY <1>1
  <1>3. RegionTypeOK'
    BY <1>1, <1>2 DEF RegionInv, RegionTypeOK
  <1>4. Working' /\ Waiting'
    BY <1>1, <1>2 DEF RegionInv, Working, Waiting
  <1>5. VerdictsTrue' /\ AllChecked'
    BY <1>1, LostStays DEF RegionInv, VerdictsTrue, AllChecked, Visited
  <1>6. WayUp'
    BY <1>2 DEF WayUp
  <1> QED BY <1>3, <1>4, <1>5, <1>6 DEF RegionInv

LEMMA WalkEndsKeeps == ASSUME RegionInv, WalkEnds PROVE RegionInv'
  <1>1. /\ walk' = "none" /\ path' = <<>>
        /\ UNCHANGED <<known, above, removing, tree, unchecked, at, visiting, verdicts>>
    BY DEF WalkEnds, hierarchy, checkVars
  <1>2. RegionTypeOK'
    BY <1>1 DEF RegionInv, RegionTypeOK
  <1>3. Working' /\ Waiting' /\ WayUp'
    BY <1>1 DEF RegionInv, Working, Waiting, WayUp
  <1>4. VerdictsTrue' /\ AllChecked'
    BY <1>1, LostStays DEF RegionInv, VerdictsTrue, AllChecked, Visited
  <1> QED BY <1>2, <1>3, <1>4 DEF RegionInv

LEMMA RegionNextInv == RegionInv /\ [RegionNext]_regionVars => RegionInv'
  <1> SUFFICES ASSUME RegionInv, [RegionNext]_regionVars PROVE RegionInv'
    OBVIOUS
  <1>1. CASE UNCHANGED regionVars
    <2>1. UNCHANGED <<known, above, removing, tree, unchecked, at, visiting, verdicts, walk, path>>
      BY <1>1 DEF regionVars, hierarchy, checkVars, walkVars
    <2> QED BY <2>1, LostStays DEF RegionInv, RegionTypeOK, Working, Waiting, VerdictsTrue, AllChecked,
                                   Visited, WayUp, Up, EffectiveParent
  <1>2. ASSUME NEW p \in Places, NEW q \in Places \cup {NoParent}, CreatePlace(p, q)
        PROVE  RegionInv'
    BY <1>2, TableKeepsInv DEF CreatePlace, RegionInv, RegionTypeOK
  <1>3. ASSUME NEW p \in Places, NEW q \in Places, MovePlace(p, q)
        PROVE  RegionInv'
    BY <1>3, TableKeepsInv DEF MovePlace, RegionInv, RegionTypeOK
  <1>4. ASSUME NEW p \in Places, CheckPlace(p)
        PROVE  RegionInv'
    BY <1>4, TableKeepsInv DEF CheckPlace, RegionInv, RegionTypeOK
  <1>5. CASE RemovePlace
    BY <1>5, TableKeepsInv DEF RemovePlace, RegionInv, RegionTypeOK
  <1> QED BY <1>1, <1>2, <1>3, <1>4, <1>5, TreeStepsKeep, CheckEndsKeeps, CheckParentKeeps, CheckReturnsKeeps,
             WalkFromKeeps, WalkUpKeeps, WalkEndsKeeps DEF RegionNext

\* A walk along the table's parents that came back to its own path went through a cycle.
LEMMA BackIsLost ==
    ASSUME RegionInv, walk # "none", OnPath(above[path[1]])
    PROVE  Lost(path[1])
  <1> DEFINE S == {path[i] : i \in 1 .. Len(path)}
  <1>1. path \in Seq(known) /\ Len(path) \in Nat /\ 1 \in 1 .. Len(path)
    BY DEF RegionInv, RegionTypeOK, Working
  <1>2. S \in SUBSET known /\ path[1] \in S
    BY <1>1
  <1>3. ASSUME NEW i \in 1 .. Len(path) PROVE above[path[i]] \in S
    <2>1. CASE i = 1
      BY <1>1, <2>1 DEF OnPath
    <2>2. CASE i # 1
      <3>1. i \in 2 .. Len(path) /\ i - 1 \in 1 .. Len(path)
        BY <1>1, <2>2
      <3>2. Up(path[i]) = path[i - 1] /\ path[i - 1] \in known /\ path[i] \in known
        BY <1>1, <3>1 DEF RegionInv, WayUp
      <3>3. above[path[i]] = path[i - 1]
        BY <3>2, UpIsAbove
      <3> QED BY <3>1, <3>3
    <2> QED BY <2>1, <2>2
  <1>4. \A s \in S : above[s] # NoParent /\ above[s] \in S
    BY <1>2, <1>3, RegionAssumption DEF RegionInv, RegionTypeOK
  <1> HIDE DEF S
  <1> QED BY <1>2, <1>4 DEF Lost

LEMMA RegionInvSays == RegionInv => RegionsFound
  <1> SUFFICES ASSUME RegionInv PROVE RegionsFound
    OBVIOUS
  <1>1. ASSUME tree = "built", NEW p \in known
        PROVE  verdicts[p] = IF Lost(p) THEN "invalid" ELSE "valid"
    <2>1. verdicts[p] \in {"none", "valid", "invalid"} /\ p # Nowhere
      BY RegionAssumption DEF RegionInv, RegionTypeOK
    <2>2. verdicts[p] # "none"
      BY <1>1, <2>1 DEF RegionInv, AllChecked, Working, Visited
    <2> QED BY <2>1, <2>2 DEF RegionInv, VerdictsTrue
  <1>2. ASSUME Walked
        PROVE  /\ walk = "pathFor" => Browse(path)
               /\ ~Lost(path[Len(path)]) =>
                     /\ above[path[1]] = NoParent
                     /\ \A i \in 2 .. Len(path) : above[path[i]] = path[i - 1]
    <2>1. /\ path \in Seq(known) /\ Len(path) \in Nat /\ 1 \in 1 .. Len(path) /\ path[1] \in known
          /\ walk # "none"
      BY <1>2 DEF Walked, RegionInv, RegionTypeOK, Working
    <2>2. \A i \in 2 .. Len(path) : /\ path[i] \in known /\ path[i - 1] \in known
                                    /\ Up(path[i]) = path[i - 1] /\ above[path[i]] = path[i - 1]
      <3> TAKE i \in 2 .. Len(path)
      <3>1. i \in 1 .. Len(path) /\ i - 1 \in 1 .. Len(path)
        BY <2>1
      <3>2. path[i] \in known /\ path[i - 1] \in known /\ Up(path[i]) = path[i - 1]
        BY <2>1, <3>1 DEF RegionInv, WayUp
      <3> QED BY <3>2, UpIsAbove
    <2>3. ASSUME Up(path[1]) \in known PROVE Lost(path[1])
      <3>1. above[path[1]] = Up(path[1])
        BY <2>1, <2>3, UpIsAbove
      <3> QED BY <1>2, <2>1, <2>3, <3>1, BackIsLost DEF Walked
    <2>4. ASSUME walk = "pathFor" PROVE Browse(path)
      <3>1. \A p \in known : Up(p) = EffectiveParent(p)
        BY <2>4 DEF Up
      <3>2. EffectiveParent(path[1]) = NoParent
        <4>1. ASSUME EffectiveParent(path[1]) # NoParent PROVE FALSE
          <5>1. Up(path[1]) \in known /\ verdicts[path[1]] = "valid"
            BY <2>1, <3>1, <4>1 DEF EffectiveParent
          <5> QED BY <2>1, <2>3, <5>1 DEF RegionInv, VerdictsTrue
        <4> QED BY <4>1
      <3> QED BY <2>1, <2>2, <3>1, <3>2 DEF Browse, ChildrenOf
    <2>5. ASSUME ~Lost(path[Len(path)]) PROVE above[path[1]] = NoParent
      <3>1. ~Lost(path[1])
        BY <2>1, <2>5 DEF RegionInv, WayUp
      <3>2. CASE above[path[1]] \notin known
        BY <2>1, <3>1, <3>2, LostAlone
      <3>3. CASE above[path[1]] \in known
        <4>1. CASE walk = "regionPath"
          BY <2>3, <3>1, <3>3, <4>1 DEF Up
        <4>2. CASE walk = "pathFor"
          <5>1. verdicts[path[1]] = "valid"
            BY <1>1, <2>1, <3>1, <4>2 DEF RegionInv, Working
          <5>2. Up(path[1]) \in known
            BY <3>3, <4>2, <5>1 DEF Up, EffectiveParent
          <5> QED BY <2>3, <3>1, <5>2
        <4> QED BY <2>1, <4>1, <4>2 DEF RegionInv, RegionTypeOK
      <3> QED BY <3>2, <3>3
    <2> QED BY <2>2, <2>4, <2>5
  <1> QED BY <1>1, <1>2 DEF RegionsFound

(* buildRegionTree promotes exactly the regions whose chain of parents     *)
(* never reaches a root, whatever cycles and orphans two updates or a      *)
(* deletion in two steps have left; the Explore page finds every region by *)
(* its path; a region that is not lost has its whole chain for path, in    *)
(* the tree and in regionPath.                                             *)
THEOREM RegionsAreFound == RegionSpec => []RegionsFound
  <1> QED BY RegionInitInv, RegionNextInv, RegionInvSays, PTL DEF RegionSpec

LEMMA RegionTypes == RegionSpec => []RegionTypeOK
  <1>1. RegionInv => RegionTypeOK BY DEF RegionInv
  <1> QED BY <1>1, RegionInitInv, RegionNextInv, PTL DEF RegionSpec
=============================================================================
