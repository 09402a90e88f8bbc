------------------------------- MODULE Catalog -------------------------------
(***************************************************************************)
(* The references between wines, wineries, regions and tastings, and the   *)
(* service calls that keep them: a call reads the targets it refers to, or *)
(* scans for items that refer to what it deletes, and only then writes.    *)
(* Every await is an action, so calls of several editors interleave        *)
(* between the check and the write.                                        *)
(***************************************************************************)
EXTENDS Integers, FiniteSets

CONSTANTS Wines, Wineries, Regions, Tastings,   \* ids (random, never used twice)
          NoItem,                               \* no item
          Editors,                              \* calls that may overlap
          MaxCalls                              \* service calls altogether

Items == Wines \union Wineries \union Regions \union Tastings

ASSUME KindsAssumption ==
    /\ Wines \intersect Wineries = {} /\ Wines \intersect Regions = {}
    /\ Wines \intersect Tastings = {} /\ Wineries \intersect Regions = {}
    /\ Wineries \intersect Tastings = {} /\ Regions \intersect Tastings = {}
    /\ NoItem \notin Items
    /\ MaxCalls \in Nat

VARIABLES item,    \* the stored items
          call,    \* what each editor's request is doing
          left     \* calls left

vars == <<item, call, left>>

-----------------------------------------------------------------------------
(* Items                                                                   *)

\* What an item may refer to: a wine its winery and its region, a winery its
\* region, a region its parent, a tasting its wine; at most one of each kind.
Targets(i) ==
    CASE i \in Wines    -> Wineries \union Regions
      [] i \in Wineries -> Regions
      [] i \in Regions  -> Regions
      [] OTHER          -> Wines

SameKind(j, k) == \E Kind \in {Wines, Wineries, Regions, Tastings} : {j, k} \subseteq Kind

OnePerKind(S) == \A j, k \in S : SameKind(j, k) => j = k

Refs == [i \in Items |-> {S \in SUBSET Targets(i) : OnePerKind(S)}]

\* note stands for the descriptive fields of a wine that a label recognition
\* may fill: not set, from a label, or as an editor wrote it.
Note == {"none", "label", "editor"}

Item == [state : {"fresh", "stored", "deleted"}, ref : SUBSET Items, note : Note,
         draft : BOOLEAN, rev : Nat]
Fresh == [state |-> "fresh", ref |-> {}, note |-> "none", draft |-> FALSE, rev |-> 0]

Stored(i) == item[i].state = "stored"

RefersTo(i, j) == Stored(i) /\ j \in item[i].ref

\* References of stored items to something that is not there.
Dangling == {p \in Items \X Items : RefersTo(p[1], p[2]) /\ ~Stored(p[2])}

-----------------------------------------------------------------------------
(* Calls                                                                   *)

\* calm is history: no other call has written since this one began.
Call == [pc : {"idle", "check", "write", "scan", "remove"},
         op : {"none", "create", "update", "attach", "fill", "delete"},
         i : Items \union {NoItem}, ref : SUBSET Items, note : Note, draft : BOOLEAN,
         rev : Nat, todo : SUBSET Items, broken : BOOLEAN, calm : BOOLEAN]

NoCall == [pc |-> "idle", op |-> "none", i |-> NoItem, ref |-> {}, note |-> "none",
           draft |-> FALSE, rev |-> 0, todo |-> {}, broken |-> FALSE, calm |-> TRUE]

TypeOK ==
    /\ item \in [Items -> Item]
    /\ \A i \in Items : item[i].ref \in Refs[i]
    /\ call \in [Editors -> Call]
    /\ \A e \in Editors : call[e].pc # "idle" =>
          call[e].i \in Items /\ call[e].ref \in Refs[call[e].i]
    /\ left \in Nat

\* The references of i among the pairs refs.
RefsIn(refs, i) == {j \in Items : <<i, j>> \in refs}

\* One can number the regions so that parents have smaller numbers.
Hierarchy(refs) ==
    \E n \in [Regions -> 1..Cardinality(Regions)] :
        \A r \in Regions : \A p \in RefsIn(refs, r) : n[p] < n[r]

Bare(stored, refs, drafts) ==
    [i \in Items |->
        IF i \in stored
        THEN [Fresh EXCEPT !.state = "stored", !.ref = RefsIn(refs, i), !.draft = i \in drafts]
        ELSE Fresh]

\* Any catalogue of bare wines that creations one after the other can have left
\* behind.
Init ==
    /\ \E stored \in SUBSET Items, drafts \in SUBSET Wines :
       \E refs \in SUBSET {p \in stored \X stored : p[2] \in Targets(p[1])} :
          /\ \A i \in stored : RefsIn(refs, i) \in Refs[i]
          /\ Hierarchy(refs)
          /\ item = Bare(stored, refs, drafts)
    /\ call = [e \in Editors |-> NoCall]
    /\ left = MaxCalls

Begin(e, c) ==
    /\ call[e].pc = "idle" /\ left > 0
    /\ call' = [call EXCEPT ![e] = c]
    /\ left' = left - 1
    /\ UNCHANGED item

\* The call ends without having written.
End(e) ==
    /\ call' = [call EXCEPT ![e] = NoCall]
    /\ UNCHANGED item

\* The call ends with this write: no other running call is calm any more.
EndWriting(e, i, new) ==
    /\ item' = [item EXCEPT ![i] = new]
    /\ call' = [d \in Editors |->
          IF d = e THEN NoCall ELSE [call[d] EXCEPT !.calm = call[d].pc = "idle"]]

\* A call that writes its item after it has checked the references.
Checking(op, i, ref, note, draft, rev) ==
    [pc |-> IF ref = {} THEN "write" ELSE "check", op |-> op, i |-> i, ref |-> ref,
     note |-> note, draft |-> draft, rev |-> rev, todo |-> ref, broken |-> FALSE, calm |-> TRUE]

\* createWine, createWinery, createRegion, createTasting, under a new id.
Create(e, i) ==
    /\ item[i].state = "fresh"
    /\ \A d \in Editors : call[d].i = i => call[d].op # "create"
    /\ \E ref \in Refs[i], n \in Note, d \in BOOLEAN :
          /\ i \notin Wines => n = "none" /\ ~d
          /\ Begin(e, Checking("create", i, ref, n, d, 0))

\* updateWine, updateWinery, updateRegion, updateTasting, with the rev the
\* editor's page shows.  Only a region's reference to itself is refused at once.
Update(e, i) ==
    /\ Stored(i)
    /\ \E ref \in Refs[i], n \in {item[i].note, "editor"}, d \in BOOLEAN :
          /\ i \notin ref
          /\ i \in Tastings => ref = {}
          /\ i \notin Wines => n = "none" /\ ~d
          /\ Begin(e, Checking("update", i, ref, n, d, item[i].rev))

\* attachWineToTasting reads the tasting, then checks the wine.
Attach(e, t) ==
    /\ t \in Tastings /\ Stored(t)
    /\ \E w \in Wines : Begin(e, Checking("attach", t, {w}, "none", FALSE, item[t].rev))

\* fillMissingWineFields: nothing is written where nothing is missing.
Fill(e, w) ==
    /\ w \in Wines /\ Stored(w) /\ item[w].note = "none"
    /\ Begin(e, [NoCall EXCEPT !.pc = "write", !.op = "fill", !.i = w, !.note = "label",
                               !.draft = item[w].draft, !.rev = item[w].rev])

\* deleteWine, deleteWinery, deleteRegion; a tasting is deleted without a scan.
Delete(e, i) ==
    /\ Stored(i)
    /\ \/ i \in Tastings /\ Begin(e, [NoCall EXCEPT !.pc = "remove", !.op = "delete", !.i = i])
       \/ i \notin Tastings /\ Begin(e, [NoCall EXCEPT !.pc = "scan", !.op = "delete", !.i = i])

\* Mutant of CheckRef: a missing target is noticed only if it is the last one.
CheckRefForgets(e) ==
    /\ call[e].pc = "check"
    /\ \E j \in call[e].todo :
          /\ j \notin Wineries => call[e].todo \intersect Wineries = {}
          /\ LET rest == call[e].todo \ {j}
                 bad  == ~Stored(j)
             IN  IF rest = {} /\ bad THEN End(e) ELSE
                 /\ call' = [call EXCEPT ![e].todo = rest, ![e].broken = bad,
                                ![e].pc = IF rest = {} THEN "write" ELSE "check"]
                 /\ UNCHANGED item
    /\ UNCHANGED left

\* assertRefsExist reads one target after the other and throws at the end.
CheckRef(e) ==
    /\ call[e].pc = "check"
    /\ \E j \in call[e].todo :
          /\ j \notin Wineries => call[e].todo \intersect Wineries = {}
          /\ LET rest == call[e].todo \ {j}
                 bad  == call[e].broken \/ ~Stored(j)
             IN  IF rest = {} /\ bad THEN End(e) ELSE
                 /\ call' = [call EXCEPT ![e].todo = rest, ![e].broken = bad,
                                ![e].pc = IF rest = {} THEN "write" ELSE "check"]
                 /\ UNCHANGED item
    /\ UNCHANGED left

\* Mutant of Patched: the new references are added to the old ones.
PatchedAppends(i, c) == [item[i] EXCEPT !.ref = @ \union c.ref, !.note = c.note,
                                        !.draft = c.draft, !.rev = @ + 1]

\* patchItem skips what is undefined, so a reference is replaced, never taken away.
Patched(i, c) ==
    [item[i] EXCEPT !.ref = {j \in @ : \A k \in c.ref : ~SameKind(j, k)} \union c.ref,
                    !.note = IF c.op = "attach" THEN @ ELSE c.note,
                    !.draft = IF c.op = "attach" THEN @ ELSE c.draft,
                    !.rev = @ + 1]

\* Mutant of Write: a patch without the rev condition, which also creates.
WriteUnconditional(e) ==
    /\ call[e].pc = "write"
    /\ LET c == call[e]  i == c.i IN
       IF c.op = "create"
       THEN EndWriting(e, i, [state |-> "stored", ref |-> c.ref, note |-> c.note,
                              draft |-> c.draft, rev |-> 0])
       ELSE EndWriting(e, i, [Patched(i, c) EXCEPT !.state = "stored"])
    /\ UNCHANGED left

\* put for a creation; otherwise patchItem with its rev condition.
Write(e) ==
    /\ call[e].pc = "write"
    /\ LET c == call[e]  i == c.i IN
       \/ /\ c.op = "create"
          /\ EndWriting(e, i, [state |-> "stored", ref |-> c.ref, note |-> c.note,
                               draft |-> c.draft, rev |-> 0])
       \/ /\ c.op # "create" /\ Stored(i) /\ item[i].rev = c.rev
          /\ EndWriting(e, i, Patched(i, c))
       \/ /\ c.op # "create" /\ ~(Stored(i) /\ item[i].rev = c.rev)
          /\ End(e)
    /\ UNCHANGED left

\* assertNoBackrefs over a Scan of the table, its pages taken as one read.
Scan(e) ==
    /\ call[e].pc = "scan"
    /\ IF \E j \in Items : RefersTo(j, call[e].i) THEN End(e) ELSE
       /\ call' = [call EXCEPT ![e].pc = "remove"]
       /\ UNCHANGED item
    /\ UNCHANGED left

\* DeleteItem, whatever has happened since the scan.
Remove(e) ==
    /\ call[e].pc = "remove"
    /\ EndWriting(e, call[e].i, [Fresh EXCEPT !.state = "deleted"])
    /\ UNCHANGED left

Next ==
    \E e \in Editors :
        \/ /\ call[e].pc = "idle" /\ left > 0
           /\ \E i \in Items : \/ Create(e, i) \/ Update(e, i) \/ Attach(e, i)
                               \/ Fill(e, i) \/ Delete(e, i)
        \/ CheckRef(e) \/ Write(e) \/ Scan(e) \/ Remove(e)

Spec == Init /\ [][Next]_vars

-----------------------------------------------------------------------------
(* Properties                                                              *)

\* A call that no other write disturbed leaves no reference dangling that was
\* not dangling before: run one at a time, assertRefsExist and assertNoBackrefs
\* keep the references whole.
CalmKeepsReferences ==
    [][\A e \in Editors : call[e].calm /\ call[e].pc # "idle" /\ call'[e].pc = "idle"
          => Dangling' \subseteq Dangling]_vars

\* fillMissingWineFields changes only what is missing, and neither what an editor has written
\* nor the editor's confirmation, even if that arrives after the fill has read.
FillYields ==
    [][\A e \in Editors, w \in Wines :
          call[e].op = "fill" /\ call'[e].pc = "idle" /\ item'[w] # item[w]
             => item[w].note = "none" /\ item'[w].draft = item[w].draft]_vars

\* An item that was deleted never comes back, whatever calls were under way.
DeletedStays ==
    [][\A i \in Items : item[i].state = "deleted" => item'[i].state = "deleted"]_vars

\* No reference to an item that does not exist is ever stored, as the requirements
\* ask of the service; calls that overlap break it.
NoDangling == Dangling = {}

-----------------------------------------------------------------------------
(* The store the services work on                                          *)

\* The descriptive part of an item.
Fields == [ref : SUBSET Items, note : Note, draft : BOOLEAN]

RowOf(i) == [state |-> item[i].state,
             data |-> [ref |-> item[i].ref, note |-> item[i].note, draft |-> item[i].draft]]

\* A call that will patch means to change its item, and is current as long as
\* the item is stored with the rev the call has seen.
Patching(e) == call[e].op \in {"update", "attach", "fill"}
IntentOf(e) ==
    IF Patching(e)
    THEN [key |-> call[e].i,
          current |-> Stored(call[e].i) /\ item[call[e].i].rev = call[e].rev]
    ELSE [key |-> NoItem, current |-> FALSE]

Rows == [i \in Items |-> RowOf(i)]
Intents == [e \in Editors |-> IntentOf(e)]

Store == INSTANCE RevStore WITH Keys <- Items, Clients <- Editors, Data <- Fields,
                                NoKey <- NoItem, row <- Rows, intent <- Intents

\* Revision numbers implement the store of RevStore: of the updates, wine
\* attachments and label fills that have read the same item the first to write
\* wins, and none writes over what it has not read.
FirstWriterWins == Store!StoreSpec

=============================================================================
