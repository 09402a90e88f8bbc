------------------------------- MODULE Table -------------------------------
(***************************************************************************)
(* The one table and its index (lib/db/keys.ts, lib/db/repository.ts,      *)
(* lib/db/upcast.ts).  A list, a scan and a tasting's bundle are read page *)
(* by page while other calls put, patch and delete.  The condition on rev  *)
(* is RevStore's subject and left out here; what counts is where an item   *)
(* lies, under which index key, and which readers can parse it.            *)
(***************************************************************************)
EXTENDS Integers, FiniteSets

CONSTANTS ListedKinds,                  \* some of WINE, WINERY, REGION, TASTING, DISCOVERY
          Numbers,                      \* their ids
          Bundled,                      \* the tastings of them that may have items below
          Marks,                        \* what index keys are made of: names, dates, statuses
          PageItems,                    \* what one answer of the database holds
          MaxChanges                    \* bound: writes

ASSUME TableAssumption == /\ ListedKinds \subseteq {"WINE", "WINERY", "REGION", "TASTING", "DISCOVERY"}
                          /\ Numbers \subseteq Nat /\ IsFiniteSet(Numbers)
                          /\ Bundled \subseteq Numbers
                          /\ Marks \subseteq Nat \ {0}
                          /\ PageItems \in Nat \ {0} /\ MaxChanges \in Nat

ChildKinds == {"ANALYSIS", "JOB", "RECORDING"}
Rows == (ListedKinds \X Numbers) \cup ((ChildKinds \cup {"RATE"}) \X Bundled)
Kind(k) == k[1]
Number(k) == k[2]

NoSlot == 0
Gone == [shape |-> "gone", mark |-> 0, slot |-> NoSlot]     \* ids are not used again
Unused == [shape |-> "unborn", mark |-> 0, slot |-> NoSlot]

VARIABLES table,                        \* Rows -> item
          reindex,                      \* patchJob: the status its second update carries
          read,                         \* the call that reads, page by page
          changes                       \* history: writes made, a bound

tableVars == <<table, reindex, read, changes>>

NoRead == [op |-> "none", kind |-> "", number |-> 0, cursor |-> {}, got |-> {},
           steady |-> {}, done |-> FALSE]

TableTypeOK ==
    /\ table \in [Rows -> [shape : {"gone", "unborn", "v1", "v2", "half", "count"},
                           mark : Marks \cup {0}, slot : Marks \cup {NoSlot}]]
    /\ reindex \in [Bundled -> Marks \cup {0}]
    /\ read.op \in {"none", "asc", "desc", "scan", "bundle"}
    /\ read.steady \subseteq Rows
    /\ \A e \in read.got : e.key \in Rows
    /\ changes \in 0 .. MaxChanges

\* Items of an older release lie in the table as it put them, without a rev.
TableInit ==
    /\ table \in [Rows -> {Unused} \cup [shape : {"v1"}, mark : Marks, slot : Marks]]
    /\ \A k \in Rows : table[k] # Unused => Kind(k) \in ListedKinds /\ table[k].slot = table[k].mark
    /\ reindex = [n \in Bundled |-> 0]
    /\ read = NoRead
    /\ changes = 0

-----------------------------------------------------------------------------
(* Keys.                                                                   *)

\* A tasting's partition holds the last four in this order: ANALYSIS < JOB < META < REC#.
Rank(kind) == CASE kind = "WINE" -> 1     [] kind = "WINERY" -> 2   [] kind = "REGION" -> 3
                [] kind = "DISCOVERY" -> 4 [] kind = "RATE" -> 5     [] kind = "ANALYSIS" -> 6
                [] kind = "JOB" -> 7      [] kind = "TASTING" -> 8  [] kind = "RECORDING" -> 9

\* parseKey: whose schema a scanned item is read with; counters have none.
HasSchema(k) == Kind(k) # "RATE"
InPartition(k, n) == Kind(k) \in ChildKinds \cup {"TASTING"} /\ Number(k) = n

There(k) == table[k].shape \notin {"gone", "unborn"}

-----------------------------------------------------------------------------
(* Writes.                                                                 *)

Change == changes < MaxChanges /\ changes' = changes + 1
SetRow(k, item) == table' = [table EXCEPT ![k] = item]
\* What is read from the start to the end of a call was there all the time.
Unsteady(S) == read' = [read EXCEPT !.steady = @ \ S]

\* putWine, putWinery, putRegion, putTasting: a new id, the index key of the moment.
PutListed(k, m) ==
    /\ Kind(k) \in ListedKinds /\ table[k] = Unused /\ Change
    /\ SetRow(k, [shape |-> "v2", mark |-> m, slot |-> m])
    /\ UNCHANGED <<reindex, read>>

\* putRecording, putAnalysis: no index key, over whatever lies there.
PutChild(k) ==
    /\ Kind(k) \in {"RECORDING", "ANALYSIS"} /\ Change
    /\ SetRow(k, [shape |-> "v2", mark |-> 0, slot |-> NoSlot])
    /\ UNCHANGED <<reindex, read>>

PutJob(k, m) ==
    /\ Kind(k) = "JOB" /\ Change
    /\ SetRow(k, [shape |-> "v2", mark |-> m, slot |-> m])
    /\ UNCHANGED <<reindex, read>>

\* The rate limiter's counter.
CountRequest(k) ==
    /\ Kind(k) = "RATE" /\ ~There(k) /\ Change
    /\ SetRow(k, [shape |-> "count", mark |-> 0, slot |-> NoSlot])
    /\ UNCHANGED <<reindex, read>>

\* patchItem sets the fields it is given and rev; the index key is none of them.
SlotFollows(k, m) == m                  \* mutant: the index key is kept up to date
SlotAfter(k, m) == table[k].slot

\* An item without rev fails the condition.
PatchRow(k, m) ==
    /\ table[k].shape = "v2" /\ Change
    /\ SetRow(k, [table[k] EXCEPT !.mark = m, !.slot = SlotAfter(k, m)])
    /\ IF Kind(k) = "JOB"
       THEN reindex[Number(k)] = 0 /\ reindex' = [reindex EXCEPT ![Number(k)] = m]
       ELSE UNCHANGED reindex
    /\ UNCHANGED read

\* patchJob's second update, without a condition: on a deleted job it leaves an item
\* of two index attributes.
ReindexJob(k) ==
    /\ Kind(k) = "JOB" /\ reindex[Number(k)] # 0
    /\ SetRow(k, [table[k] EXCEPT !.slot = reindex[Number(k)],
                                  !.shape = IF There(k) THEN @ ELSE "half"])
    /\ reindex' = [reindex EXCEPT ![Number(k)] = 0]
    /\ UNCHANGED <<read, changes>>

RemoveRow(k) ==
    /\ There(k) /\ Kind(k) # "RATE" /\ Change
    /\ SetRow(k, Gone)
    /\ Unsteady({k})
    /\ UNCHANGED reindex

-----------------------------------------------------------------------------
(* Reads.  A call goes on from the last position it was given, so the      *)
(* order must not move under it.                                           *)

\* listByType, scanAll, queryTastingBundle: what the call ranges over.
InRange(op, kind, n, k) ==
    /\ There(k)
    /\ CASE op \in {"asc", "desc"} -> Kind(k) = kind /\ table[k].slot # NoSlot
         [] op = "scan" -> TRUE
         [] op = "bundle" -> InPartition(k, n)
         [] OTHER -> FALSE
Reached(k) == InRange(read.op, read.kind, read.number, k)

StartRead(op, kind, n) ==
    /\ read.op = "none"
    /\ read' = [NoRead EXCEPT !.op = op, !.kind = kind, !.number = n,
                              !.steady = {k \in Rows : InRange(op, kind, n, k)}]
    /\ UNCHANGED <<table, reindex, changes>>

\* Where an item lies in what the call ranges over: by index key, or by its own key.
Place(k, slot) == CASE read.op = "asc" -> <<slot, Number(k)>>
                    [] read.op = "desc" -> <<-slot, -Number(k)>>
                    [] OTHER -> <<Number(k), Rank(Kind(k))>>
Position(k) == Place(k, table[k].slot)
Before(p, q) == p[1] < q[1] \/ (p[1] = q[1] /\ p[2] < q[2])

\* What a page goes on from, and the first PageItems of it: as many as one answer holds.
Ahead == {k \in Rows : Reached(k) /\ \A p \in read.cursor : Before(p, Position(k))}
NextPage == {k \in Ahead : Cardinality({l \in Ahead : Before(Position(l), Position(k))}) < PageItems}

\* queryGsi1, queryByPk, scanAll: the next page, until there is no LastEvaluatedKey.
\* An entry keeps the cursor its page began after, so that an item given twice shows.
ReadPage ==
    /\ read.op # "none" /\ ~read.done
    /\ read' = [read EXCEPT
                  !.got = @ \cup {[key |-> k, item |-> table[k], after |-> read.cursor] : k \in NextPage},
                  !.cursor = IF NextPage = {} THEN @ ELSE {Position(k) : k \in NextPage},
                  !.done = (NextPage = Ahead)]
    /\ UNCHANGED <<table, reindex, changes>>

\* upcastRecord, which lists and scans apply, and the bundle and single reads do not.
Promoted(item) == IF item.shape = "v1" THEN [item EXCEPT !.shape = "v2"] ELSE item
Parses(item) == item.shape = "v2"

\* upcastMany and warnAndQuarantine: one item that does not parse fails no call.
Understood(e) == Parses(IF read.op = "bundle" THEN e.item ELSE Promoted(e.item))
Considered == {e \in read.got : read.op = "scan" => HasSchema(e.key)}
Given == {e.key : e \in {x \in Considered : Understood(x)}}
Quarantined == {e.key : e \in Considered} \ Given

EndRead == /\ read.done
           /\ read' = NoRead
           /\ UNCHANGED <<table, reindex, changes>>

TableNext ==
    \/ \E k \in Rows, m \in Marks : \/ PutListed(k, m)
                                    \/ PutJob(k, m)
                                    \/ PatchRow(k, m)
    \/ \E k \in Rows : PutChild(k) \/ CountRequest(k) \/ ReindexJob(k) \/ RemoveRow(k)
    \/ \E op \in {"asc", "desc"}, kind \in ListedKinds : StartRead(op, kind, 0)
    \/ StartRead("scan", "", 0)
    \/ \E n \in Bundled : StartRead("bundle", "", n)
    \/ ReadPage
    \/ EndRead

TableSpec == TableInit /\ [][TableNext]_tableVars

-----------------------------------------------------------------------------
\* Whatever is written between the pages of a call, its answer names no item twice,
\* and names every item that was there from its start to its end: of lists and scans
\* all but the counters and broken jobs as readable, of a bundle at least set aside.
ReadsWhole ==
    read.done =>
       /\ \A e, f \in read.got : e.key = f.key => e = f
       /\ \A k \in read.steady :
             \/ k \in Given
             \/ k \in Quarantined /\ (read.op = "bundle" \/ Kind(k) = "JOB")
             \/ ~HasSchema(k)

=============================================================================
