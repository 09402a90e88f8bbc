----------------------------- MODULE RegionTree -----------------------------
(***************************************************************************)
(* The region hierarchy: the catalog service's region operations           *)
(* (lib/services/wines.ts), which refuse only a region that is its own     *)
(* parent, and the functions that read the hierarchy for the pages         *)
(* (lib/domain/region.ts, getExploreView in lib/views/read.ts).  A         *)
(* deletion checks the back references and deletes in two steps, so a      *)
(* parent can go missing; two legal updates make a cycle.                  *)
(* The functions' recursion and loops are taken a round at a time.  They   *)
(* read a list loaded before: the table rests while one of them runs.      *)
(***************************************************************************)
EXTENDS Integers, Sequences, FiniteSets

CONSTANT Places                         \* the region ids

NoParent == "no parent"
Nowhere == "nowhere"

ASSUME RegionAssumption == NoParent \notin Places /\ Nowhere \notin Places

VARIABLES known,                        \* the regions in the table
          above,                        \* parentId of each region
          removing,                     \* the region whose deletion is under way
          tree,                         \* buildRegionTree: how far it is
          unchecked,                    \* regions its loop has still to check
          at,                           \* checkChain: the region it is called for,
          visiting,                     \* those that wait for their parent's verdict,
          verdicts,                     \* isValidParentChain
          walk,                         \* pathFor or regionPath, if one runs
          path                          \* its path so far

hierarchy == <<known, above, removing>>
checkVars == <<unchecked, at, visiting, verdicts>>
walkVars == <<walk, path>>
regionVars == <<hierarchy, tree, checkVars, walkVars>>

RegionTypeOK == /\ known \subseteq Places
                /\ above \in [Places -> Places \cup {NoParent}]
                /\ removing \in Places \cup {NoParent}
                /\ tree \in {"none", "checking", "built"}
                /\ unchecked \subseteq known
                /\ at \in known \cup {Nowhere}
                /\ visiting \in Seq(known)
                /\ verdicts \in [Places -> {"none", "valid", "invalid"}]
                /\ walk \in {"none", "pathFor", "regionPath"}
                /\ path \in Seq(known)

NoVerdicts == [p \in Places |-> "none"]

RegionInit == /\ known = {} /\ above = [p \in Places |-> NoParent] /\ removing = NoParent
              /\ tree = "none" /\ unchecked = {} /\ at = Nowhere /\ visiting = <<>>
              /\ verdicts = NoVerdicts
              /\ walk = "none" /\ path = <<>>

-----------------------------------------------------------------------------
(* The service.  A tree that was built of what was there before is gone.   *)

TreeForgotten == /\ tree # "checking" /\ walk = "none"
                 /\ tree' = "none" /\ verdicts' = NoVerdicts
                 /\ UNCHANGED <<unchecked, at, visiting, walkVars>>

CreatePlace(p, q) == /\ p \notin known
                     /\ q \in known \cup {NoParent}
                     /\ known' = known \cup {p}
                     /\ above' = [above EXCEPT ![p] = q]
                     /\ UNCHANGED removing
                     /\ TreeForgotten

\* A patch without a parentId leaves the parent: it cannot make a root.
MovePlace(p, q) == /\ p \in known
                   /\ q \in known \ {p}
                   /\ above' = [above EXCEPT ![p] = q]
                   /\ UNCHANGED <<known, removing>>
                   /\ TreeForgotten

CheckPlace(p) == /\ removing = NoParent
                 /\ p \in known
                 /\ \A c \in known : above[c] # p
                 /\ removing' = p
                 /\ UNCHANGED <<known, above>>
                 /\ TreeForgotten

RemovePlace == /\ removing # NoParent
               /\ known' = known \ {removing}
               /\ above' = [above EXCEPT ![removing] = NoParent]
               /\ removing' = NoParent
               /\ TreeForgotten

-----------------------------------------------------------------------------
(* buildRegionTree checks the chain of each region, in the order of the    *)
(* list; a recursion leaves its verdicts for the next.                     *)

BuildTree == /\ tree = "none" /\ walk = "none"
             /\ tree' = "checking" /\ unchecked' = known
             /\ UNCHANGED <<hierarchy, at, visiting, verdicts, walkVars>>

CheckNext(p) == /\ tree = "checking" /\ at = Nowhere /\ visiting = <<>>
                /\ p \in unchecked
                /\ at' = p /\ unchecked' = unchecked \ {p}
                /\ UNCHANGED <<hierarchy, tree, visiting, verdicts, walkVars>>

Visited(p) == \E i \in DOMAIN visiting : visiting[i] = p

VerdictTrusting(p) == IF above[p] = NoParent \/ Visited(p) THEN "valid" ELSE "invalid"  \* mutant

\* checkChain at a root, a cycle or an orphan.
Verdict(p) == IF above[p] = NoParent THEN "valid" ELSE "invalid"

CheckEnds == /\ at # Nowhere
             /\ verdicts[at] # "none" \/ above[at] \notin known \/ Visited(at)
             /\ verdicts' = IF verdicts[at] # "none" THEN verdicts
                                                     ELSE [verdicts EXCEPT ![at] = Verdict(at)]
             /\ at' = Nowhere
             /\ UNCHANGED <<hierarchy, tree, unchecked, visiting, walkVars>>

CheckParent ==
    /\ at # Nowhere /\ verdicts[at] = "none" /\ above[at] \in known /\ ~Visited(at)
    /\ visiting' = Append(visiting, at) /\ at' = above[at]
    /\ UNCHANGED <<hierarchy, tree, unchecked, verdicts, walkVars>>

\* The parent's verdict is the region's.
CheckReturns ==
    LET p == visiting[Len(visiting)]
    IN  /\ at = Nowhere /\ visiting # <<>>
        /\ verdicts' = [verdicts EXCEPT ![p] = verdicts[above[p]]]
        /\ visiting' = SubSeq(visiting, 1, Len(visiting) - 1)
        /\ UNCHANGED <<hierarchy, tree, unchecked, at, walkVars>>

TreeBuilt == /\ tree = "checking" /\ unchecked = {} /\ at = Nowhere /\ visiting = <<>>
             /\ tree' = "built"
             /\ UNCHANGED <<hierarchy, checkVars, walkVars>>

EffectiveParent(p) ==
    IF above[p] \in known /\ verdicts[p] = "valid" THEN above[p] ELSE NoParent

-----------------------------------------------------------------------------
(* The walks up: pathFor along the tree's parents, regionPath along those  *)
(* of the table.                                                           *)

Up(p) == IF walk = "pathFor" THEN EffectiveParent(p) ELSE above[p]
OnPath(p) == \E i \in DOMAIN path : path[i] = p

WalkFrom(by, p) == /\ walk = "none" /\ p \in known
                   /\ tree = "built" \/ (by = "regionPath" /\ tree = "none")
                   /\ walk' = by /\ path' = <<p>>
                   /\ UNCHANGED <<hierarchy, tree, checkVars>>

WalkUp == LET q == Up(path[1])
          IN  /\ walk # "none" /\ q \in known /\ ~OnPath(q)
              /\ path' = <<q>> \o path
              /\ UNCHANGED <<hierarchy, tree, checkVars, walk>>

Walked == walk # "none" /\ (Up(path[1]) \notin known \/ OnPath(Up(path[1])))

WalkEnds == /\ Walked
            /\ walk' = "none" /\ path' = <<>>
            /\ UNCHANGED <<hierarchy, tree, checkVars>>

RegionNext == \/ \E p \in Places : \/ \E q \in Places \cup {NoParent} : CreatePlace(p, q)
                                   \/ \E q \in Places : MovePlace(p, q)
                                   \/ CheckPlace(p)
                                   \/ CheckNext(p)
                                   \/ \E by \in {"pathFor", "regionPath"} : WalkFrom(by, p)
              \/ RemovePlace
              \/ BuildTree \/ CheckEnds \/ CheckParent \/ CheckReturns \/ TreeBuilt
              \/ WalkUp \/ WalkEnds

RegionSpec == RegionInit /\ [][RegionNext]_regionVars

\* getExploreView: each segment is looked for among the children reached.
ChildrenOf(q) == {p \in known : EffectiveParent(p) = q}
Browse(segments) == /\ segments[1] \in ChildrenOf(NoParent)
                    /\ \A i \in 2 .. Len(segments) : segments[i] \in ChildrenOf(segments[i - 1])

-----------------------------------------------------------------------------
(* A region is lost if its chain of parents never reaches a root: it is    *)
(* one of some regions whose parents are missing or among them.            *)
Lost(p) == \E S \in SUBSET known :
              p \in S /\ \A s \in S : above[s] # NoParent /\ (above[s] \in known => above[s] \in S)

(* Whatever cycles and missing parents the updates and deletions have      *)
(* made, and in whatever order the table lists the regions: exactly the    *)
(* lost regions are promoted to roots, every region is found by browsing   *)
(* down its own path, and the path of a region that is not lost, in the    *)
(* tree as on the pages of its wines, is the whole chain from its root     *)
(* (buildRegionTree's promotion of cyclic and orphaned regions,            *)
(* regionPath, getExploreView).                                            *)
RegionsFound ==
    /\ tree = "built" => \A p \in known : verdicts[p] = IF Lost(p) THEN "invalid" ELSE "valid"
    /\ Walked => /\ walk = "pathFor" => Browse(path)
                 /\ ~Lost(path[Len(path)]) =>
                       /\ above[path[1]] = NoParent
                       /\ \A i \in 2 .. Len(path) : above[path[i]] = path[i - 1]
=============================================================================
