---------------------------- MODULE DiaryProofs ----------------------------
(***************************************************************************)
(* Theorems about the calls on one tasting (Diary), for any numbers of     *)
(* callers, recordings, photos and calls and any interleaving of their     *)
(* awaits.  What a call holds is true of the partition as long as the rev  *)
(* it carries is the current one; a call that was disturbed promises       *)
(* nothing more than that.                                                 *)
(***************************************************************************)
EXTENDS Diary, FiniteSetTheorems, TLAPS

-----------------------------------------------------------------------------
(* The inductive invariant.                                                *)

Ops == {"none", "attach", "update", "record", "override", "add", "remove", "delete"}
CallSteps == {"idle", "read", "bundle", "patch", "analysis", "text", "count", "put", "child"}
CallAnswers == {"none", "ok", "not_found", "no_wine", "conflict", "limit"}

(* What a call has read of the analysis, its rev, or of the children.      *)
Todo == Nat \cup ({"rec"} \X Takes) \cup {<<"analysis">>, <<"job">>}
Act == [pc : CallSteps, op : Ops, rev : Nat, seen : Mapping, of : SUBSET (Takes \cup Photos), text : BOOLEAN,
        had : SUBSET (Takes \cup Photos), todo : SUBSET Todo, calm : BOOLEAN]
Run == [pc : {"off", "speakers", "analysis", "put", "patch", "tasting", "ready", "over"},
        of : SUBSET Takes, rev : Nat, saw : Mapping]

Meta == [life : Life, photos : SUBSET Photos, rev : Nat]
TakeItem == [exists : BOOLEAN, mapping : Mapping, rev : Nat]
Review == [exists : BOOLEAN, used : SUBSET Nat, rev : Nat]

DiaryTyped ==
    /\ meta \in Meta /\ take \in [Takes -> TakeItem] /\ review \in Review
    /\ queued \in BOOLEAN /\ agent \in Run
    /\ act \in [Callers -> Act] /\ answered \in [Callers -> CallAnswers]
    /\ budget \in [calls : Int, drops : Int]

(* The tasting is created once, and before that nothing has happened.      *)
CreatedOnce ==
    /\ ~Exists => meta = NoMeta
    /\ budget.calls <= MaxDiaryCalls
    /\ budget.calls = MaxDiaryCalls =>
          /\ ~Exists /\ review.used = {} /\ agent.pc = "off"
          /\ \A r \in Takes : take[r] = NoTake
          /\ \A c \in Callers : act[c] = NoAct

(* An editor's text is about to be saved.                                  *)
InText(c) == act[c].op = "update" /\ act[c].pc \in {"analysis", "text"}

TextOk(c) == InText(c) => act[c].rev \notin review.used /\ (Exists => act[c].rev < meta.rev)

RecordOk(c) ==
    act[c].op = "record" => \E r \in Takes : act[c].of = {r} /\ ~take[r].exists

OverrideOk(c) ==
    act[c].op = "override" =>
        /\ act[c].seen # "none"
        /\ \E r \in Takes :
              /\ act[c].of = {r}
              /\ take[r].exists => /\ act[c].rev <= take[r].rev
                                   /\ act[c].rev = take[r].rev => act[c].seen = take[r].mapping

PhotoOk(c) ==
    act[c].op \in {"add", "remove"} =>
        /\ \E p \in Photos : act[c].of = {p}
        /\ Exists => /\ act[c].rev <= meta.rev
                     /\ act[c].pc = "patch" /\ act[c].rev = meta.rev => act[c].had = meta.photos

AttachOk(c) == At(c, "attach", "patch") /\ act[c].calm => act[c].had = Taken

DeleteOk(c) ==
    At(c, "delete", "child") /\ act[c].calm =>
        /\ \A r \in Taken : <<"rec", r>> \in act[c].todo
        /\ review.exists => <<"analysis">> \in act[c].todo
        /\ queued => <<"job">> \in act[c].todo

IdleOk(c) == IF act[c].pc = "idle" THEN act[c] = NoAct ELSE answered[c] = "none"

CallOk(c) ==
    IdleOk(c) /\ TextOk(c) /\ RecordOk(c) /\ OverrideOk(c) /\ PhotoOk(c) /\ AttachOk(c) /\ DeleteOk(c)

(* Two calls: no two texts of one version, no two uses of a new id.        *)
Apart(c, d) ==
    /\ InText(c) /\ InText(d) => act[c].rev # act[d].rev
    /\ act[c].op = "record" /\ act[d].op \in {"record", "override"} => act[c].of # act[d].of

UsedBefore == Exists => \A v \in review.used : v < meta.rev

(* map_speakers holds a recording as it is, or one nobody could correct.   *)
AgentOk ==
    agent.pc = "speakers" =>
        \E r \in Takes :
            /\ agent.of = {r}
            /\ take[r].exists /\ take[r].mapping # "none" =>
                  /\ agent.rev <= take[r].rev
                  /\ agent.rev = take[r].rev => agent.saw = take[r].mapping

(* Recordings that are there or that nothing keeps from being put.         *)
Putting == {c \in Callers : At(c, "record", "put")}
CountOk == Cardinality(Taken) + Cardinality(Putting) <= MaxTakes + Cardinality(Callers) - 1

DiaryInv ==
    /\ DiaryTyped /\ CreatedOnce /\ UsedBefore /\ AgentOk /\ CountOk
    /\ \A c \in Callers : CallOk(c)
    /\ \A c, d \in Callers : c # d => Apart(c, d)

-----------------------------------------------------------------------------
(* What the steps have in common.                                          *)

(* d is not calm any more, and goes on where it was.                       *)
Disturbed(d) ==
    /\ act'[d] = [act[d] EXCEPT !.calm = act[d].pc = "idle"]
    /\ answered'[d] = answered[d]

MetaMoved == meta' = meta \/ (Exists /\ meta'.rev > meta.rev) \/ ~Exists'
ReviewMoved(d) == InText(d) /\ act[d].rev \notin review.used => act[d].rev \notin review'.used
TakeMoved(d, r) ==
    \/ take'[r] = take[r]
    \/ ~take'[r].exists
    \/ (take[r].exists /\ take'[r].rev > take[r].rev)
    \/ (~take[r].exists /\ ~(act[d].op \in {"record", "override"} /\ act[d].of = {r}))

(* What a write of another leaves true of a call: each of its revs is       *)
(* behind, or what it stands for is as it was.                              *)
LEMMA DisturbedOk ==
    ASSUME DiaryTyped, DiaryTyped', NEW d \in Callers, CallOk(d), Disturbed(d),
           MetaMoved, ReviewMoved(d), \A r \in Takes : TakeMoved(d, r)
    PROVE  CallOk(d)'
  <1> DEFINE a == act[d]
             b == act'[d]
  <1>1. a \in Act BY DEF DiaryTyped
  <1>2. /\ b.pc = a.pc /\ b.op = a.op /\ b.rev = a.rev /\ b.seen = a.seen /\ b.of = a.of
        /\ b.text = a.text /\ b.had = a.had /\ b.todo = a.todo /\ b.calm = (a.pc = "idle")
    BY <1>1 DEF Disturbed, Act
  <1>3. meta \in Meta /\ meta' \in Meta /\ take \in [Takes -> TakeItem] /\ take' \in [Takes -> TakeItem]
    BY DEF DiaryTyped
  <1>4. a.rev \in Nat /\ meta.rev \in Nat /\ meta'.rev \in Nat
    BY <1>1, <1>3 DEF Act, Meta
  <1>5. IdleOk(d)'
    <2>1. CASE a.pc = "idle"
      <3>1. a = NoAct BY <2>1 DEF CallOk, IdleOk
      <3>2. (a.pc = "idle") = TRUE BY <2>1
      <3>3. b = [NoAct EXCEPT !.calm = TRUE] BY <3>1, <3>2 DEF Disturbed
      <3>4. b = NoAct BY <3>3 DEF NoAct
      <3> QED BY <3>4, <2>1, <1>2 DEF IdleOk
    <2>2. CASE a.pc # "idle"
      BY <2>2, <1>2 DEF CallOk, IdleOk, Disturbed
    <2> QED BY <2>1, <2>2
  <1>6. TextOk(d)'
    BY <1>2, <1>4 DEF CallOk, TextOk, InText, ReviewMoved, MetaMoved, Exists
  <1>7. RecordOk(d)'
    BY <1>2 DEF CallOk, RecordOk, TakeMoved
  <1>8. OverrideOk(d)'
    <2>1. SUFFICES ASSUME a.op = "override" PROVE OverrideOk(d)'
      BY <1>2 DEF OverrideOk
    <2>2. PICK r \in Takes : /\ a.of = {r} /\ a.seen # "none"
                             /\ take[r].exists => /\ a.rev <= take[r].rev
                                                  /\ a.rev = take[r].rev => a.seen = take[r].mapping
      BY <2>1 DEF CallOk, OverrideOk
    <2>3. take[r].rev \in Nat /\ take'[r].rev \in Nat
      BY <1>3 DEF TakeItem
    <2>4. TakeMoved(d, r) OBVIOUS
    <2>5. take'[r].exists => /\ a.rev <= take'[r].rev
                             /\ a.rev = take'[r].rev => a.seen = take'[r].mapping
      BY <2>1, <2>2, <2>3, <2>4, <1>4 DEF TakeMoved
    <2> QED BY <2>2, <2>5, <1>2 DEF OverrideOk
  <1>9. PhotoOk(d)'
    BY <1>2, <1>4 DEF CallOk, PhotoOk, MetaMoved, Exists
  <1>10. AttachOk(d)' BY <1>2 DEF AttachOk, At
  <1>11. DeleteOk(d)' BY <1>2 DEF DeleteOk, At
  <1> QED BY <1>5, <1>6, <1>7, <1>8, <1>9, <1>10, <1>11 DEF CallOk

(* Two calls that another disturbed are as far apart as before.            *)
LEMMA DisturbedApart ==
    ASSUME DiaryTyped, NEW c \in Callers, NEW d \in Callers, Apart(c, d), Disturbed(c), Disturbed(d)
    PROVE  Apart(c, d)'
  <1>1. act[c] \in Act /\ act[d] \in Act BY DEF DiaryTyped
  <1>2. /\ act'[c].pc = act[c].pc /\ act'[c].op = act[c].op
        /\ act'[c].rev = act[c].rev /\ act'[c].of = act[c].of
    BY <1>1 DEF Disturbed, Act
  <1>3. /\ act'[d].pc = act[d].pc /\ act'[d].op = act[d].op
        /\ act'[d].rev = act[d].rev /\ act'[d].of = act[d].of
    BY <1>1 DEF Disturbed, Act
  <1> QED BY <1>2, <1>3 DEF Apart, InText

(* A call that is over promises nothing.                                   *)
LEMMA OverOk ==
    ASSUME NEW c \in Callers, act'[c] = NoAct
    PROVE  CallOk(c)' /\ \A d \in Callers : Apart(c, d)' /\ Apart(d, c)'
  <1>1. /\ act'[c].pc = "idle" /\ act'[c].op = "none"
    BY DEF NoAct
  <1>2. CallOk(c)'
    BY <1>1 DEF CallOk, IdleOk, TextOk, InText, RecordOk, OverrideOk, PhotoOk, AttachOk, DeleteOk, At
  <1>3. ASSUME NEW d \in Callers PROVE Apart(c, d)' /\ Apart(d, c)'
    BY <1>1 DEF Apart, InText
  <1> QED BY <1>2, <1>3

(* A call that somebody makes shows that the tasting has been created.     *)
LEMMA CallBegun ==
    ASSUME DiaryInv, Exists \/ (\E c \in Callers : act[c].pc # "idle") \/ agent.pc # "off",
           (~Exists)' => meta' = NoMeta, budget'.calls \in Int, budget'.calls <= budget.calls
    PROVE  CreatedOnce'
  <1>1. NoAct.pc = "idle" BY DEF NoAct
  <1>2. budget.calls # MaxDiaryCalls /\ budget.calls <= MaxDiaryCalls
    BY <1>1 DEF DiaryInv, CreatedOnce
  <1>3. budget.calls \in Int /\ MaxDiaryCalls \in Nat
    BY DiaryAssumption DEF DiaryInv, DiaryTyped
  <1>4. budget'.calls < MaxDiaryCalls BY <1>2, <1>3
  <1> QED BY <1>3, <1>4 DEF CreatedOnce

(* Fewer recordings and fewer puts under way keep the count.               *)
LEMMA FewerCount ==
    ASSUME DiaryInv, Taken' \subseteq Taken, Putting' \subseteq Putting
    PROVE  CountOk'
  <1>1. IsFiniteSet(Taken) /\ IsFiniteSet(Putting)
    BY DiaryAssumption, FS_Subset DEF Taken, Putting
  <1>2. Cardinality(Taken') <= Cardinality(Taken) /\ Cardinality(Putting') <= Cardinality(Putting)
    BY <1>1, FS_Subset
  <1>3. IsFiniteSet(Taken') /\ IsFiniteSet(Putting')
    BY <1>1, FS_Subset
  <1>4. /\ Cardinality(Taken) \in Nat /\ Cardinality(Putting) \in Nat /\ Cardinality(Callers) \in Nat
        /\ Cardinality(Taken') \in Nat /\ Cardinality(Putting') \in Nat /\ MaxTakes \in Nat
    BY <1>1, <1>3, DiaryAssumption, FS_CardinalityType
  <1> QED BY <1>2, <1>4 DEF DiaryInv, CountOk

-----------------------------------------------------------------------------
(* The forms that the steps take.                                          *)

(* A caller's step that writes nothing.                                    *)
LEMMA QuietStep ==
    ASSUME DiaryInv, NEW c \in Callers, NEW a \in Act, act' = [act EXCEPT ![c] = a],
           Exists \/ act[c].pc # "idle", UNCHANGED <<partition, agent>>,
           answered' \in [Callers -> CallAnswers],
           \A d \in Callers : d # c => answered'[d] = answered[d],
           budget' \in [calls : Int, drops : Int], budget'.calls <= budget.calls,
           CallOk(c)', CountOk',
           \A d \in Callers : d # c => Apart(c, d)' /\ Apart(d, c)'
    PROVE  DiaryInv'
  <1>1. DiaryTyped'
    BY DEF DiaryInv, DiaryTyped, partition
  <1>2. /\ meta' = meta /\ take' = take /\ review' = review /\ queued' = queued /\ agent' = agent
    BY DEF partition
  <1>3. CreatedOnce'
    <2>1. (~Exists)' => meta' = NoMeta BY <1>2 DEF Exists, DiaryInv, CreatedOnce
    <2>2. budget'.calls \in Int BY <1>1 DEF DiaryTyped
    <2> QED BY <2>1, <2>2, CallBegun
  <1>4. UsedBefore' /\ AgentOk'
    BY <1>2 DEF DiaryInv, UsedBefore, AgentOk, Exists
  <1>5. act \in [Callers -> Act] BY DEF DiaryInv, DiaryTyped
  <1>6. ASSUME NEW d \in Callers, d # c PROVE act'[d] = act[d] /\ answered'[d] = answered[d]
    BY <1>5, <1>6
  <1>7. ASSUME NEW d \in Callers, d # c PROVE CallOk(d)'
    <2>1. CallOk(d) BY DEF DiaryInv
    <2>2. act'[d] = act[d] /\ answered'[d] = answered[d] BY <1>6, <1>7
    <2>3. IdleOk(d)' /\ TextOk(d)' /\ RecordOk(d)' /\ OverrideOk(d)'
      BY <2>1, <2>2, <1>2 DEF CallOk, IdleOk, TextOk, InText, RecordOk, OverrideOk, Exists
    <2>4. PhotoOk(d)' /\ AttachOk(d)' /\ DeleteOk(d)'
      BY <2>1, <2>2, <1>2 DEF CallOk, PhotoOk, AttachOk, DeleteOk, At, Exists, Taken
    <2> QED BY <2>3, <2>4 DEF CallOk
  <1>8. ASSUME NEW d \in Callers, NEW e \in Callers, d # e PROVE Apart(d, e)'
    <2>1. CASE d = c \/ e = c BY <2>1, <1>8
    <2>2. CASE d # c /\ e # c
      <3>1. Apart(d, e) BY <1>8 DEF DiaryInv
      <3>2. act'[d] = act[d] /\ act'[e] = act[e] BY <1>6, <2>2
      <3> QED BY <3>1, <3>2 DEF Apart, InText
    <2> QED BY <2>1, <2>2
  <1>9. \A d \in Callers : CallOk(d)' BY <1>7
  <1> QED BY <1>1, <1>3, <1>4, <1>8, <1>9 DEF DiaryInv

(* A caller that goes on at another place keeps its puts, but for one that *)
(* is let through to the put.                                              *)
LEMMA SamePuts ==
    ASSUME DiaryInv, NEW c \in Callers, NEW a \in Act,
           \A d \in Callers : d # c => act'[d].op = act[d].op /\ act'[d].pc = act[d].pc,
           act'[c] = a, ~(a.op = "record" /\ a.pc = "put"),
           Taken' \subseteq Taken
    PROVE  CountOk'
  <1>1. Putting' \subseteq Putting BY DEF Putting, At
  <1> QED BY <1>1, FewerCount

(* A caller that reads and goes on.                                        *)
LEMMA GoesOn ==
    ASSUME DiaryInv, NEW c \in Callers, NEW a \in Act, Goes(c, a), act[c].pc # "idle",
           UNCHANGED <<partition, agent, answered, budget>>,
           a.op = act[c].op, a.of = act[c].of,
           InText(c)' => InText(c) /\ a.rev = act[c].rev,
           CallOk(c)', CountOk'
    PROVE  DiaryInv'
  <1>1. act' = [act EXCEPT ![c] = a] BY DEF Goes
  <1>2. act \in [Callers -> Act] /\ answered \in [Callers -> CallAnswers]
    BY DEF DiaryInv, DiaryTyped
  <1>3. act'[c] = a BY <1>1, <1>2
  <1>4. ASSUME NEW d \in Callers, d # c PROVE Apart(c, d)' /\ Apart(d, c)'
    <2>1. Apart(c, d) /\ Apart(d, c) BY <1>4 DEF DiaryInv
    <2>2. act'[d] = act[d] BY <1>1, <1>2, <1>4
    <2> QED BY <2>1, <2>2, <1>3 DEF Apart, InText
  <1>5. budget' \in [calls : Int, drops : Int] /\ budget'.calls <= budget.calls
    BY DEF DiaryInv, DiaryTyped
  <1> QED BY <1>1, <1>2, <1>4, <1>5, QuietStep

(* A call that ends without a write of its own, refused or cut off.        *)
LEMMA EndsQuietly ==
    ASSUME DiaryInv, NEW c \in Callers, Goes(c, NoAct), act[c].pc # "idle",
           UNCHANGED <<partition, agent>>,
           answered' \in [Callers -> CallAnswers],
           \A d \in Callers : d # c => answered'[d] = answered[d],
           budget' \in [calls : Int, drops : Int], budget'.calls <= budget.calls
    PROVE  DiaryInv'
  <1>1. NoAct \in Act BY DEF NoAct, Act, Ops, CallSteps, Mapping
  <1>2. act' = [act EXCEPT ![c] = NoAct] BY DEF Goes
  <1>3. act \in [Callers -> Act] BY DEF DiaryInv, DiaryTyped
  <1>4. act'[c] = NoAct /\ \A d \in Callers : d # c => act'[d] = act[d] BY <1>2, <1>3
  <1>5. CallOk(c)' /\ \A d \in Callers : Apart(c, d)' /\ Apart(d, c)' BY <1>4, OverOk
  <1>6. CountOk'
    <2>1. Taken' \subseteq Taken BY DEF Taken, partition
    <2>2. ~(NoAct.op = "record" /\ NoAct.pc = "put") BY DEF NoAct
    <2> QED BY <1>1, <1>4, <2>1, <2>2, SamePuts
  <1> QED BY <1>1, <1>2, <1>5, <1>6, QuietStep

LEMMA RefuseKeeps ==
    ASSUME DiaryInv, NEW c \in Callers, NEW what \in CallAnswers, Refuse(c, what), act[c].pc # "idle"
    PROVE  DiaryInv'
  <1>1. answered' = [answered EXCEPT ![c] = what] BY DEF Refuse, Answer
  <1>2. answered \in [Callers -> CallAnswers] BY DEF DiaryInv, DiaryTyped
  <1>3. budget' \in [calls : Int, drops : Int] /\ budget'.calls <= budget.calls
    BY DEF Refuse, DiaryInv, DiaryTyped
  <1>4. Goes(c, NoAct) /\ UNCHANGED <<partition, agent>> BY DEF Refuse
  <1> QED BY <1>1, <1>2, <1>3, <1>4, EndsQuietly

(* A caller's write: it disturbs every other call.                         *)
LEMMA WriteStep ==
    ASSUME DiaryInv, DiaryTyped', NEW c \in Callers, act[c].pc # "idle",
           NEW a \in Act, Wrote(c, a), a.op # "record",
           MetaMoved, (~Exists)' => meta' = NoMeta, budget' = budget,
           answered'[c] \in CallAnswers, \A d \in Callers : d # c => answered'[d] = answered[d],
           \A d \in Callers : d # c => /\ ReviewMoved(d)
                                       /\ \A r \in Takes : TakeMoved(d, r),
           UsedBefore', AgentOk', CountOk', CallOk(c)',
           \A d \in Callers : d # c => Apart(c, d)' /\ Apart(d, c)'
    PROVE  DiaryInv'
  <1>1. DiaryTyped BY DEF DiaryInv
  <1>2. CreatedOnce'
    <2>1. budget'.calls \in Int /\ budget'.calls <= budget.calls
      BY <1>1 DEF DiaryTyped
    <2> QED BY <2>1, CallBegun
  <1>3. ASSUME NEW d \in Callers, d # c PROVE Disturbed(d)
    BY <1>3 DEF Wrote, Disturbed
  <1>4. ASSUME NEW d \in Callers PROVE CallOk(d)'
    <2>1. CASE d = c BY <2>1
    <2>2. CASE d # c
      <3>1. CallOk(d) BY DEF DiaryInv
      <3>2. Disturbed(d) BY <1>3, <2>2
      <3> QED BY <3>1, <3>2, <2>2, <1>1, DisturbedOk
    <2> QED BY <2>1, <2>2
  <1>5. ASSUME NEW d \in Callers, NEW e \in Callers, d # e PROVE Apart(d, e)'
    <2>1. CASE d = c \/ e = c BY <2>1, <1>5
    <2>2. CASE d # c /\ e # c
      <3>1. Apart(d, e) BY <1>5 DEF DiaryInv
      <3>2. Disturbed(d) /\ Disturbed(e) BY <1>3, <2>2
      <3> QED BY <3>1, <3>2, <1>1, DisturbedApart
    <2> QED BY <2>1, <2>2
  <1> QED BY <1>2, <1>4, <1>5 DEF DiaryInv

-----------------------------------------------------------------------------
(* The calls begin.                                                        *)

(* A finite set has a subset of each smaller size.                         *)
LEMMA SomeSubset ==
    ASSUME NEW S, IsFiniteSet(S), NEW n \in Nat, n <= Cardinality(S)
    PROVE  Some(n, S) \subseteq S /\ Cardinality(Some(n, S)) = n
  <1> DEFINE k == Cardinality(S)
  <1>1. k \in Nat /\ ExistsBijection(1..k, S) BY FS_CardinalityType
  <1>2. PICK f \in Bijection(1..k, S) : TRUE BY <1>1 DEF ExistsBijection
  <1>3. f \in [1..k -> S] /\ \A i, j \in 1..k : f[i] = f[j] => i = j
    BY <1>2 DEF Bijection, Injection, IsInjective
  <1> DEFINE T == {f[i] : i \in 1..n}
             g == [i \in 1..n |-> f[i]]
  <1>4. 1..n \subseteq 1..k BY <1>1
  <1>5. T \subseteq S BY <1>3, <1>4
  <1>6. g \in [1..n -> T] /\ \A i, j \in 1..n : g[i] = g[j] => i = j
    BY <1>3, <1>4
  <1>7. \A x \in T : \E i \in 1..n : g[i] = x OBVIOUS
  <1> HIDE DEF g, T
  <1>8. g \in Bijection(1..n, T)
    BY <1>6, <1>7 DEF Bijection, Injection, Surjection, IsInjective
  <1>9. Cardinality(T) = n BY <1>8, FS_CountingElements DEF ExistsBijection
  <1>10. \E U \in SUBSET S : Cardinality(U) = n BY <1>5, <1>9
  <1> QED BY <1>10 DEF Some

(* A recording's id is new: nothing is stored under it and no call uses it. *)
LEMMA NewIdIsNew ==
    ASSUME NEW r \in NextId
    PROVE  r \in Takes /\ r \notin Taken /\ \A d \in Callers : act[d].of # {r}
  <1> DEFINE free == {x \in Takes \ Taken : \A d \in Callers : act[d].of # {x}}
  <1>1. free # {} BY DEF NextId
  <1>2. NextId = Some(1, free) BY <1>1 DEF NextId
  <1>3. IsFiniteSet(free) BY DiaryAssumption, FS_Subset
  <1> HIDE DEF free
  <1>4. Cardinality(free) \in Nat /\ Cardinality(free) # 0
    BY <1>1, <1>3, FS_CardinalityType, FS_EmptySet
  <1>5. Some(1, free) \subseteq free BY <1>3, <1>4, SomeSubset
  <1>6. r \in free BY <1>2, <1>5
  <1> QED BY <1>6 DEF free

LEMMA CreateKeeps ==
    ASSUME DiaryInv, CreateTasting
    PROVE  DiaryInv'
  <1>1. PICK w \in BOOLEAN : meta' = [NoMeta EXCEPT !.life = IF w THEN "awaiting_audio" ELSE "collecting"]
    BY DEF CreateTasting
  <1>2. /\ ~Exists /\ budget.calls = MaxDiaryCalls /\ budget' = [budget EXCEPT !.calls = @ - 1]
        /\ take' = take /\ review' = review /\ queued' = queued
        /\ act' = act /\ agent' = agent /\ answered' = answered
    BY DEF CreateTasting
  <1>3. review.used = {} /\ agent.pc = "off" /\ \A c \in Callers : act[c] = NoAct
    BY <1>2 DEF DiaryInv, CreatedOnce
  <1>4. meta' \in Meta /\ Exists'
    BY <1>1 DEF NoMeta, Meta, Life, Exists
  <1>5. budget \in [calls : Int, drops : Int] BY DEF DiaryInv, DiaryTyped
  <1>6. budget' \in [calls : Int, drops : Int] /\ budget'.calls < MaxDiaryCalls
    BY <1>2, <1>5
  <1>7. DiaryTyped' BY <1>2, <1>4, <1>6 DEF DiaryInv, DiaryTyped
  <1>8. CreatedOnce' /\ UsedBefore' /\ AgentOk'
    BY <1>2, <1>3, <1>4, <1>6, DiaryAssumption DEF CreatedOnce, UsedBefore, AgentOk
  <1>9. CountOk' BY <1>2 DEF CountOk, Taken, Putting, At, DiaryInv
  <1>10. \A c \in Callers : CallOk(c)' /\ \A d \in Callers : Apart(c, d)'
    BY <1>2, <1>3, OverOk
  <1> QED BY <1>7, <1>8, <1>9, <1>10 DEF DiaryInv

LEMMA EstablishedKeeps ==
    ASSUME DiaryInv, Established
    PROVE  DiaryInv'
  <1>1. PICK n \in 1..MaxTakes, m \in 0..MaxPhotos :
            /\ meta' = [life |-> "ready", photos |-> Some(m, Photos), rev |-> 0]
            /\ take' = [r \in Takes |-> IF r \in Some(n, Takes)
                                        THEN [exists |-> TRUE, mapping |-> "auto", rev |-> 0] ELSE NoTake]
    BY DEF Established
  <1>2. /\ ~Exists /\ budget.calls = MaxDiaryCalls /\ budget' = [budget EXCEPT !.calls = @ - 1]
        /\ review' = [NoReview EXCEPT !.exists = TRUE] /\ queued' = TRUE
        /\ act' = act /\ agent' = agent /\ answered' = answered
    BY DEF Established
  <1>3. agent.pc = "off" /\ \A c \in Callers : act[c] = NoAct
    BY <1>2 DEF DiaryInv, CreatedOnce
  <1> DEFINE done == Some(n, Takes)
             ps == Some(m, Photos)
  <1>4. Cardinality(Takes) \in Nat /\ Cardinality(Photos) \in Nat
    BY DiaryAssumption, FS_CardinalityType
  <1>5. done \subseteq Takes /\ Cardinality(done) = n
    BY <1>4, DiaryAssumption, SomeSubset
  <1>6. ps \subseteq Photos
    BY <1>4, DiaryAssumption, SomeSubset
  <1> HIDE DEF done, ps
  <1>7. meta' \in Meta /\ Exists' BY <1>1, <1>6 DEF Meta, Life, Exists, ps
  <1>8. take' \in [Takes -> TakeItem] BY <1>1 DEF TakeItem, NoTake, Mapping
  <1>9. review' \in Review /\ review'.used = {} BY <1>2 DEF NoReview, Review
  <1>10. budget \in [calls : Int, drops : Int] BY DEF DiaryInv, DiaryTyped
  <1>11. budget' \in [calls : Int, drops : Int] /\ budget'.calls < MaxDiaryCalls
    BY <1>2, <1>10
  <1>12. DiaryTyped' BY <1>2, <1>7, <1>8, <1>9, <1>11 DEF DiaryInv, DiaryTyped
  <1>13. CreatedOnce' /\ UsedBefore' /\ AgentOk'
    BY <1>2, <1>3, <1>7, <1>9, <1>11, DiaryAssumption DEF CreatedOnce, UsedBefore, AgentOk
  <1>14. CountOk'
    <2>1. Taken' = done BY <1>1, <1>5 DEF Taken, NoTake, done
    <2>2. Putting' = {} BY <1>2, <1>3 DEF Putting, At, NoAct
    <2>3. Cardinality(Callers) \in Nat /\ Cardinality(Callers) # 0
      BY DiaryAssumption, FS_CardinalityType, FS_EmptySet
    <2>4. Cardinality(Putting') = 0 BY <2>2, FS_EmptySet
    <2> QED BY <2>1, <2>3, <2>4, <1>5, DiaryAssumption DEF CountOk
  <1>15. \A c \in Callers : CallOk(c)' /\ \A d \in Callers : Apart(c, d)'
    BY <1>2, <1>3, OverOk
  <1> QED BY <1>12, <1>13, <1>14, <1>15 DEF DiaryInv

(* A call that begins, and is apart from the others.                       *)
LEMMA CallsKeep ==
    ASSUME DiaryInv, NEW c \in Callers, NEW a \in Act, Calls(c, a),
           a.pc \in {"read", "patch"}, CallOk(c)',
           \A d \in Callers : d # c => Apart(c, d)' /\ Apart(d, c)'
    PROVE  DiaryInv'
  <1>1. /\ act[c].pc = "idle" /\ Exists /\ act' = [act EXCEPT ![c] = a]
        /\ answered' = [answered EXCEPT ![c] = "none"] /\ budget' = [budget EXCEPT !.calls = @ - 1]
        /\ UNCHANGED <<partition, agent>>
    BY DEF Calls
  <1>2. /\ act \in [Callers -> Act] /\ answered \in [Callers -> CallAnswers]
        /\ budget \in [calls : Int, drops : Int]
    BY DEF DiaryInv, DiaryTyped
  <1>3. budget' \in [calls : Int, drops : Int] /\ budget'.calls <= budget.calls
    BY <1>1, <1>2
  <1>4. answered' \in [Callers -> CallAnswers] /\ \A d \in Callers : d # c => answered'[d] = answered[d]
    BY <1>1, <1>2 DEF CallAnswers
  <1>5. CountOk'
    <2>1. Taken' \subseteq Taken BY <1>1 DEF Taken, partition
    <2>2. act'[c] = a /\ \A d \in Callers : d # c => act'[d] = act[d] BY <1>1, <1>2
    <2> QED BY <2>1, <2>2, SamePuts
  <1> QED BY <1>1, <1>3, <1>4, <1>5, QuietStep

(* Each of the calls begins apart from the others.                         *)
LEMMA CallKeeps ==
    ASSUME DiaryInv, NEW c \in Callers,
           \/ CallAttach(c) \/ CallUpdate(c) \/ CallRecord(c) \/ CallOverride(c)
           \/ CallPhoto(c) \/ CallDelete(c)
    PROVE  DiaryInv'
  <1>1. /\ meta \in Meta /\ take \in [Takes -> TakeItem]
        /\ act \in [Callers -> Act] /\ answered \in [Callers -> CallAnswers]
    BY DEF DiaryInv, DiaryTyped
  <1>2. NoAct \in Act BY DEF NoAct, Act, Ops, CallSteps, Mapping
  <1>3. ASSUME NEW a \in Act, Calls(c, a)
        PROVE  /\ act'[c] = a /\ answered'[c] = "none" /\ Exists
               /\ meta' = meta /\ take' = take /\ review' = review /\ queued' = queued
               /\ \A d \in Callers : d # c => act'[d] = act[d]
    BY <1>1, <1>3 DEF Calls, partition
  <1>4. CASE CallAttach(c)
    <2> DEFINE a == [NoAct EXCEPT !.pc = "read", !.op = "attach"]
    <2>1. a \in Act /\ a.pc = "read" /\ a.op = "attach"
      BY <1>2 DEF Act, Ops, CallSteps, NoAct
    <2>2. Calls(c, a) BY <1>4 DEF CallAttach
    <2> HIDE DEF a
    <2>3. act'[c] = a /\ answered'[c] = "none" BY <2>1, <2>2, <1>3
    <2>4. CallOk(c)'
      BY <2>1, <2>3 DEF CallOk, IdleOk, TextOk, InText, RecordOk, OverrideOk, PhotoOk, AttachOk, DeleteOk, At
    <2>5. \A d \in Callers : d # c => Apart(c, d)' /\ Apart(d, c)'
      BY <2>1, <2>3 DEF Apart, InText
    <2> QED BY <2>1, <2>2, <2>4, <2>5, CallsKeep
  <1>5. CASE CallDelete(c)
    <2> DEFINE a == [NoAct EXCEPT !.pc = "read", !.op = "delete"]
    <2>1. a \in Act /\ a.pc = "read" /\ a.op = "delete"
      BY <1>2 DEF Act, Ops, CallSteps, NoAct
    <2>2. Calls(c, a) BY <1>5 DEF CallDelete
    <2> HIDE DEF a
    <2>3. act'[c] = a /\ answered'[c] = "none" BY <2>1, <2>2, <1>3
    <2>4. CallOk(c)'
      BY <2>1, <2>3 DEF CallOk, IdleOk, TextOk, InText, RecordOk, OverrideOk, PhotoOk, AttachOk, DeleteOk, At
    <2>5. \A d \in Callers : d # c => Apart(c, d)' /\ Apart(d, c)'
      BY <2>1, <2>3 DEF Apart, InText
    <2> QED BY <2>1, <2>2, <2>4, <2>5, CallsKeep
  <1>6. CASE CallUpdate(c)
    <2>1. PICK text \in BOOLEAN :
              Calls(c, [NoAct EXCEPT !.pc = "patch", !.op = "update", !.rev = meta.rev, !.text = text])
      BY <1>6 DEF CallUpdate
    <2> DEFINE a == [NoAct EXCEPT !.pc = "patch", !.op = "update", !.rev = meta.rev, !.text = text]
    <2>2. meta.rev \in Nat BY <1>1 DEF Meta
    <2>3. a \in Act /\ a.pc = "patch" /\ a.op = "update"
      BY <1>2, <2>2 DEF Act, Ops, CallSteps, NoAct
    <2>4. Calls(c, a) BY <2>1
    <2> HIDE DEF a
    <2>5. act'[c] = a /\ answered'[c] = "none" BY <2>3, <2>4, <1>3
    <2>6. CallOk(c)'
      BY <2>3, <2>5 DEF CallOk, IdleOk, TextOk, InText, RecordOk, OverrideOk, PhotoOk, AttachOk, DeleteOk, At
    <2>7. \A d \in Callers : d # c => Apart(c, d)' /\ Apart(d, c)'
      BY <2>3, <2>5 DEF Apart, InText
    <2> QED BY <2>3, <2>4, <2>6, <2>7, CallsKeep
  <1>7. CASE CallRecord(c)
    <2>1. PICK r \in NextId : Calls(c, [NoAct EXCEPT !.pc = "read", !.op = "record", !.of = {r}])
      BY <1>7 DEF CallRecord
    <2> DEFINE a == [NoAct EXCEPT !.pc = "read", !.op = "record", !.of = {r}]
    <2>2. r \in Takes /\ ~take[r].exists /\ \A d \in Callers : act[d].of # {r}
      BY NewIdIsNew DEF Taken
    <2>3. a \in Act /\ a.pc = "read" /\ a.op = "record" /\ a.of = {r}
      BY <1>2, <2>2 DEF Act, Ops, CallSteps, NoAct
    <2>4. Calls(c, a) BY <2>1
    <2> HIDE DEF a
    <2>5. act'[c] = a /\ answered'[c] = "none" /\ take' = take /\ \A d \in Callers : d # c => act'[d] = act[d]
      BY <2>3, <2>4, <1>3
    <2>6. CallOk(c)'
      BY <2>2, <2>3, <2>5
         DEF CallOk, IdleOk, TextOk, InText, RecordOk, OverrideOk, PhotoOk, AttachOk, DeleteOk, At
    <2>7. \A d \in Callers : d # c => Apart(c, d)' /\ Apart(d, c)'
      BY <2>2, <2>3, <2>5 DEF Apart, InText
    <2> QED BY <2>3, <2>4, <2>6, <2>7, CallsKeep
  <1>8. CASE CallOverride(c)
    <2>1. PICK r \in Speaking :
              Calls(c, [NoAct EXCEPT !.pc = "read", !.op = "override", !.of = {r}, !.rev = take[r].rev,
                                     !.seen = take[r].mapping])
      BY <1>8 DEF CallOverride
    <2> DEFINE a == [NoAct EXCEPT !.pc = "read", !.op = "override", !.of = {r}, !.rev = take[r].rev,
                                  !.seen = take[r].mapping]
    <2>2. r \in Takes /\ take[r].exists /\ take[r].mapping # "none" BY DEF Speaking
    <2>3. take[r].rev \in Nat /\ take[r].mapping \in Mapping BY <1>1, <2>2 DEF TakeItem
    <2>4. a \in Act /\ a.pc = "read" /\ a.op = "override" /\ a.of = {r}
          /\ a.rev = take[r].rev /\ a.seen = take[r].mapping
      BY <1>2, <2>2, <2>3 DEF Act, Ops, CallSteps, NoAct
    <2>5. Calls(c, a) BY <2>1
    <2> HIDE DEF a
    <2>6. act'[c] = a /\ answered'[c] = "none" /\ take' = take /\ \A d \in Callers : d # c => act'[d] = act[d]
      BY <2>4, <2>5, <1>3
    <2>7. CallOk(c)'
      BY <2>2, <2>3, <2>4, <2>6
         DEF CallOk, IdleOk, TextOk, InText, RecordOk, OverrideOk, PhotoOk, AttachOk, DeleteOk, At
    <2>8. ASSUME NEW d \in Callers, d # c PROVE Apart(c, d)' /\ Apart(d, c)'
      <3>1. RecordOk(d) BY DEF DiaryInv, CallOk
      <3> QED BY <3>1, <2>2, <2>4, <2>6, <2>8 DEF Apart, InText, RecordOk
    <2> QED BY <2>4, <2>5, <2>7, <2>8, CallsKeep
  <1>9. CASE CallPhoto(c)
    <2>1. PICK op \in {"add", "remove"}, p \in Photos :
              Calls(c, [NoAct EXCEPT !.pc = "read", !.op = op, !.of = {p}, !.rev = meta.rev])
      BY <1>9 DEF CallPhoto
    <2> DEFINE a == [NoAct EXCEPT !.pc = "read", !.op = op, !.of = {p}, !.rev = meta.rev]
    <2>2. meta.rev \in Nat BY <1>1 DEF Meta
    <2>3. a \in Act /\ a.pc = "read" /\ a.op = op /\ a.of = {p} /\ a.rev = meta.rev
      BY <1>2, <2>2 DEF Act, Ops, CallSteps, NoAct
    <2>4. Calls(c, a) BY <2>1
    <2> HIDE DEF a
    <2>5. act'[c] = a /\ answered'[c] = "none" /\ meta' = meta
      BY <2>3, <2>4, <1>3
    <2>6. CallOk(c)'
      BY <2>2, <2>3, <2>5
         DEF CallOk, IdleOk, TextOk, InText, RecordOk, OverrideOk, PhotoOk, AttachOk, DeleteOk, At
    <2>7. \A d \in Callers : d # c => Apart(c, d)' /\ Apart(d, c)'
      BY <2>3, <2>5 DEF Apart, InText
    <2> QED BY <2>3, <2>4, <2>6, <2>7, CallsKeep
  <1> QED BY <1>4, <1>5, <1>6, <1>7, <1>8, <1>9

-----------------------------------------------------------------------------
(* The calls read.                                                         *)

(* A reading step that changes nothing but the place.                      *)
LEMMA ReadsKeep ==
    ASSUME DiaryInv, NEW c \in Callers, NEW pc \in CallSteps, Reads(c, pc), act[c].pc # "idle",
           pc # "idle", act[c].op \in {"record", "override"},
           CountOk'
    PROVE  DiaryInv'
  <1> DEFINE a == [act[c] EXCEPT !.pc = pc]
  <1>1. act[c] \in Act BY DEF DiaryInv, DiaryTyped
  <1>2. a \in Act BY <1>1 DEF Act
  <1>3. a.op = act[c].op /\ a.of = act[c].of /\ a.rev = act[c].rev /\ a.seen = act[c].seen /\ a.pc = pc
    BY <1>1 DEF Act
  <1>4. Goes(c, a) /\ UNCHANGED <<partition, agent, answered, budget>> BY DEF Reads
  <1> HIDE DEF a
  <1>5. act'[c] = a /\ take' = take /\ answered' = answered
    BY <1>4 DEF Goes, partition, DiaryInv, DiaryTyped
  <1>6. CallOk(c) BY DEF DiaryInv
  <1>7. IdleOk(c)' BY <1>3, <1>5, <1>6 DEF CallOk, IdleOk
  <1>8. TextOk(c)' /\ PhotoOk(c)' /\ AttachOk(c)' /\ DeleteOk(c)' /\ ~InText(c)'
    BY <1>3, <1>5 DEF TextOk, InText, PhotoOk, AttachOk, DeleteOk, At
  <1>9. RecordOk(c)' /\ OverrideOk(c)'
    BY <1>3, <1>5, <1>6 DEF CallOk, RecordOk, OverrideOk
  <1>10. CallOk(c)' BY <1>7, <1>8, <1>9 DEF CallOk
  <1> QED BY <1>2, <1>3, <1>4, <1>8, <1>10, GoesOn

(* A step that reads and goes on: what it holds is as it stands.           *)
LEMMA ReadKeeps ==
    ASSUME DiaryInv, NEW c \in Callers,
           \/ AttachRead(c) \/ AttachBundle(c) \/ UpdateRead(c) \/ PhotoRead(c) \/ DeleteRead(c)
    PROVE  DiaryInv'
  <1> DEFINE b == act[c]
  <1>1. b \in Act /\ meta \in Meta /\ review \in Review /\ act \in [Callers -> Act]
    BY DEF DiaryInv, DiaryTyped
  <1>2. CallOk(c) BY DEF DiaryInv
  <1>3. {"ok", "not_found", "no_wine", "conflict", "limit"} \subseteq CallAnswers BY DEF CallAnswers
  <1>4. ASSUME NEW a \in Act, Goes(c, a), UNCHANGED <<partition, agent, answered, budget>>,
               b.pc # "idle", ~(a.op = "record" /\ a.pc = "put")
        PROVE  /\ act'[c] = a /\ answered'[c] = answered[c]
               /\ meta' = meta /\ take' = take /\ review' = review /\ queued' = queued
               /\ CountOk' /\ Taken' = Taken
    <2>1. act'[c] = a /\ \A d \in Callers : d # c => act'[d] = act[d] BY <1>1, <1>4 DEF Goes
    <2>2. Taken' = Taken BY <1>4 DEF Taken, partition
    <2>3. CountOk' BY <1>4, <2>1, <2>2, SamePuts
    <2> QED BY <2>1, <2>2, <2>3, <1>4 DEF partition
  <1>5. ASSUME AttachRead(c) PROVE DiaryInv'
    <2>1. b.op = "attach" /\ b.pc = "read" BY <1>5 DEF AttachRead, At
    <2>2. CASE Refuse(c, "not_found") \/ Refuse(c, "no_wine") BY <2>1, <2>2, <1>3, RefuseKeeps
    <2>3. CASE /\ Exists /\ Goes(c, [b EXCEPT !.pc = "bundle", !.rev = meta.rev])
               /\ UNCHANGED <<partition, agent, answered, budget>>
      <3> DEFINE a == [b EXCEPT !.pc = "bundle", !.rev = meta.rev]
      <3>1. meta.rev \in Nat BY <1>1 DEF Meta
      <3>2. a \in Act /\ a.pc = "bundle" /\ a.op = "attach" /\ a.of = b.of
        BY <1>1, <2>1, <3>1 DEF Act, CallSteps
      <3>3. Goes(c, a) BY <2>3
      <3> HIDE DEF a
      <3>4. act'[c] = a /\ answered'[c] = answered[c] /\ CountOk' BY <1>4, <2>1, <2>3, <3>2, <3>3
      <3>5. CallOk(c)' /\ ~InText(c)'
        BY <2>1, <3>2, <3>4, <1>2
           DEF CallOk, IdleOk, TextOk, InText, RecordOk, OverrideOk, PhotoOk, AttachOk, DeleteOk, At
      <3> QED BY <2>1, <2>3, <3>2, <3>3, <3>4, <3>5, GoesOn
    <2> QED BY <1>5, <2>2, <2>3 DEF AttachRead
  <1>6. ASSUME AttachBundle(c) PROVE DiaryInv'
    <2> DEFINE a == [b EXCEPT !.pc = "patch", !.had = Taken]
    <2>1. /\ b.op = "attach" /\ b.pc = "bundle" /\ Goes(c, a)
          /\ UNCHANGED <<partition, agent, answered, budget>>
      BY <1>6 DEF AttachBundle, At
    <2>2. Taken \subseteq Takes BY DEF Taken
    <2>3. a \in Act /\ a.pc = "patch" /\ a.op = "attach" /\ a.of = b.of /\ a.had = Taken
      BY <1>1, <2>1, <2>2 DEF Act, CallSteps
    <2> HIDE DEF a
    <2>4. act'[c] = a /\ answered'[c] = answered[c] /\ CountOk' /\ Taken' = Taken BY <1>4, <2>1, <2>3
    <2>5. CallOk(c)' /\ ~InText(c)'
      BY <2>1, <2>3, <2>4, <1>2
         DEF CallOk, IdleOk, TextOk, InText, RecordOk, OverrideOk, PhotoOk, AttachOk, DeleteOk, At
    <2> QED BY <2>1, <2>3, <2>4, <2>5, GoesOn
  <1>7. ASSUME UpdateRead(c) PROVE DiaryInv'
    <2>1. b.op = "update" /\ b.pc = "analysis" BY <1>7 DEF UpdateRead, At
    <2>2. CASE Refuse(c, "not_found") BY <2>1, <2>2, <1>3, RefuseKeeps
    <2>3. CASE /\ Goes(c, [b EXCEPT !.pc = "text", !.todo = {review.rev}])
               /\ UNCHANGED <<partition, agent, answered, budget>>
      <3> DEFINE a == [b EXCEPT !.pc = "text", !.todo = {review.rev}]
      <3>1. {review.rev} \subseteq Todo BY <1>1 DEF Review, Todo
      <3>2. a \in Act /\ a.pc = "text" /\ a.op = "update" /\ a.of = b.of /\ a.rev = b.rev
        BY <1>1, <2>1, <3>1 DEF Act, CallSteps
      <3>3. Goes(c, a) BY <2>3
      <3> HIDE DEF a
      <3>4. act'[c] = a /\ answered'[c] = answered[c] /\ CountOk' /\ meta' = meta /\ review' = review
        BY <1>4, <2>1, <2>3, <3>2, <3>3
      <3>5. InText(c) BY <2>1 DEF InText
      <3>6. TextOk(c)' BY <3>5, <3>2, <3>4, <1>2 DEF CallOk, TextOk, Exists
      <3>7. CallOk(c)'
        BY <2>1, <3>2, <3>4, <3>6, <1>2 DEF CallOk, IdleOk, RecordOk, OverrideOk, PhotoOk, AttachOk, DeleteOk, At
      <3> QED BY <2>1, <2>3, <3>2, <3>3, <3>4, <3>5, <3>7, GoesOn
    <2> QED BY <1>7, <2>2, <2>3 DEF UpdateRead
  <1>8. ASSUME PhotoRead(c) PROVE DiaryInv'
    <2>1. b.op \in {"add", "remove"} /\ b.pc = "read" BY <1>8 DEF PhotoRead
    <2>2. CASE Refuse(c, "not_found") \/ Refuse(c, "limit") \/ Refuse(c, "ok")
      BY <2>1, <2>2, <1>3, RefuseKeeps
    <2>3. CASE /\ Goes(c, [b EXCEPT !.pc = "patch", !.had = meta.photos])
               /\ UNCHANGED <<partition, agent, answered, budget>>
      <3> DEFINE a == [b EXCEPT !.pc = "patch", !.had = meta.photos]
      <3>1. meta.photos \subseteq Photos BY <1>1 DEF Meta
      <3>2. a \in Act /\ a.pc = "patch" /\ a.op = b.op /\ a.of = b.of /\ a.rev = b.rev /\ a.had = meta.photos
        BY <1>1, <3>1 DEF Act, CallSteps
      <3>3. Goes(c, a) BY <2>3
      <3> HIDE DEF a
      <3>4. act'[c] = a /\ answered'[c] = answered[c] /\ CountOk' /\ meta' = meta
        BY <1>4, <2>1, <2>3, <3>2, <3>3
      <3>5. PhotoOk(c)' BY <2>1, <3>2, <3>4, <1>2 DEF CallOk, PhotoOk, Exists
      <3>6. CallOk(c)' /\ ~InText(c)'
        BY <2>1, <3>2, <3>4, <3>5, <1>2
           DEF CallOk, IdleOk, TextOk, InText, RecordOk, OverrideOk, AttachOk, DeleteOk, At
      <3> QED BY <2>1, <2>3, <3>2, <3>3, <3>4, <3>6, GoesOn
    <2> QED BY <1>8, <2>2, <2>3 DEF PhotoRead
  <1>9. ASSUME DeleteRead(c) PROVE DiaryInv'
    <2>1. b.op = "delete" /\ b.pc = "read" BY <1>9 DEF DeleteRead, At
    <2>2. CASE Refuse(c, "not_found") BY <2>1, <2>2, <1>3, RefuseKeeps
    <2> DEFINE todo == {<<"rec", r>> : r \in Taken}
                       \cup (IF review.exists THEN {<<"analysis">>} ELSE {})
                       \cup (IF queued THEN {<<"job">>} ELSE {})
               a == [b EXCEPT !.pc = "child", !.todo = todo]
    <2>3. CASE Goes(c, a) /\ UNCHANGED <<partition, agent, answered, budget>>
      <3>1. todo \subseteq Todo BY DEF Todo, Taken
      <3>2. /\ \A r \in Taken : <<"rec", r>> \in todo
            /\ review.exists => <<"analysis">> \in todo
            /\ queued => <<"job">> \in todo
        OBVIOUS
      <3> HIDE DEF todo
      <3>3. a \in Act /\ a.pc = "child" /\ a.op = b.op /\ a.of = b.of /\ a.rev = b.rev /\ a.todo = todo
        BY <1>1, <3>1 DEF Act, CallSteps
      <3>4. Goes(c, a) BY <2>3
      <3> HIDE DEF a
      <3>5. /\ act'[c] = a /\ answered'[c] = answered[c] /\ CountOk'
            /\ review' = review /\ queued' = queued /\ Taken' = Taken
        BY <1>4, <2>1, <2>3, <3>3, <3>4
      <3>6. DeleteOk(c)' BY <3>2, <3>3, <3>5 DEF DeleteOk
      <3>7. CallOk(c)' /\ ~InText(c)'
        BY <2>1, <3>3, <3>5, <3>6, <1>2
           DEF CallOk, IdleOk, TextOk, InText, RecordOk, OverrideOk, PhotoOk, AttachOk, At
      <3> QED BY <2>1, <2>3, <3>3, <3>4, <3>5, <3>7, GoesOn
    <2> QED BY <1>9, <2>2, <2>3 DEF DeleteRead
  <1> QED BY <1>5, <1>6, <1>7, <1>8, <1>9

(* The registration of a recording before its put.  Only a call that found  *)
(* the count below the limit goes on to the put.                           *)
LEMMA RecordingReadKeeps ==
    ASSUME DiaryInv, NEW c \in Callers, RecordRead(c) \/ RecordCount(c) \/ OverrideRead(c)
    PROVE  DiaryInv'
  <1>1. act[c] \in Act /\ act \in [Callers -> Act] BY DEF DiaryInv, DiaryTyped
  <1>2. {"not_found", "limit"} \subseteq CallAnswers /\ {"count", "put", "patch"} \subseteq CallSteps
    BY DEF CallAnswers, CallSteps
  <1>3. ASSUME NEW pc \in CallSteps, Reads(c, pc), pc # "put" PROVE CountOk'
    <2> DEFINE a == [act[c] EXCEPT !.pc = pc]
    <2>1. a \in Act /\ a.pc # "put" BY <1>1, <1>3 DEF Act
    <2>2. act'[c] = a /\ \A d \in Callers : d # c => act'[d] = act[d] BY <1>1, <1>3 DEF Reads, Goes
    <2>3. Taken' \subseteq Taken BY <1>3 DEF Reads, Taken, partition
    <2> HIDE DEF a
    <2> QED BY <2>1, <2>2, <2>3, SamePuts
  <1>4. CASE RecordRead(c)
    <2>1. act[c].op = "record" /\ act[c].pc = "read" BY <1>4 DEF RecordRead, At
    <2> QED BY <1>4, <2>1, <1>2, <1>3, ReadsKeep, RefuseKeeps DEF RecordRead
  <1>5. CASE RecordCount(c)
    <2>1. act[c].op = "record" /\ act[c].pc = "count" BY <1>5 DEF RecordCount, At
    <2>2. CASE Refuse(c, "limit") BY <2>1, <2>2, <1>2, RefuseKeeps
    <2>3. CASE Cardinality(Taken) < MaxTakes /\ Reads(c, "put")
      <3>1. Taken' = Taken BY <2>3 DEF Reads, Taken, partition
      <3>2. IsFiniteSet(Taken) BY DiaryAssumption, FS_Subset DEF Taken
      <3>3. Putting' \subseteq Callers BY DEF Putting
      <3>4. IsFiniteSet(Putting') /\ Cardinality(Putting') <= Cardinality(Callers)
        BY <3>3, DiaryAssumption, FS_Subset
      <3>5. Cardinality(Taken) \in Nat /\ Cardinality(Putting') \in Nat /\ Cardinality(Callers) \in Nat
        BY <3>2, <3>4, DiaryAssumption, FS_CardinalityType
      <3>6. CountOk' BY <3>1, <3>4, <3>5, <2>3, DiaryAssumption DEF CountOk
      <3> QED BY <3>6, <2>1, <2>3, <1>2, ReadsKeep
    <2>4. Cardinality(Taken) \in Nat
      BY DiaryAssumption, FS_Subset, FS_CardinalityType DEF Taken
    <2> QED BY <1>5, <2>2, <2>3, <2>4, DiaryAssumption DEF RecordCount
  <1>6. CASE OverrideRead(c)
    <2>1. act[c].op = "override" /\ act[c].pc = "read" BY <1>6 DEF OverrideRead, At
    <2> QED BY <1>6, <2>1, <1>2, <1>3, ReadsKeep, RefuseKeeps DEF OverrideRead
  <1> QED BY <1>4, <1>5, <1>6

(* A call that is cut off leaves the partition and its last answer alone.  *)
LEMMA DropKeeps ==
    ASSUME DiaryInv, NEW c \in Callers, Dropped(c)
    PROVE  DiaryInv'
  <1>1. /\ act[c].pc # "idle" /\ budget' = [budget EXCEPT !.drops = @ - 1]
        /\ Goes(c, NoAct) /\ UNCHANGED <<partition, agent>> /\ answered' = answered
    BY DEF Dropped
  <1>2. answered \in [Callers -> CallAnswers] /\ budget \in [calls : Int, drops : Int]
    BY DEF DiaryInv, DiaryTyped
  <1>3. budget' \in [calls : Int, drops : Int] /\ budget'.calls <= budget.calls
    BY <1>1, <1>2
  <1> QED BY <1>1, <1>2, <1>3, EndsQuietly

-----------------------------------------------------------------------------
(* The calls write.                                                        *)

(* A patch of META moves its rev past every rev that a call or a text has. *)
LEMMA PatchKeeps ==
    ASSUME DiaryInv, NEW c \in Callers, act[c].pc # "idle", Current(c),
           NEW m \in Meta, m.rev = meta.rev, m.life # "none",
           NEW a \in Act, a.op # "record", PatchMeta(c, m, a),
           answered' \in [Callers -> CallAnswers],
           \A d \in Callers : d # c => answered'[d] = answered[d],
           CallOk(c)', \A d \in Callers : d # c => Apart(c, d)' /\ Apart(d, c)'
    PROVE  DiaryInv'
  <1>1. /\ meta' = [m EXCEPT !.rev = @ + 1] /\ Wrote(c, a)
        /\ take' = take /\ review' = review /\ queued' = queued /\ agent' = agent /\ budget' = budget
    BY DEF PatchMeta
  <1>2. DiaryTyped /\ meta \in Meta /\ act \in [Callers -> Act] BY DEF DiaryInv, DiaryTyped
  <1>3. meta.rev \in Nat /\ m.rev + 1 \in Nat BY <1>2 DEF Meta
  <1>4. meta' \in Meta /\ meta'.rev = meta.rev + 1 /\ meta'.life # "none"
    BY <1>1, <1>3 DEF Meta
  <1>5. act' \in [Callers -> Act]
    <2>1. \A d \in Callers : [act[d] EXCEPT !.calm = act[d].pc = "idle"] \in Act
      BY <1>2 DEF Act
    <2> QED BY <1>1, <2>1 DEF Wrote
  <1>6. DiaryTyped' BY <1>1, <1>2, <1>4, <1>5 DEF DiaryTyped
  <1>7. MetaMoved /\ Exists' BY <1>3, <1>4 DEF MetaMoved, Exists, Current
  <1>8. \A d \in Callers : ReviewMoved(d) /\ \A r \in Takes : TakeMoved(d, r)
    BY <1>1 DEF ReviewMoved, TakeMoved
  <1>9. UsedBefore'
    <2>1. review \in Review BY <1>2 DEF DiaryTyped
    <2>2. \A v \in review.used : v \in Nat /\ v < meta.rev BY <2>1 DEF DiaryInv, UsedBefore, Current, Review
    <2> QED BY <2>2, <1>1, <1>3, <1>4 DEF UsedBefore
  <1>10. AgentOk' BY <1>1 DEF DiaryInv, AgentOk
  <1>11. CountOk'
    <2>1. Taken' \subseteq Taken BY <1>1 DEF Taken
    <2>2. Putting' \subseteq Putting
      <3>1. ASSUME NEW d \in Callers, At(d, "record", "put")' PROVE At(d, "record", "put")
        <4>1. act'[c] = a /\ (d # c => act'[d] = [act[d] EXCEPT !.calm = act[d].pc = "idle"])
          BY <1>1 DEF Wrote
        <4>2. act[d] \in Act BY <1>2
        <4> QED BY <3>1, <4>1, <4>2 DEF At, Act
      <3> QED BY <3>1 DEF Putting
    <2> QED BY <2>1, <2>2, FewerCount
  <1> QED BY <1>1, <1>6, <1>7, <1>8, <1>9, <1>10, <1>11, WriteStep

LEMMA AttachPatchKeeps ==
    ASSUME DiaryInv, NEW c \in Callers, AttachPatch(c)
    PROVE  DiaryInv'
  <1>1. act[c].op = "attach" /\ act[c].pc = "patch" BY DEF AttachPatch, At
  <1>2. "conflict" \in CallAnswers BY DEF CallAnswers
  <1>3. CASE Refuse(c, "conflict") BY <1>1, <1>2, <1>3, RefuseKeeps
  <1> DEFINE m == [meta EXCEPT !.life = IF act[c].had # {} THEN "polishing" ELSE "awaiting_audio"]
  <1>4. CASE Current(c) /\ Answer(c, "ok") /\ PatchMeta(c, m, NoAct)
    <2>1. meta \in Meta /\ answered \in [Callers -> CallAnswers] BY DEF DiaryInv, DiaryTyped
    <2>2. m \in Meta /\ m.rev = meta.rev /\ m.life # "none" BY <2>1 DEF Meta, Life
    <2>3. NoAct \in Act /\ NoAct.op # "record" BY DEF NoAct, Act, Ops, CallSteps, Mapping
    <2>4. answered' \in [Callers -> CallAnswers] /\ \A d \in Callers : d # c => answered'[d] = answered[d]
      BY <1>4, <2>1 DEF Answer, CallAnswers
    <2>5. act'[c] = NoAct BY <1>4 DEF PatchMeta, Wrote
    <2> HIDE DEF m
    <2> QED BY <1>1, <1>4, <2>2, <2>3, <2>4, <2>5, OverOk, PatchKeeps
  <1> QED BY <1>3, <1>4 DEF AttachPatch

(* updateTasting: the rev that is past every text is the caller's alone.   *)
LEMMA UpdateMetaKeeps ==
    ASSUME DiaryInv, NEW c \in Callers, UpdateMeta(c)
    PROVE  DiaryInv'
  <1>1. act[c].op = "update" /\ act[c].pc = "patch" BY DEF UpdateMeta, At
  <1>2. "conflict" \in CallAnswers BY DEF CallAnswers
  <1>3. meta \in Meta /\ act \in [Callers -> Act] /\ answered \in [Callers -> CallAnswers] /\ review \in Review
    BY DEF DiaryInv, DiaryTyped
  <1>4. meta.rev \in Nat BY <1>3 DEF Meta
  <1>5. CASE Refuse(c, "conflict") BY <1>1, <1>2, <1>5, RefuseKeeps
  <1>6. CASE Current(c) /\ Answer(c, "ok") /\ PatchMeta(c, meta, NoAct)
    <2>1. NoAct \in Act /\ NoAct.op # "record" BY DEF NoAct, Act, Ops, CallSteps, Mapping
    <2>2. answered' \in [Callers -> CallAnswers] /\ \A d \in Callers : d # c => answered'[d] = answered[d]
      BY <1>6, <1>3 DEF Answer, CallAnswers
    <2>3. act'[c] = NoAct BY <1>6 DEF PatchMeta, Wrote
    <2>4. meta.life # "none" BY <1>6 DEF Current, Exists
    <2> QED BY <1>1, <1>3, <1>6, <2>1, <2>2, <2>3, <2>4, OverOk, PatchKeeps
  <1> DEFINE a == [act[c] EXCEPT !.pc = "analysis"]
  <1>7. CASE Current(c) /\ PatchMeta(c, meta, a) /\ answered' = answered
    <2>1. a \in Act /\ a.op = "update" /\ a.pc = "analysis" /\ a.rev = act[c].rev /\ a.of = act[c].of
      BY <1>1, <1>3 DEF Act, CallSteps
    <2> HIDE DEF a
    <2>2. act'[c] = a /\ meta'.rev = meta.rev + 1 /\ review' = review
          /\ \A d \in Callers : d # c => act'[d] = [act[d] EXCEPT !.calm = act[d].pc = "idle"]
      BY <1>3, <1>4, <1>7 DEF PatchMeta, Wrote, Meta
    <2>3. Exists /\ act[c].rev = meta.rev BY <1>7 DEF Current
    <2>4. \A v \in review.used : v \in Nat /\ v < meta.rev
      BY <1>3, <2>3 DEF DiaryInv, UsedBefore, Review
    <2>5. TextOk(c)' BY <1>4, <2>1, <2>2, <2>3, <2>4 DEF TextOk
    <2>6. IdleOk(c) BY DEF DiaryInv, CallOk
    <2>7. CallOk(c)'
      BY <1>1, <1>7, <2>1, <2>2, <2>5, <2>6
         DEF CallOk, IdleOk, RecordOk, OverrideOk, PhotoOk, AttachOk, DeleteOk, At
    <2>8. ASSUME NEW d \in Callers, d # c PROVE Apart(c, d)' /\ Apart(d, c)'
      <3>1. act[d] \in Act BY <1>3
      <3>2. /\ act'[d].op = act[d].op /\ act'[d].pc = act[d].pc /\ act'[d].rev = act[d].rev
        BY <2>2, <2>8, <3>1 DEF Act
      <3>3. InText(d) => act[d].rev < meta.rev BY <2>3 DEF DiaryInv, CallOk, TextOk
      <3>4. InText(d)' <=> InText(d) BY <3>2 DEF InText
      <3>5. act[d].rev \in Nat BY <3>1 DEF Act
      <3> QED BY <1>4, <2>1, <2>2, <2>3, <3>2, <3>3, <3>4, <3>5 DEF Apart
    <2>9. meta.life # "none" BY <2>3 DEF Exists
    <2> QED BY <1>1, <1>3, <1>7, <2>1, <2>7, <2>8, <2>9, PatchKeeps
  <1> QED BY <1>5, <1>6, <1>7 DEF UpdateMeta

(* addFoodPhoto and removeFoodPhoto write what META's photos were.         *)
LEMMA PhotoPatchKeeps ==
    ASSUME DiaryInv, NEW c \in Callers, PhotoPatch(c)
    PROVE  DiaryInv'
  <1>1. act[c].op \in {"add", "remove"} /\ act[c].pc = "patch" BY DEF PhotoPatch
  <1>2. "conflict" \in CallAnswers BY DEF CallAnswers
  <1>3. CASE Refuse(c, "conflict") BY <1>1, <1>2, <1>3, RefuseKeeps
  <1> DEFINE m == [meta EXCEPT !.photos = IF NewPhotos(c) = {} THEN @ ELSE NewPhotos(c)]
  <1>4. CASE Current(c) /\ Answer(c, "ok") /\ PatchMeta(c, m, NoAct)
    <2>1. meta \in Meta /\ answered \in [Callers -> CallAnswers] BY DEF DiaryInv, DiaryTyped
    <2>2. act[c].had = meta.photos /\ \E p \in Photos : act[c].of = {p}
      BY <1>1, <1>4 DEF DiaryInv, CallOk, PhotoOk, Current
    <2>3. NewPhotos(c) \subseteq Photos BY <2>1, <2>2 DEF NewPhotos, Meta
    <2>4. m \in Meta /\ m.rev = meta.rev /\ m.life = meta.life BY <2>1, <2>3 DEF Meta
    <2>5. NoAct \in Act /\ NoAct.op # "record" BY DEF NoAct, Act, Ops, CallSteps, Mapping
    <2>6. answered' \in [Callers -> CallAnswers] /\ \A d \in Callers : d # c => answered'[d] = answered[d]
      BY <1>4, <2>1 DEF Answer, CallAnswers
    <2>7. act'[c] = NoAct BY <1>4 DEF PatchMeta, Wrote
    <2>8. m.life # "none" BY <1>4, <2>4 DEF Current, Exists
    <2> HIDE DEF m
    <2> QED BY <1>1, <1>4, <2>4, <2>5, <2>6, <2>7, <2>8, OverOk, PatchKeeps
  <1> QED BY <1>3, <1>4 DEF PhotoPatch

(* A call that writes the children of the tasting and is over.             *)
LEMMA ChildWriteKeeps ==
    ASSUME DiaryInv, NEW c \in Callers, act[c].pc # "idle", NEW a \in Act,
           a.op \in {"none", "delete"}, Wrote(c, a),
           meta' = meta, agent' = agent, budget' = budget,
           take' \in [Takes -> TakeItem], review' \in Review, queued' \in BOOLEAN,
           answered' \in [Callers -> CallAnswers],
           \A d \in Callers : d # c => answered'[d] = answered[d],
           \A d \in Callers : d # c => /\ ReviewMoved(d)
                                       /\ \A r \in Takes : TakeMoved(d, r),
           UsedBefore', AgentOk', Taken' \subseteq Taken \/ CountOk', CallOk(c)'
    PROVE  DiaryInv'
  <1>1. DiaryTyped /\ act \in [Callers -> Act] BY DEF DiaryInv, DiaryTyped
  <1>2. act'[c] = a /\ \A d \in Callers : d # c => act'[d] = [act[d] EXCEPT !.calm = act[d].pc = "idle"]
    BY DEF Wrote
  <1>3. ASSUME NEW d \in Callers, d # c
        PROVE  act'[d] \in Act /\ act'[d].op = act[d].op /\ act'[d].pc = act[d].pc
    <2>1. act[d] \in Act BY <1>1
    <2>2. act'[d] = [act[d] EXCEPT !.calm = act[d].pc = "idle"] BY <1>2, <1>3
    <2> QED BY <2>1, <2>2 DEF Act
  <1>4. act' \in [Callers -> Act] BY <1>2, <1>3 DEF Wrote
  <1>5. DiaryTyped' BY <1>1, <1>4 DEF DiaryTyped
  <1>6. MetaMoved BY DEF MetaMoved
  <1>7. CountOk' BY <1>2, <1>3, SamePuts
  <1>8. ASSUME NEW d \in Callers PROVE Apart(c, d)' /\ Apart(d, c)'
    <2>1. act'[c].op \notin {"update", "record", "override"} BY <1>2
    <2> QED BY <2>1 DEF Apart, InText
  <1>9. (~Exists)' => meta' = NoMeta BY DEF DiaryInv, CreatedOnce, Exists
  <1> QED BY <1>5, <1>6, <1>7, <1>8, <1>9, WriteStep

(* updateTasting's second write: the other texts are of other versions.    *)
LEMMA UpdateTextKeeps ==
    ASSUME DiaryInv, NEW c \in Callers, UpdateText(c)
    PROVE  DiaryInv'
  <1>1. act[c].op = "update" /\ act[c].pc = "text" BY DEF UpdateText, At
  <1>2. {"conflict", "ok"} \subseteq CallAnswers BY DEF CallAnswers
  <1>3. CASE Refuse(c, "conflict") BY <1>1, <1>2, <1>3, RefuseKeeps
  <1>4. CASE /\ review' = [review EXCEPT !.used = @ \cup {act[c].rev}, !.rev = @ + 1]
             /\ Wrote(c, NoAct) /\ Answer(c, "ok") /\ UNCHANGED <<meta, take, queued, agent, budget>>
    <2>1. /\ review \in Review /\ answered \in [Callers -> CallAnswers] /\ act[c] \in Act
          /\ take \in [Takes -> TakeItem] /\ queued \in BOOLEAN
      BY DEF DiaryInv, DiaryTyped
    <2>2. act[c].rev \in Nat /\ review.rev + 1 \in Nat BY <2>1 DEF Act, Review
    <2>3. review' \in Review /\ review'.used = review.used \cup {act[c].rev}
      BY <1>4, <2>1, <2>2 DEF Review
    <2>4. InText(c) BY <1>1 DEF InText
    <2>5. UsedBefore'
      BY <1>4, <2>3, <2>4 DEF UsedBefore, Exists, DiaryInv, CallOk, TextOk
    <2>6. ASSUME NEW d \in Callers, d # c
          PROVE  ReviewMoved(d) /\ \A r \in Takes : TakeMoved(d, r)
      <3>1. Apart(c, d) BY <2>6 DEF DiaryInv
      <3> QED BY <3>1, <1>4, <2>3, <2>4 DEF Apart, ReviewMoved, TakeMoved
    <2>7. AgentOk' BY <1>4 DEF AgentOk, DiaryInv
    <2>8. Taken' \subseteq Taken BY <1>4 DEF Taken
    <2>9. NoAct \in Act /\ NoAct.op \in {"none", "delete"} BY DEF NoAct, Act, Ops, CallSteps, Mapping
    <2>10. answered' \in [Callers -> CallAnswers] /\ \A d \in Callers : d # c => answered'[d] = answered[d]
      BY <1>4, <2>1, <1>2 DEF Answer
    <2>11. act'[c] = NoAct BY <1>4 DEF Wrote
    <2>12. CallOk(c)' BY <2>11, OverOk
    <2> QED BY <1>1, <1>4, <2>1, <2>3, <2>5, <2>6, <2>7, <2>8, <2>9, <2>10, <2>12, ChildWriteKeeps
  <1> QED BY <1>3, <1>4 DEF UpdateText

(* createRecording's put: one recording more and one put under way less.   *)
LEMMA RecordPutKeeps ==
    ASSUME DiaryInv, NEW c \in Callers, RecordPut(c)
    PROVE  DiaryInv'
  <1>1. act[c].op = "record" /\ act[c].pc = "put" BY DEF RecordPut, At
  <1>2. /\ take' = [r \in Takes |-> IF r \in act[c].of THEN [NoTake EXCEPT !.exists = TRUE] ELSE take[r]]
        /\ Wrote(c, NoAct) /\ answered' = [answered EXCEPT ![c] = "ok"]
        /\ meta' = meta /\ review' = review /\ queued' = queued /\ agent' = agent /\ budget' = budget
    BY DEF RecordPut, Answer
  <1>3. /\ take \in [Takes -> TakeItem] /\ review \in Review /\ queued \in BOOLEAN
        /\ answered \in [Callers -> CallAnswers] /\ act \in [Callers -> Act] /\ "ok" \in CallAnswers
    BY DEF DiaryInv, DiaryTyped, CallAnswers
  <1>4. PICK r \in Takes : act[c].of = {r} /\ ~take[r].exists
    BY <1>1 DEF DiaryInv, CallOk, RecordOk
  <1>5. take'[r].exists /\ take'[r].mapping = "none" /\ \A s \in Takes : s # r => take'[s] = take[s]
    BY <1>2, <1>4 DEF NoTake
  <1>6. take' \in [Takes -> TakeItem] BY <1>2, <1>3 DEF TakeItem, NoTake, Mapping
  <1>7. ASSUME NEW d \in Callers, d # c
        PROVE  ReviewMoved(d) /\ \A s \in Takes : TakeMoved(d, s)
    <2>1. Apart(c, d) BY <1>7 DEF DiaryInv
    <2>2. ~(act[d].op \in {"record", "override"} /\ act[d].of = {r}) BY <2>1, <1>1, <1>4 DEF Apart
    <2> QED BY <2>2, <1>2, <1>4, <1>5 DEF ReviewMoved, TakeMoved
  <1>8. AgentOk'
    <2>1. SUFFICES ASSUME agent.pc = "speakers" PROVE AgentOk' BY <1>2 DEF AgentOk
    <2>2. PICK s \in Takes :
              /\ agent.of = {s}
              /\ take[s].exists /\ take[s].mapping # "none" =>
                    agent.rev <= take[s].rev /\ (agent.rev = take[s].rev => agent.saw = take[s].mapping)
      BY <2>1 DEF DiaryInv, AgentOk
    <2>3. agent' = agent BY <1>2
    <2>4. take'[s] = take[s] \/ take'[s].mapping = "none" BY <1>5
    <2>5. take'[s].exists /\ take'[s].mapping # "none" =>
             agent.rev <= take'[s].rev /\ (agent.rev = take'[s].rev => agent.saw = take'[s].mapping)
      BY <2>2, <2>4
    <2> QED BY <2>2, <2>3, <2>5 DEF AgentOk
  <1>9. CountOk'
    <2>1. Taken' = Taken \cup {r} /\ r \notin Taken BY <1>4, <1>5 DEF Taken
    <2>2. act'[c] = NoAct /\ \A d \in Callers : d # c => act'[d] = [act[d] EXCEPT !.calm = act[d].pc = "idle"]
      BY <1>2 DEF Wrote
    <2>3. c \in Putting BY <1>1 DEF Putting, At
    <2>4. Putting' \subseteq Putting \ {c}
      <3>1. ~At(c, "record", "put")' BY <2>2 DEF At, NoAct
      <3>2. ASSUME NEW d \in Callers, At(d, "record", "put")' PROVE At(d, "record", "put")
        <4>1. d # c BY <3>1, <3>2
        <4>2. act'[d] = [act[d] EXCEPT !.calm = act[d].pc = "idle"] BY <4>1, <2>2
        <4>3. act[d] \in Act BY <1>3
        <4> QED BY <3>2, <4>2, <4>3 DEF At, Act
      <3> QED BY <3>1, <3>2 DEF Putting
    <2>5. IsFiniteSet(Taken) /\ IsFiniteSet(Putting) BY DiaryAssumption, FS_Subset DEF Taken, Putting
    <2>6. Cardinality(Taken') = Cardinality(Taken) + 1 /\ IsFiniteSet(Taken')
      BY <2>1, <2>5, FS_AddElement
    <2>7. IsFiniteSet(Putting \ {c}) /\ Cardinality(Putting \ {c}) = Cardinality(Putting) - 1
      BY <2>3, <2>5, FS_RemoveElement
    <2>8. IsFiniteSet(Putting') /\ Cardinality(Putting') <= Cardinality(Putting \ {c})
      BY <2>4, <2>7, FS_Subset
    <2>9. /\ Cardinality(Taken) \in Nat /\ Cardinality(Putting) \in Nat /\ Cardinality(Putting') \in Nat
          /\ Cardinality(Callers) \in Nat
      BY <2>5, <2>8, DiaryAssumption, FS_CardinalityType
    <2>10. Cardinality(Taken) + Cardinality(Putting) <= MaxTakes + Cardinality(Callers) - 1
      BY DEF DiaryInv, CountOk
    <2> QED BY <2>6, <2>7, <2>8, <2>9, <2>10, DiaryAssumption DEF CountOk
  <1>10. NoAct \in Act /\ NoAct.op \in {"none", "delete"} BY DEF NoAct, Act, Ops, CallSteps, Mapping
  <1>11. answered' \in [Callers -> CallAnswers] /\ \A d \in Callers : d # c => answered'[d] = answered[d]
    BY <1>2, <1>3
  <1>12. act'[c] = NoAct BY <1>2 DEF Wrote
  <1>13. CallOk(c)' BY <1>12, OverOk
  <1>14. UsedBefore' BY <1>2 DEF DiaryInv, UsedBefore, Exists
  <1> QED BY <1>1, <1>2, <1>3, <1>6, <1>7, <1>8, <1>9, <1>10, <1>11, <1>13, <1>14, ChildWriteKeeps

(* overrideSpeakerMapping's patch puts the mapping past every rev that a    *)
(* call or the run of session B holds.                                     *)
LEMMA OverridePatchKeeps ==
    ASSUME DiaryInv, NEW c \in Callers, OverridePatch(c)
    PROVE  DiaryInv'
  <1>1. act[c].op = "override" /\ act[c].pc = "patch" BY DEF OverridePatch, At
  <1>2. {"conflict", "ok"} \subseteq CallAnswers BY DEF CallAnswers
  <1>3. PICK r \in Takes : /\ act[c].of = {r} /\ act[c].seen # "none"
                           /\ take[r].exists /\ act[c].rev = take[r].rev => act[c].seen = take[r].mapping
    BY <1>1 DEF DiaryInv, CallOk, OverrideOk
  <1>4. CASE Refuse(c, "conflict") BY <1>1, <1>2, <1>4, RefuseKeeps
  <1>5. CASE /\ take[r].exists /\ take[r].rev = act[c].rev
             /\ take' = [take EXCEPT ![r].mapping = "manual", ![r].rev = @ + 1]
             /\ Wrote(c, NoAct) /\ Answer(c, "ok") /\ UNCHANGED <<meta, review, queued, agent, budget>>
    <2>1. /\ take \in [Takes -> TakeItem] /\ review \in Review /\ queued \in BOOLEAN
          /\ answered \in [Callers -> CallAnswers] /\ agent \in Run
      BY DEF DiaryInv, DiaryTyped
    <2>2. take[r] \in TakeItem BY <2>1
    <2>3. take[r].rev \in Nat /\ take[r].rev + 1 \in Nat BY <2>2 DEF TakeItem
    <2> DEFINE new == [take[r] EXCEPT !.mapping = "manual", !.rev = @ + 1]
    <2>4. new \in TakeItem /\ new.rev = take[r].rev + 1 /\ new.exists = take[r].exists /\ new.mapping = "manual"
      BY <2>2, <2>3 DEF TakeItem, Mapping
    <2>5. take' = [take EXCEPT ![r] = new] BY <1>5, <2>1
    <2> HIDE DEF new
    <2>6. take' \in [Takes -> TakeItem] /\ take'[r] = new /\ \A s \in Takes : s # r => take'[s] = take[s]
      BY <2>1, <2>4, <2>5
    <2>7. ASSUME NEW d \in Callers, NEW s \in Takes PROVE TakeMoved(d, s)
      BY <1>5, <2>3, <2>4, <2>6 DEF TakeMoved
    <2>8. \A d \in Callers : ReviewMoved(d) BY <1>5 DEF ReviewMoved
    <2>9. AgentOk'
      <3>1. SUFFICES ASSUME agent.pc = "speakers" PROVE AgentOk' BY <1>5 DEF AgentOk
      <3>2. PICK s \in Takes :
                /\ agent.of = {s}
                /\ take[s].exists /\ take[s].mapping # "none" =>
                      agent.rev <= take[s].rev /\ (agent.rev = take[s].rev => agent.saw = take[s].mapping)
        BY <3>1 DEF DiaryInv, AgentOk
      <3>3. agent' = agent /\ agent.rev \in Nat BY <1>5, <2>1 DEF Run
      <3>4. CASE s # r BY <3>2, <3>3, <3>4, <2>6 DEF AgentOk
      <3>5. CASE s = r
        <4>1. take[r].mapping # "none" BY <1>3, <1>5
        <4>2. agent.rev <= take[r].rev BY <3>2, <3>5, <4>1, <1>5
        <4>3. agent.rev < take'[r].rev BY <4>2, <3>3, <2>3, <2>4, <2>6
        <4>4. take'[r].rev \in Nat BY <2>3, <2>4, <2>6
        <4> QED BY <3>2, <3>3, <3>5, <4>3, <4>4 DEF AgentOk
      <3> QED BY <3>4, <3>5
    <2>10. Taken' \subseteq Taken BY <2>4, <2>6 DEF Taken
    <2>11. NoAct \in Act /\ NoAct.op \in {"none", "delete"} BY DEF NoAct, Act, Ops, CallSteps, Mapping
    <2>12. answered' \in [Callers -> CallAnswers] /\ \A d \in Callers : d # c => answered'[d] = answered[d]
      BY <1>5, <2>1, <1>2 DEF Answer
    <2>13. act'[c] = NoAct BY <1>5 DEF Wrote
    <2>14. CallOk(c)' BY <2>13, OverOk
    <2>15. UsedBefore' BY <1>5 DEF DiaryInv, UsedBefore, Exists
    <2> QED BY <1>1, <1>5, <2>1, <2>6, <2>7, <2>8, <2>9, <2>10, <2>11, <2>12, <2>14, <2>15, ChildWriteKeeps
  <1> QED BY <1>3, <1>4, <1>5 DEF OverridePatch

(* deleteTasting takes one child after the other, META last.               *)
LEMMA DeleteChildKeeps ==
    ASSUME DiaryInv, NEW c \in Callers, DeleteChild(c)
    PROVE  DiaryInv'
  <1>1. act[c].op = "delete" /\ act[c].pc = "child" BY DEF DeleteChild, At
  <1>2. /\ take \in [Takes -> TakeItem] /\ review \in Review /\ queued \in BOOLEAN
        /\ answered \in [Callers -> CallAnswers] /\ act \in [Callers -> Act] /\ act[c] \in Act
    BY DEF DiaryInv, DiaryTyped
  <1>3. NoAct \in Act /\ NoAct.op = "none" BY DEF NoAct, Act, Ops, CallSteps, Mapping
  <1>4. CASE DeleteMeta(c)
    <2>1. /\ meta' = NoMeta /\ Wrote(c, NoAct) /\ answered' = [answered EXCEPT ![c] = "ok"]
          /\ take' = take /\ review' = review /\ queued' = queued /\ agent' = agent /\ budget' = budget
      BY <1>4 DEF DeleteMeta, Answer
    <2>2. meta' \in Meta /\ ~Exists' BY <2>1 DEF NoMeta, Meta, Life, Exists
    <2>3. act'[c] = NoAct /\ \A d \in Callers : d # c => act'[d] = [act[d] EXCEPT !.calm = act[d].pc = "idle"]
      BY <2>1 DEF Wrote
    <2>4. ASSUME NEW d \in Callers, d # c
          PROVE  act'[d] \in Act /\ act'[d].op = act[d].op /\ act'[d].pc = act[d].pc
      <3>1. act[d] \in Act BY <1>2
      <3>2. act'[d] = [act[d] EXCEPT !.calm = act[d].pc = "idle"] BY <2>3, <2>4
      <3> QED BY <3>1, <3>2 DEF Act
    <2>5. act' \in [Callers -> Act] BY <1>3, <2>1, <2>3, <2>4 DEF Wrote
    <2>6. answered' \in [Callers -> CallAnswers] /\ \A d \in Callers : d # c => answered'[d] = answered[d]
      BY <2>1, <1>2 DEF CallAnswers
    <2>7. DiaryTyped' BY <2>1, <2>2, <2>5, <2>6 DEF DiaryInv, DiaryTyped
    <2>8. MetaMoved BY <2>2 DEF MetaMoved
    <2>9. \A d \in Callers : ReviewMoved(d) /\ \A r \in Takes : TakeMoved(d, r)
      BY <2>1 DEF ReviewMoved, TakeMoved
    <2>10. UsedBefore' /\ AgentOk' BY <2>1, <2>2 DEF UsedBefore, AgentOk, DiaryInv
    <2>11. CountOk'
      <3>1. Taken' \subseteq Taken BY <2>1 DEF Taken
      <3> QED BY <3>1, <2>3, <2>4, <1>3, SamePuts
    <2>12. CallOk(c)' /\ \A d \in Callers : Apart(c, d)' /\ Apart(d, c)' BY <2>3, OverOk
    <2> QED BY <1>1, <1>3, <2>1, <2>6, <2>7, <2>8, <2>9, <2>10, <2>11, <2>12, WriteStep DEF CallAnswers
  <1>5. ASSUME NEW x \in act[c].todo,
               take' = [r \in Takes |-> IF x = <<"rec", r>> THEN NoTake ELSE take[r]],
               review' = IF x = <<"analysis">> THEN NoReview ELSE review,
               queued' = (queued /\ x # <<"job">>),
               Wrote(c, [act[c] EXCEPT !.todo = @ \ {x}]),
               UNCHANGED <<meta, agent, answered, budget>>
        PROVE  DiaryInv'
    <2> DEFINE a == [act[c] EXCEPT !.todo = @ \ {x}]
    <2>1. a \in Act /\ a.op = "delete" /\ a.pc = "child" /\ a.calm = act[c].calm
          /\ a.todo = act[c].todo \ {x}
      BY <1>1, <1>2 DEF Act
    <2>2. Wrote(c, a) BY <1>5
    <2> HIDE DEF a
    <2>3. act'[c] = a BY <2>2 DEF Wrote
    <2>4. \A r \in Takes : take'[r] = take[r] \/ take'[r] = NoTake BY <1>5
    <2>5. NoTake \in TakeItem /\ ~NoTake.exists /\ NoTake.mapping = "none" BY DEF NoTake, TakeItem, Mapping
    <2>6. take' \in [Takes -> TakeItem] BY <1>2, <1>5, <2>5
    <2>7. NoReview \in Review /\ NoReview.used = {} BY DEF NoReview, Review
    <2>8. review' \in Review /\ review'.used \subseteq review.used BY <1>2, <1>5, <2>7
    <2>9. queued' \in BOOLEAN BY <1>5
    <2>10. \A d \in Callers : ReviewMoved(d) /\ \A r \in Takes : TakeMoved(d, r)
      BY <2>4, <2>5, <2>8 DEF ReviewMoved, TakeMoved
    <2>11. UsedBefore' BY <1>5, <2>8 DEF DiaryInv, UsedBefore, Exists
    <2>12. AgentOk'
      <3>1. SUFFICES ASSUME agent.pc = "speakers" PROVE AgentOk' BY <1>5 DEF AgentOk
      <3>2. PICK s \in Takes :
                /\ agent.of = {s}
                /\ take[s].exists /\ take[s].mapping # "none" =>
                      agent.rev <= take[s].rev /\ (agent.rev = take[s].rev => agent.saw = take[s].mapping)
        BY <3>1 DEF DiaryInv, AgentOk
      <3> QED BY <3>2, <1>5, <2>4, <2>5 DEF AgentOk
    <2>13. Taken' \subseteq Taken BY <2>4, <2>5 DEF Taken
    <2>14. DeleteOk(c)'
      <3>1. SUFFICES ASSUME act[c].calm PROVE DeleteOk(c)' BY <2>1, <2>3 DEF DeleteOk
      <3>2. /\ \A r \in Taken : <<"rec", r>> \in act[c].todo
            /\ review.exists => <<"analysis">> \in act[c].todo
            /\ queued => <<"job">> \in act[c].todo
        BY <1>1, <3>1 DEF DiaryInv, CallOk, DeleteOk, At
      <3>3. ASSUME NEW r \in Taken' PROVE <<"rec", r>> \in a.todo
        <4>1. r \in Takes /\ r \in Taken /\ take'[r].exists BY <2>13 DEF Taken
        <4>2. <<"rec", r>> # x BY <4>1, <1>5, <2>5
        <4> QED BY <4>1, <4>2, <3>2, <2>1
      <3>4. review'.exists => <<"analysis">> \in a.todo
        <4>1. ~NoReview.exists BY DEF NoReview
        <4> QED BY <4>1, <3>2, <1>5, <2>1
      <3>5. queued' => <<"job">> \in a.todo BY <3>2, <1>5, <2>1
      <3> QED BY <3>3, <3>4, <3>5, <2>3 DEF DeleteOk
    <2>15. IdleOk(c) BY DEF DiaryInv, CallOk
    <2>16. CallOk(c)'
      BY <1>1, <1>5, <2>1, <2>3, <2>14, <2>15
         DEF CallOk, IdleOk, TextOk, InText, RecordOk, OverrideOk, PhotoOk, AttachOk, At
    <2>17. answered' \in [Callers -> CallAnswers] /\ \A d \in Callers : d # c => answered'[d] = answered[d]
      BY <1>2, <1>5
    <2> QED BY <1>1, <1>5, <2>1, <2>2, <2>6, <2>8, <2>9, <2>10, <2>11, <2>12, <2>13, <2>16, <2>17, ChildWriteKeeps
  <1> QED BY <1>4, <1>5 DEF DeleteChild

-----------------------------------------------------------------------------
(* The run of session B.                                                   *)

(* A read of the run: nothing else moves.                                  *)
LEMMA AgentGoesKeeps ==
    ASSUME DiaryInv, NEW a \in Run, AgentGoes(a), Exists \/ agent.pc # "off", AgentOk'
    PROVE  DiaryInv'
  <1>1. /\ agent' = a /\ meta' = meta /\ take' = take /\ review' = review /\ queued' = queued
        /\ act' = act /\ answered' = answered /\ budget' = budget
    BY DEF AgentGoes, partition
  <1>2. DiaryTyped' BY <1>1 DEF DiaryInv, DiaryTyped
  <1>3. CreatedOnce'
    <2>1. (~Exists)' => meta' = NoMeta BY <1>1 DEF Exists, DiaryInv, CreatedOnce
    <2>2. budget'.calls \in Int /\ budget'.calls <= budget.calls BY <1>1 DEF DiaryInv, DiaryTyped
    <2> QED BY <2>1, <2>2, CallBegun
  <1>4. UsedBefore' BY <1>1 DEF DiaryInv, UsedBefore, Exists
  <1>5. CountOk' BY <1>1 DEF DiaryInv, CountOk, Taken, Putting, At
  <1>6. ASSUME NEW d \in Callers PROVE CallOk(d)'
    <2>1. CallOk(d) BY DEF DiaryInv
    <2>2. IdleOk(d)' /\ TextOk(d)' /\ RecordOk(d)' /\ OverrideOk(d)'
      BY <2>1, <1>1 DEF CallOk, IdleOk, TextOk, InText, RecordOk, OverrideOk, Exists
    <2>3. PhotoOk(d)' /\ AttachOk(d)' /\ DeleteOk(d)'
      BY <2>1, <1>1 DEF CallOk, PhotoOk, AttachOk, DeleteOk, At, Exists, Taken
    <2> QED BY <2>2, <2>3 DEF CallOk
  <1>7. \A d, e \in Callers : d # e => Apart(d, e)'
    BY <1>1 DEF DiaryInv, Apart, InText
  <1> QED BY <1>2, <1>3, <1>4, <1>5, <1>6, <1>7 DEF DiaryInv

(* A write of the run disturbs every call.                                 *)
LEMMA AgentWriteKeeps ==
    ASSUME DiaryInv, agent.pc # "off", NEW pc \in {"analysis", "tasting", "over"}, AgentWrote(pc),
           meta' \in Meta, take' \in [Takes -> TakeItem], review' \in Review,
           MetaMoved, (~Exists)' => meta' = NoMeta, UsedBefore', Taken' \subseteq Taken,
           \A d \in Callers : ReviewMoved(d) /\ \A r \in Takes : TakeMoved(d, r)
    PROVE  DiaryInv'
  <1>1. /\ agent' = [NoRun EXCEPT !.pc = pc] /\ queued' = queued /\ answered' = answered /\ budget' = budget
        /\ act' = [d \in Callers |-> [act[d] EXCEPT !.calm = act[d].pc = "idle"]]
    BY DEF AgentWrote
  <1>2. act \in [Callers -> Act] /\ DiaryTyped BY DEF DiaryInv, DiaryTyped
  <1>3. agent' \in Run /\ agent'.pc # "speakers" BY <1>1 DEF NoRun, Run, Mapping
  <1>4. ASSUME NEW d \in Callers
        PROVE  /\ Disturbed(d) /\ act'[d] \in Act
               /\ act'[d].op = act[d].op /\ act'[d].pc = act[d].pc
    <2>1. act[d] \in Act BY <1>2
    <2>2. act'[d] = [act[d] EXCEPT !.calm = act[d].pc = "idle"] BY <1>1
    <2>3. Disturbed(d) BY <2>2, <1>1 DEF Disturbed
    <2> QED BY <2>1, <2>2, <2>3 DEF Act
  <1>5. act' \in [Callers -> Act] BY <1>1, <1>4
  <1>6. DiaryTyped' BY <1>1, <1>2, <1>3, <1>5 DEF DiaryTyped
  <1>7. CreatedOnce'
    <2>1. budget'.calls \in Int /\ budget'.calls <= budget.calls BY <1>1, <1>2 DEF DiaryTyped
    <2> QED BY <2>1, CallBegun
  <1>8. AgentOk' BY <1>3 DEF AgentOk
  <1>9. CountOk'
    <2>1. Putting' \subseteq Putting BY <1>4 DEF Putting, At
    <2> QED BY <2>1, FewerCount
  <1>10. ASSUME NEW d \in Callers PROVE CallOk(d)'
    <2>1. CallOk(d) /\ Disturbed(d) BY <1>4 DEF DiaryInv
    <2> QED BY <2>1, <1>2, <1>6, DisturbedOk
  <1>11. ASSUME NEW d \in Callers, NEW e \in Callers, d # e PROVE Apart(d, e)'
    <2>1. Apart(d, e) /\ Disturbed(d) /\ Disturbed(e) BY <1>4, <1>11 DEF DiaryInv
    <2> QED BY <2>1, <1>2, DisturbedApart
  <1> QED BY <1>6, <1>7, <1>8, <1>9, <1>10, <1>11 DEF DiaryInv

LEMMA AgentReadsKeep ==
    ASSUME DiaryInv, SpeakersRead \/ ReviewRead \/ ReadyRead \/ AgentConflict
    PROVE  DiaryInv'
  <1>1. meta \in Meta /\ take \in [Takes -> TakeItem] /\ review \in Review
    BY DEF DiaryInv, DiaryTyped
  <1>2. ASSUME NEW a \in Run, AgentGoes(a), a.pc # "speakers" PROVE AgentOk'
    BY <1>2 DEF AgentGoes, AgentOk
  <1>3. NoRun \in Run BY DEF NoRun, Run, Mapping
  <1>4. CASE SpeakersRead
    <2>1. PICK r \in Taken : /\ agent.pc = "off" /\ Exists
                             /\ AgentGoes([pc |-> "speakers", of |-> {r}, rev |-> take[r].rev,
                                           saw |-> take[r].mapping])
      BY <1>4 DEF SpeakersRead
    <2> DEFINE a == [pc |-> "speakers", of |-> {r}, rev |-> take[r].rev, saw |-> take[r].mapping]
    <2>2. r \in Takes BY DEF Taken
    <2>3. take[r].rev \in Nat /\ take[r].mapping \in Mapping BY <1>1, <2>2 DEF TakeItem
    <2>4. a \in Run BY <2>2, <2>3 DEF Run
    <2>5. agent' = a /\ take' = take BY <2>1 DEF AgentGoes, partition
    <2>6. AgentOk' BY <2>2, <2>3, <2>5 DEF AgentOk
    <2> QED BY <2>1, <2>4, <2>6, AgentGoesKeeps
  <1>5. CASE ReviewRead
    <2> DEFINE a == [NoRun EXCEPT !.pc = IF review.exists THEN "patch" ELSE "put", !.rev = review.rev]
    <2>1. agent.pc = "analysis" /\ AgentGoes(a) BY <1>5 DEF ReviewRead
    <2>2. review.rev \in Nat BY <1>1 DEF Review
    <2>3. a \in Run /\ a.pc # "speakers" BY <1>3, <2>2 DEF Run, NoRun
    <2> HIDE DEF a
    <2> QED BY <2>1, <2>3, <1>2, AgentGoesKeeps
  <1>6. CASE ReadyRead
    <2> DEFINE a == [NoRun EXCEPT !.pc = IF Exists THEN "ready" ELSE "over", !.rev = meta.rev]
    <2>1. agent.pc = "tasting" /\ AgentGoes(a) BY <1>6 DEF ReadyRead
    <2>2. meta.rev \in Nat BY <1>1 DEF Meta
    <2>3. a \in Run /\ a.pc # "speakers" BY <1>3, <2>2 DEF Run, NoRun
    <2> HIDE DEF a
    <2> QED BY <2>1, <2>3, <1>2, AgentGoesKeeps
  <1>7. CASE AgentConflict
    <2> DEFINE a == [NoRun EXCEPT !.pc = "over"]
    <2>1. agent.pc # "off" /\ AgentGoes(a) BY <1>7 DEF AgentConflict
    <2>2. a \in Run /\ a.pc # "speakers" BY <1>3 DEF Run, NoRun
    <2> HIDE DEF a
    <2> QED BY <2>1, <2>2, <1>2, AgentGoesKeeps
  <1> QED BY <1>4, <1>5, <1>6, <1>7

LEMMA AgentWritesKeep ==
    ASSUME DiaryInv, SpeakersWrite \/ ReviewWrite \/ ReadyWrite
    PROVE  DiaryInv'
  <1>1. meta \in Meta /\ take \in [Takes -> TakeItem] /\ review \in Review
    BY DEF DiaryInv, DiaryTyped
  <1>2. ASSUME meta' = meta PROVE MetaMoved /\ ((~Exists)' => meta' = NoMeta) /\ meta' \in Meta
    BY <1>1, <1>2 DEF MetaMoved, Exists, DiaryInv, CreatedOnce
  <1>3. CASE SpeakersWrite
    <2>1. PICK r \in agent.of :
              /\ agent.pc = "speakers" /\ take[r].exists /\ take[r].rev = agent.rev
              /\ take' = [take EXCEPT ![r].mapping = "auto", ![r].rev = @ + 1]
              /\ AgentWrote("analysis") /\ UNCHANGED <<meta, review>>
      BY <1>3 DEF SpeakersWrite
    <2>2. r \in Takes BY <2>1 DEF DiaryInv, AgentOk
    <2>3. take[r] \in TakeItem BY <1>1, <2>2
    <2>4. take[r].rev \in Nat /\ take[r].rev + 1 \in Nat BY <2>3 DEF TakeItem
    <2> DEFINE new == [take[r] EXCEPT !.mapping = "auto", !.rev = @ + 1]
    <2>5. new \in TakeItem /\ new.rev = take[r].rev + 1 BY <2>3, <2>4 DEF TakeItem, Mapping
    <2>6. take' = [take EXCEPT ![r] = new] BY <2>1, <1>1
    <2> HIDE DEF new
    <2>7. take' \in [Takes -> TakeItem] /\ take'[r] = new /\ \A s \in Takes : s # r => take'[s] = take[s]
      BY <1>1, <2>2, <2>5, <2>6
    <2>8. \A d \in Callers : ReviewMoved(d) /\ \A s \in Takes : TakeMoved(d, s)
      BY <2>1, <2>4, <2>5, <2>7 DEF ReviewMoved, TakeMoved
    <2>9. Taken' \subseteq Taken BY <2>1, <2>2, <2>7 DEF Taken
    <2>10. UsedBefore' BY <2>1 DEF DiaryInv, UsedBefore, Exists
    <2>11. review' \in Review /\ agent.pc # "off" BY <2>1, <1>1
    <2> QED BY <2>1, <2>7, <2>8, <2>9, <2>10, <2>11, <1>2, AgentWriteKeeps
  <1>4. CASE ReviewWrite
    <2>1. /\ AgentWrote("tasting") /\ meta' = meta /\ take' = take /\ agent.pc # "off"
          /\ \/ review' = [NoReview EXCEPT !.exists = TRUE]
             \/ review' = [review EXCEPT !.rev = @ + 1]
      BY <1>4 DEF ReviewWrite
    <2>2. review.rev + 1 \in Nat BY <1>1 DEF Review
    <2>3. review' \in Review /\ review'.used \subseteq review.used
      <3>1. [NoReview EXCEPT !.exists = TRUE] \in Review /\ [NoReview EXCEPT !.exists = TRUE].used = {}
        BY DEF Review, NoReview
      <3>2. [review EXCEPT !.rev = @ + 1] \in Review /\ [review EXCEPT !.rev = @ + 1].used = review.used
        BY <2>2, <1>1 DEF Review
      <3> QED BY <3>1, <3>2, <2>1
    <2>4. \A d \in Callers : ReviewMoved(d) /\ \A s \in Takes : TakeMoved(d, s)
      BY <2>1, <2>3 DEF ReviewMoved, TakeMoved
    <2>5. UsedBefore' BY <2>1, <2>3 DEF DiaryInv, UsedBefore, Exists
    <2>6. Taken' \subseteq Taken /\ take' \in [Takes -> TakeItem] BY <2>1, <1>1 DEF Taken
    <2> QED BY <2>1, <2>3, <2>4, <2>5, <2>6, <1>2, AgentWriteKeeps
  <1>5. CASE ReadyWrite
    <2>1. /\ AgentWrote("over") /\ review' = review /\ take' = take /\ agent.pc # "off" /\ Exists
          /\ meta' = [meta EXCEPT !.life = "ready", !.rev = @ + 1]
      BY <1>5 DEF ReadyWrite
    <2>2. meta.rev \in Nat /\ meta.rev + 1 \in Nat BY <1>1 DEF Meta
    <2>3. meta' \in Meta /\ meta'.rev = meta.rev + 1 /\ meta'.life = "ready"
      BY <2>1, <2>2, <1>1 DEF Meta, Life
    <2>4. MetaMoved /\ Exists' BY <2>1, <2>2, <2>3 DEF MetaMoved, Exists
    <2>5. \A d \in Callers : ReviewMoved(d) /\ \A s \in Takes : TakeMoved(d, s)
      BY <2>1 DEF ReviewMoved, TakeMoved
    <2>6. UsedBefore'
      <3>1. \A v \in review.used : v \in Nat /\ v < meta.rev
        BY <2>1, <1>1 DEF DiaryInv, UsedBefore, Review
      <3> QED BY <3>1, <2>1, <2>2, <2>3 DEF UsedBefore
    <2>7. Taken' \subseteq Taken /\ take' \in [Takes -> TakeItem] /\ review' \in Review
      BY <2>1, <1>1 DEF Taken
    <2> QED BY <2>1, <2>3, <2>4, <2>5, <2>6, <2>7, AgentWriteKeeps
  <1> QED BY <1>3, <1>4, <1>5

-----------------------------------------------------------------------------
(* The invariant.                                                          *)

LEMMA DiaryStarts == DiaryInit => DiaryInv
  <1> SUFFICES ASSUME DiaryInit PROVE DiaryInv OBVIOUS
  <1>1. /\ meta = NoMeta /\ take = [r \in Takes |-> NoTake] /\ review = NoReview /\ queued = FALSE
        /\ agent = NoRun /\ act = [c \in Callers |-> NoAct] /\ answered = [c \in Callers |-> "none"]
        /\ budget = [calls |-> MaxDiaryCalls, drops |-> MaxDrops]
    BY DEF DiaryInit
  <1>2. meta \in Meta /\ take \in [Takes -> TakeItem] /\ review \in Review /\ agent \in Run
    BY <1>1 DEF NoMeta, Meta, Life, NoTake, TakeItem, Mapping, NoReview, Review, NoRun, Run
  <1>3. NoAct \in Act BY DEF NoAct, Act, Ops, CallSteps, Mapping
  <1>4. budget \in [calls : Int, drops : Int] BY <1>1, DiaryAssumption
  <1>5. DiaryTyped BY <1>1, <1>2, <1>3, <1>4 DEF DiaryTyped, CallAnswers
  <1>6. CreatedOnce BY <1>1, DiaryAssumption DEF CreatedOnce, Exists, NoMeta, NoReview, NoRun
  <1>7. UsedBefore /\ AgentOk BY <1>1 DEF UsedBefore, AgentOk, NoReview, NoRun
  <1>8. CountOk
    <2>1. Taken = {} BY <1>1 DEF Taken, NoTake
    <2>2. Putting = {} BY <1>1 DEF Putting, At, NoAct
    <2>3. Cardinality(Taken) = 0 /\ Cardinality(Putting) = 0 BY <2>1, <2>2, FS_EmptySet
    <2>4. Cardinality(Callers) \in Nat /\ Cardinality(Callers) # 0
      BY DiaryAssumption, FS_CardinalityType, FS_EmptySet
    <2> QED BY <2>3, <2>4, DiaryAssumption DEF CountOk
  <1>9. \A c \in Callers : CallOk(c)
    BY <1>1 DEF NoAct, CallOk, IdleOk, TextOk, InText, RecordOk, OverrideOk, PhotoOk, AttachOk, DeleteOk, At
  <1>10. \A c, d \in Callers : Apart(c, d)
    BY <1>1 DEF NoAct, Apart, InText
  <1> QED BY <1>5, <1>6, <1>7, <1>8, <1>9, <1>10 DEF DiaryInv

LEMMA DiaryStays == DiaryInv /\ UNCHANGED diaryVars => DiaryInv'
  <1> SUFFICES ASSUME DiaryInv, UNCHANGED diaryVars PROVE DiaryInv' OBVIOUS
  <1>1. /\ meta' = meta /\ take' = take /\ review' = review /\ queued' = queued
        /\ act' = act /\ agent' = agent /\ answered' = answered /\ budget' = budget
    BY DEF diaryVars
  <1>2. (DiaryTyped /\ CreatedOnce /\ UsedBefore /\ AgentOk /\ CountOk)'
    BY <1>1 DEF DiaryInv, DiaryTyped, CreatedOnce, UsedBefore, AgentOk, CountOk, Taken, Putting, At, Exists
  <1>3. ASSUME NEW d \in Callers PROVE CallOk(d)'
    <2>1. CallOk(d) BY DEF DiaryInv
    <2>2. IdleOk(d)' /\ TextOk(d)' /\ RecordOk(d)' /\ OverrideOk(d)'
      BY <2>1, <1>1 DEF CallOk, IdleOk, TextOk, InText, RecordOk, OverrideOk, Exists
    <2>3. PhotoOk(d)' /\ AttachOk(d)' /\ DeleteOk(d)'
      BY <2>1, <1>1 DEF CallOk, PhotoOk, AttachOk, DeleteOk, At, Exists, Taken
    <2> QED BY <2>2, <2>3 DEF CallOk
  <1>4. \A d, e \in Callers : d # e => Apart(d, e)'
    BY <1>1 DEF DiaryInv, Apart, InText
  <1> QED BY <1>2, <1>3, <1>4 DEF DiaryInv

LEMMA DiarySteps == DiaryInv /\ [DiaryNext]_diaryVars => DiaryInv'
  <1> SUFFICES ASSUME DiaryInv, [DiaryNext]_diaryVars PROVE DiaryInv' OBVIOUS
  <1>1. CASE UNCHANGED diaryVars BY <1>1, DiaryStays
  <1>2. CASE CreateTasting BY <1>2, CreateKeeps
  <1>3. CASE Established BY <1>3, EstablishedKeeps
  <1>4. ASSUME NEW c \in Callers,
               \/ CallAttach(c) \/ CallUpdate(c) \/ CallRecord(c) \/ CallOverride(c)
               \/ CallPhoto(c) \/ CallDelete(c)
        PROVE  DiaryInv'
    BY <1>4, CallKeeps
  <1>5. ASSUME NEW c \in Callers,
               \/ AttachRead(c) \/ AttachBundle(c) \/ UpdateRead(c) \/ PhotoRead(c) \/ DeleteRead(c)
               \/ RecordRead(c) \/ RecordCount(c) \/ OverrideRead(c) \/ Dropped(c)
        PROVE  DiaryInv'
    BY <1>5, ReadKeeps, RecordingReadKeeps, DropKeeps
  <1>6. ASSUME NEW c \in Callers,
               \/ AttachPatch(c) \/ UpdateMeta(c) \/ UpdateText(c) \/ RecordPut(c)
               \/ OverridePatch(c) \/ PhotoPatch(c) \/ DeleteChild(c)
        PROVE  DiaryInv'
    BY <1>6, AttachPatchKeeps, UpdateMetaKeeps, UpdateTextKeeps, RecordPutKeeps,
       OverridePatchKeeps, PhotoPatchKeeps, DeleteChildKeeps
  <1>7. CASE SpeakersRead \/ ReviewRead \/ ReadyRead \/ AgentConflict BY <1>7, AgentReadsKeep
  <1>8. CASE SpeakersWrite \/ ReviewWrite \/ ReadyWrite BY <1>8, AgentWritesKeep
  <1> QED BY <1>1, <1>2, <1>3, <1>4, <1>5, <1>6, <1>7, <1>8 DEF DiaryNext

LEMMA DiaryHolds == DiarySpec => []DiaryInv
  BY DiaryStarts, DiarySteps, PTL DEF DiarySpec

(* Parallel registrations pass the limit of recordings by at most one for   *)
(* each call beyond the first (TakesBounded): createRecording counts and    *)
(* puts in two awaits, and a put has seen a count below the limit.          *)
THEOREM RecordingsBounded == DiarySpec => []TakesBounded
  <1>1. DiaryInv => TakesBounded
    <2> SUFFICES ASSUME DiaryInv PROVE TakesBounded OBVIOUS
    <2>1. IsFiniteSet(Taken) /\ IsFiniteSet(Putting) BY DiaryAssumption, FS_Subset DEF Taken, Putting
    <2>2. Cardinality(Taken) \in Nat /\ Cardinality(Putting) \in Nat /\ Cardinality(Callers) \in Nat
      BY <2>1, DiaryAssumption, FS_CardinalityType
    <2>3. Cardinality(Taken) + Cardinality(Putting) <= MaxTakes + Cardinality(Callers) - 1
      BY DEF DiaryInv, CountOk
    <2> QED BY <2>2, <2>3, DiaryAssumption DEF TakesBounded
  <1> QED BY <1>1, DiaryHolds, PTL

-----------------------------------------------------------------------------
(* Types: what is left of the bounds stays a number.                       *)

BudgetLeft == budget \in [calls : Nat, drops : Nat]

LEMMA BudgetSteps == BudgetLeft /\ [DiaryNext]_diaryVars => BudgetLeft'
  <1> SUFFICES ASSUME BudgetLeft, [DiaryNext]_diaryVars PROVE BudgetLeft' OBVIOUS
  <1> USE DEF BudgetLeft
  <1>1. CASE CreateTasting \/ Established BY <1>1, DiaryAssumption DEF CreateTasting, Established
  <1>2. ASSUME NEW c \in Callers, NEW a, Calls(c, a) PROVE BudgetLeft' BY <1>2 DEF Calls
  <1>3. ASSUME NEW c \in Callers,
               CallAttach(c) \/ CallUpdate(c) \/ CallRecord(c) \/ CallOverride(c) \/ CallPhoto(c)
               \/ CallDelete(c)
        PROVE  BudgetLeft'
    BY <1>2, <1>3 DEF CallAttach, CallUpdate, CallRecord, CallOverride, CallPhoto, CallDelete
  <1>4. ASSUME NEW c \in Callers, AttachRead(c) \/ AttachBundle(c) \/ AttachPatch(c) \/ UpdateMeta(c)
                                  \/ UpdateRead(c) \/ UpdateText(c)
        PROVE  budget' = budget
    BY <1>4 DEF AttachRead, AttachBundle, AttachPatch, UpdateMeta, UpdateRead, UpdateText, Refuse, PatchMeta
  <1>5. ASSUME NEW c \in Callers, RecordRead(c) \/ RecordCount(c) \/ RecordPut(c) \/ OverrideRead(c)
                                  \/ OverridePatch(c) \/ PhotoRead(c) \/ PhotoPatch(c)
        PROVE  budget' = budget
    BY <1>5 DEF RecordRead, RecordCount, RecordPut, OverrideRead, OverridePatch, PhotoRead, PhotoPatch,
       Reads, Refuse, PatchMeta
  <1>6. ASSUME NEW c \in Callers, DeleteRead(c) \/ DeleteChild(c) PROVE budget' = budget
    BY <1>6 DEF DeleteRead, DeleteChild, DeleteMeta, Refuse
  <1>7. ASSUME NEW c \in Callers, Dropped(c) PROVE BudgetLeft' BY <1>7 DEF Dropped
  <1>8. CASE \/ SpeakersRead \/ SpeakersWrite \/ ReviewRead \/ ReviewWrite
             \/ ReadyRead \/ ReadyWrite \/ AgentConflict
    BY <1>8 DEF SpeakersRead, SpeakersWrite, ReviewRead, ReviewWrite, ReadyRead, ReadyWrite, AgentConflict,
       AgentGoes, AgentWrote
  <1>9. CASE UNCHANGED diaryVars BY <1>9 DEF diaryVars
  <1> QED BY <1>1, <1>3, <1>4, <1>5, <1>6, <1>7, <1>8, <1>9 DEF DiaryNext

LEMMA DiaryTypes == DiarySpec => []DiaryTypeOK
  <1>1. DiaryInit => BudgetLeft BY DiaryAssumption DEF DiaryInit, BudgetLeft
  <1>2. DiaryInv /\ BudgetLeft => DiaryTypeOK
    BY DEF DiaryInv, DiaryTyped, BudgetLeft, DiaryTypeOK, Meta, TakeItem, Review, Act, Ops, CallAnswers
  <1> QED BY <1>1, <1>2, BudgetSteps, DiaryHolds, PTL DEF DiarySpec

-----------------------------------------------------------------------------
(* The action properties.                                                  *)

(* What another caller's step leaves of a call.                            *)
LEMMA OthersGoOn ==
    ASSUME DiaryInv, NEW c \in Callers, NEW d \in Callers, d # c,
           (\E a : Goes(d, a)) \/ (\E a : Wrote(d, a)) \/ UNCHANGED act
           \/ \E pc : AgentWrote(pc)
    PROVE  act'[c].pc = act[c].pc
  <1>1. act \in [Callers -> Act] /\ act[c] \in Act BY DEF DiaryInv, DiaryTyped
  <1>2. [act[c] EXCEPT !.calm = act[c].pc = "idle"].pc = act[c].pc BY <1>1 DEF Act
  <1>3. CASE \E a : Goes(d, a) BY <1>1, <1>3 DEF Goes
  <1>4. CASE \E a : Wrote(d, a) BY <1>2, <1>4 DEF Wrote
  <1>5. CASE \E pc : AgentWrote(pc) BY <1>2, <1>5 DEF AgentWrote
  <1> QED BY <1>3, <1>4, <1>5

(* A call is answered "ok" by its own last write, or by addFoodPhoto that   *)
(* finds the photo there.                                                  *)
LEMMA EndsOk ==
    ASSUME DiaryInv, DiaryNext, NEW c \in Callers, Ends(c, "ok")
    PROVE  \/ AttachPatch(c) \/ UpdateMeta(c) \/ UpdateText(c) \/ RecordPut(c)
           \/ OverridePatch(c) \/ PhotoRead(c) \/ PhotoPatch(c) \/ DeleteChild(c)
  <1>1. act \in [Callers -> Act] /\ answered \in [Callers -> CallAnswers] /\ act[c] \in Act
    BY DEF DiaryInv, DiaryTyped
  <1>2. act[c].pc # "idle" /\ act'[c].pc = "idle" /\ answered'[c] = "ok" BY DEF Ends
  <1>3. answered[c] = "none" BY <1>2 DEF DiaryInv, CallOk, IdleOk
  <1>4. ~(answered' = answered) BY <1>2, <1>3
  <1>5. ASSUME Refuse(c, "not_found") \/ Refuse(c, "no_wine") \/ Refuse(c, "limit") PROVE FALSE
    BY <1>1, <1>2, <1>5 DEF Refuse, Answer
  <1>6. ASSUME NEW d \in Callers,
               \/ CallAttach(d) \/ CallUpdate(d) \/ CallRecord(d) \/ CallOverride(d)
               \/ CallPhoto(d) \/ CallDelete(d)
        PROVE  FALSE
    <2>1. PICK a : Calls(d, a)
      BY <1>6 DEF CallAttach, CallUpdate, CallRecord, CallOverride, CallPhoto, CallDelete
    <2>2. d # c BY <2>1, <1>2 DEF Calls
    <2>3. act'[c] = act[c] BY <2>1, <2>2, <1>1 DEF Calls
    <2> QED BY <2>3, <1>2
  <1>7. ASSUME NEW d \in Callers,
               \/ AttachRead(d) \/ AttachBundle(d) \/ UpdateRead(d) \/ DeleteRead(d)
               \/ RecordRead(d) \/ RecordCount(d) \/ OverrideRead(d) \/ Dropped(d)
        PROVE  FALSE
    <2>1. answered' = answered \/ Refuse(d, "not_found") \/ Refuse(d, "no_wine") \/ Refuse(d, "limit")
      BY <1>7 DEF AttachRead, AttachBundle, UpdateRead, DeleteRead, RecordRead, RecordCount,
                  OverrideRead, Dropped, Reads
    <2>2. d # c /\ (Refuse(d, "not_found") \/ Refuse(d, "no_wine") \/ Refuse(d, "limit"))
      BY <2>1, <1>4, <1>5
    <2>3. act'[c].pc = act[c].pc BY <2>2, OthersGoOn DEF Refuse
    <2> QED BY <2>3, <1>2
  <1>8. ASSUME NEW d \in Callers, d # c,
               \/ AttachPatch(d) \/ UpdateMeta(d) \/ UpdateText(d) \/ RecordPut(d)
               \/ OverridePatch(d) \/ PhotoRead(d) \/ PhotoPatch(d) \/ DeleteChild(d)
        PROVE  FALSE
    <2>1. (\E a : Goes(d, a)) \/ (\E a : Wrote(d, a))
      BY <1>8 DEF AttachPatch, UpdateMeta, UpdateText, RecordPut, OverridePatch, PhotoRead, PhotoPatch,
                  DeleteChild, DeleteMeta, PatchMeta, Refuse, Reads
    <2>2. act'[c].pc = act[c].pc BY <2>1, <1>8, OthersGoOn
    <2> QED BY <2>2, <1>2
  <1>9. ASSUME \/ CreateTasting \/ Established \/ SpeakersRead \/ SpeakersWrite \/ ReviewRead
               \/ ReviewWrite \/ ReadyRead \/ ReadyWrite \/ AgentConflict
        PROVE  FALSE
    <2>1. answered' = answered
      BY <1>9 DEF CreateTasting, Established, SpeakersRead, SpeakersWrite, ReviewRead, ReviewWrite,
                  ReadyRead, ReadyWrite, AgentConflict, AgentGoes, AgentWrote
    <2> QED BY <2>1, <1>4
  <1> QED BY <1>6, <1>7, <1>8, <1>9 DEF DiaryNext

(* A stuttering step answers no call.                                      *)
LEMMA NoStutter ==
    ASSUME NEW c \in Callers, UNCHANGED diaryVars
    PROVE  ~Ends(c, "ok")
  BY DEF diaryVars, Ends

(* Of the editors whose pages showed one version of the tasting at most one *)
(* gets the summary saved (OneTextPerVersion): updateTasting's patch of     *)
(* META lets one of them through to the analysis.                          *)
THEOREM TextsAreOnePerVersion == DiarySpec => OneTextPerVersion
  <1>1. ASSUME DiaryInv, [DiaryNext]_diaryVars, NEW c \in Callers,
               act[c].op = "update", act[c].text, Ends(c, "ok")
        PROVE  act[c].rev \notin review.used
    <2>1. DiaryNext BY <1>1, NoStutter
    <2>2. UpdateMeta(c) \/ UpdateText(c)
      BY <1>1, <2>1, EndsOk
         DEF At, AttachPatch, RecordPut, OverridePatch, PhotoRead, PhotoPatch, DeleteChild
    <2>3. ASSUME UpdateMeta(c) PROVE FALSE
      <3>1. answered \in [Callers -> CallAnswers] /\ act \in [Callers -> Act]
        BY <1>1 DEF DiaryInv, DiaryTyped
      <3>2. CASE Refuse(c, "conflict") BY <3>1, <3>2, <1>1 DEF Refuse, Answer, Ends
      <3>3. CASE PatchMeta(c, meta, [act[c] EXCEPT !.pc = "analysis"])
        <4>1. act'[c] = [act[c] EXCEPT !.pc = "analysis"] BY <3>3 DEF PatchMeta, Wrote
        <4>2. act'[c].pc = "analysis" BY <3>1, <4>1 DEF Act
        <4> QED BY <4>2, <1>1 DEF Ends
      <3> QED BY <2>3, <3>2, <3>3, <1>1 DEF UpdateMeta
    <2>4. InText(c) BY <2>2, <2>3 DEF UpdateText, At, InText
    <2> QED BY <2>4, <1>1 DEF DiaryInv, CallOk, TextOk
  <1>2. DiaryInv /\ [DiaryNext]_diaryVars =>
            [\A c \in Callers : act[c].op = "update" /\ act[c].text /\ Ends(c, "ok")
                => act[c].rev \notin review.used]_diaryVars
    BY <1>1
  <1> QED BY <1>2, DiaryHolds, PTL DEF DiarySpec, OneTextPerVersion

(* Who writes the partition.                                               *)
LEMMA Writers ==
    ASSUME DiaryNext
    PROVE  \/ UNCHANGED partition
           \/ CreateTasting \/ Established \/ SpeakersWrite \/ ReviewWrite \/ ReadyWrite
           \/ \E c \in Callers : \/ AttachPatch(c) \/ UpdateMeta(c) \/ UpdateText(c) \/ RecordPut(c)
                                 \/ OverridePatch(c) \/ PhotoPatch(c) \/ DeleteChild(c)
  <1>1. ASSUME NEW c \in Callers,
               \/ CallAttach(c) \/ CallUpdate(c) \/ CallRecord(c) \/ CallOverride(c)
               \/ CallPhoto(c) \/ CallDelete(c)
        PROVE  UNCHANGED partition
    BY <1>1 DEF CallAttach, CallUpdate, CallRecord, CallOverride, CallPhoto, CallDelete, Calls
  <1>2. ASSUME NEW c \in Callers,
               \/ AttachRead(c) \/ AttachBundle(c) \/ UpdateRead(c) \/ PhotoRead(c) \/ DeleteRead(c)
               \/ RecordRead(c) \/ RecordCount(c) \/ OverrideRead(c) \/ Dropped(c)
        PROVE  UNCHANGED partition
    BY <1>2 DEF AttachRead, AttachBundle, UpdateRead, PhotoRead, DeleteRead, RecordRead, RecordCount,
                OverrideRead, Dropped, Reads, Refuse
  <1>3. ASSUME SpeakersRead \/ ReviewRead \/ ReadyRead \/ AgentConflict
        PROVE  UNCHANGED partition
    BY <1>3 DEF SpeakersRead, ReviewRead, ReadyRead, AgentConflict, AgentGoes
  <1> QED BY <1>1, <1>2, <1>3 DEF DiaryNext

(* A correction is of the mapping that the page showed, and what session B  *)
(* puts over a correction is the mapping of a recording that it read as     *)
(* corrected (CorrectionsKept): both writes carry the rev they saw.         *)
THEOREM CorrectionsAreKept == DiarySpec => CorrectionsKept
  <1>1. ASSUME DiaryInv, [DiaryNext]_diaryVars, NEW c \in Callers,
               act[c].op = "override", Ends(c, "ok"), NEW r \in act[c].of
        PROVE  take[r].mapping = act[c].seen
    <2>1. DiaryNext BY <1>1, NoStutter
    <2>2. OverridePatch(c)
      BY <1>1, <2>1, EndsOk
         DEF At, AttachPatch, UpdateMeta, UpdateText, RecordPut, PhotoRead, PhotoPatch, DeleteChild
    <2>3. answered \in [Callers -> CallAnswers] BY <1>1 DEF DiaryInv, DiaryTyped
    <2>4. ~Refuse(c, "conflict") BY <2>3, <1>1 DEF Refuse, Answer, Ends
    <2>5. PICK s \in Takes : /\ act[c].of = {s}
                             /\ take[s].exists /\ act[c].rev = take[s].rev => act[c].seen = take[s].mapping
      BY <1>1 DEF DiaryInv, CallOk, OverrideOk
    <2> QED BY <2>2, <2>4, <2>5, <1>1 DEF OverridePatch
  <1>2. ASSUME DiaryInv, [DiaryNext]_diaryVars, NEW r \in Takes,
               take[r].mapping = "manual", take'[r].mapping = "auto"
        PROVE  agent.saw = "manual"
    <2>1. ~UNCHANGED diaryVars /\ ~UNCHANGED partition BY <1>2 DEF diaryVars, partition
    <2>2. take \in [Takes -> TakeItem] BY <1>2 DEF DiaryInv, DiaryTyped
    <2>3. NoTake.mapping = "none" BY DEF NoTake
    <2>4. ~Established
      <3>1. SUFFICES ASSUME Established PROVE FALSE OBVIOUS
      <3>2. budget.calls = MaxDiaryCalls BY <3>1 DEF Established
      <3>3. take[r] = NoTake BY <3>2, <1>2 DEF DiaryInv, CreatedOnce
      <3> QED BY <3>3, <2>3, <1>2
    <2>5. ASSUME NEW c \in Callers, RecordPut(c) PROVE FALSE
      BY <2>5, <1>2, <2>3 DEF RecordPut, NoTake
    <2>6. ASSUME NEW c \in Callers, OverridePatch(c) PROVE FALSE
      <3>1. PICK s \in act[c].of : \/ Refuse(c, "conflict")
                                   \/ take' = [take EXCEPT ![s].mapping = "manual", ![s].rev = @ + 1]
        BY <2>6 DEF OverridePatch
      <3>2. ~Refuse(c, "conflict") BY <2>1 DEF Refuse
      <3>3. s \in Takes BY <2>6, <1>2 DEF OverridePatch, At, DiaryInv, CallOk, OverrideOk
      <3>4. take[s] \in TakeItem BY <3>3, <2>2
      <3>5. take'[r] = take[r] \/ take'[r].mapping = "manual" BY <3>1, <3>2, <3>3, <3>4, <2>2 DEF TakeItem
      <3> QED BY <3>5, <1>2
    <2>7. ASSUME NEW c \in Callers, DeleteChild(c) PROVE FALSE
      BY <2>7, <1>2, <2>3 DEF DeleteChild, DeleteMeta
    <2>8. ASSUME NEW c \in Callers, AttachPatch(c) \/ UpdateMeta(c) \/ UpdateText(c) \/ PhotoPatch(c)
          PROVE  FALSE
      <3>1. take' = take
        BY <2>8 DEF AttachPatch, UpdateMeta, UpdateText, PhotoPatch, PatchMeta, Refuse, Reads, partition
      <3> QED BY <3>1, <1>2
    <2>9. SpeakersWrite
      BY <1>2, <2>1, <2>4, <2>5, <2>6, <2>7, <2>8, Writers DEF CreateTasting, ReviewWrite, ReadyWrite
    <2>10. PICK s \in agent.of :
              /\ agent.pc = "speakers" /\ take[s].exists /\ take[s].rev = agent.rev
              /\ take' = [take EXCEPT ![s].mapping = "auto", ![s].rev = @ + 1]
      BY <2>9 DEF SpeakersWrite
    <2>11. /\ s \in Takes
           /\ take[s].mapping # "none" => agent.saw = take[s].mapping
      BY <2>10, <1>2 DEF DiaryInv, AgentOk
    <2>12. s = r BY <2>2, <2>10, <2>11, <1>2
    <2> QED BY <2>11, <2>12, <1>2
  <1>3. DiaryInv /\ [DiaryNext]_diaryVars =>
            [/\ \A c \in Callers : act[c].op = "override" /\ Ends(c, "ok")
                   => \A r \in act[c].of : take[r].mapping = act[c].seen
             /\ \A r \in Takes : take[r].mapping = "manual" /\ take'[r].mapping = "auto"
                   => agent.saw = "manual"]_diaryVars
    BY <1>1, <1>2
  <1> QED BY <1>3, DiaryHolds, PTL DEF DiarySpec, CorrectionsKept

(* A photo is there when its registration is answered and gone when its     *)
(* removal is, but for the last one, which stays although its removal was   *)
(* answered; until then it goes with META alone (PhotosAsAnswered): the     *)
(* list that is written was META's a rev ago.                               *)
THEOREM PhotosAreAsAnswered == DiarySpec => PhotosAsAnswered
  <1>1. ASSUME DiaryInv, NEW c \in Callers, PhotoPatch(c), ~Refuse(c, "conflict")
        PROVE  /\ Ends(c, "ok")
               /\ \E p \in Photos :
                     /\ act[c].of = {p}
                     /\ act[c].op = "add" => meta'.photos = meta.photos \cup {p}
                     /\ act[c].op = "remove" =>
                           meta'.photos = IF meta.photos \ {p} = {} THEN meta.photos ELSE meta.photos \ {p}
    <2>1. /\ act[c].op \in {"add", "remove"} /\ act[c].pc = "patch" /\ Current(c) /\ Answer(c, "ok")
          /\ PatchMeta(c, [meta EXCEPT !.photos = IF NewPhotos(c) = {} THEN @ ELSE NewPhotos(c)], NoAct)
      BY <1>1 DEF PhotoPatch
    <2>2. meta \in Meta /\ answered \in [Callers -> CallAnswers] BY <1>1 DEF DiaryInv, DiaryTyped
    <2>3. act'[c] = NoAct /\ NoAct.pc = "idle" BY <2>1 DEF PatchMeta, Wrote, NoAct
    <2>4. answered'[c] = "ok" BY <2>1, <2>2 DEF Answer
    <2>5. Ends(c, "ok") BY <2>1, <2>3, <2>4 DEF Ends
    <2>6. PICK p \in Photos : act[c].of = {p} BY <2>1, <1>1 DEF DiaryInv, CallOk, PhotoOk
    <2>7. act[c].had = meta.photos BY <2>1, <1>1 DEF DiaryInv, CallOk, PhotoOk, Current
    <2>8. meta'.photos = IF NewPhotos(c) = {} THEN meta.photos ELSE NewPhotos(c)
      BY <2>1, <2>2 DEF PatchMeta, Meta
    <2>9. NewPhotos(c) = IF act[c].op = "add" THEN meta.photos \cup {p} ELSE meta.photos \ {p}
      BY <2>6, <2>7 DEF NewPhotos
    <2>10. act[c].op = "add" => meta'.photos = meta.photos \cup {p} BY <2>8, <2>9
    <2>11. act[c].op = "remove" =>
              meta'.photos = IF meta.photos \ {p} = {} THEN meta.photos ELSE meta.photos \ {p}
      BY <2>8, <2>9
    <2> QED BY <2>5, <2>6, <2>10, <2>11
  <1>2. ASSUME DiaryInv, [DiaryNext]_diaryVars, NEW c \in Callers, NEW p \in Photos,
               act[c].of = {p}, Ends(c, "ok")
        PROVE  /\ act[c].op = "add" => p \in meta'.photos
               /\ act[c].op = "remove" => p \notin meta'.photos \/ meta'.photos = {p}
    <2>1. SUFFICES ASSUME act[c].op \in {"add", "remove"}
                   PROVE  /\ act[c].op = "add" => p \in meta'.photos
                          /\ act[c].op = "remove" => p \notin meta'.photos \/ meta'.photos = {p}
      OBVIOUS
    <2>2. DiaryNext BY <1>2, NoStutter
    <2>3. answered \in [Callers -> CallAnswers] /\ act \in [Callers -> Act]
      BY <1>2 DEF DiaryInv, DiaryTyped
    <2>4. PhotoRead(c) \/ PhotoPatch(c)
      BY <1>2, <2>1, <2>2, EndsOk
         DEF At, AttachPatch, UpdateMeta, UpdateText, RecordPut, OverridePatch, DeleteChild
    <2>5. CASE PhotoRead(c)
      <3>1. ~Refuse(c, "not_found") /\ ~Refuse(c, "limit") BY <2>3, <1>2 DEF Refuse, Answer, Ends
      <3>2. ~Goes(c, [act[c] EXCEPT !.pc = "patch", !.had = meta.photos])
        <4>1. [act[c] EXCEPT !.pc = "patch", !.had = meta.photos].pc = "patch" BY <2>3 DEF Act
        <4> QED BY <4>1, <2>3, <1>2 DEF Goes, Ends
      <3>3. act[c].op = "add" /\ act[c].of \subseteq meta.photos /\ Refuse(c, "ok")
        BY <2>5, <3>1, <3>2 DEF PhotoRead
      <3> QED BY <3>3, <1>2 DEF Refuse, partition
    <2>6. CASE PhotoPatch(c)
      <3>1. ~Refuse(c, "conflict") BY <2>3, <1>2 DEF Refuse, Answer, Ends
      <3> QED BY <1>1, <1>2, <2>6, <3>1
    <2> QED BY <2>4, <2>5, <2>6
  <1>3. ASSUME DiaryInv, [DiaryNext]_diaryVars, NEW p \in meta.photos,
               meta'.life # "none", p \notin meta'.photos
        PROVE  \E c \in Callers : act[c].op = "remove" /\ act[c].of = {p} /\ Ends(c, "ok")
    <2>1. meta \in Meta /\ ~UNCHANGED partition /\ ~UNCHANGED diaryVars
      BY <1>3 DEF DiaryInv, DiaryTyped, partition, diaryVars
    <2>2. Exists
      <3>1. NoMeta.photos = {} BY DEF NoMeta
      <3> QED BY <3>1, <1>3 DEF DiaryInv, CreatedOnce
    <2>3. ~CreateTasting /\ ~Established BY <2>2 DEF CreateTasting, Established
    <2>4. ~ReadyWrite /\ ~SpeakersWrite /\ ~ReviewWrite
      <3>1. [meta EXCEPT !.life = "ready", !.rev = @ + 1].photos = meta.photos BY <2>1 DEF Meta
      <3> QED BY <3>1, <1>3 DEF ReadyWrite, SpeakersWrite, ReviewWrite
    <2>5. ASSUME NEW c \in Callers,
                 AttachPatch(c) \/ UpdateMeta(c) \/ UpdateText(c) \/ RecordPut(c) \/ OverridePatch(c)
          PROVE  FALSE
      <3>1. ~Refuse(c, "conflict") BY <2>1 DEF Refuse
      <3>2. ASSUME NEW l PROVE [[meta EXCEPT !.life = l] EXCEPT !.rev = @ + 1].photos = meta.photos
        BY <2>1 DEF Meta
      <3>3. [meta EXCEPT !.rev = @ + 1].photos = meta.photos BY <2>1 DEF Meta
      <3>4. CASE AttachPatch(c) BY <3>4, <1>3, <3>1, <3>2 DEF AttachPatch, PatchMeta
      <3>5. CASE UpdateMeta(c) BY <3>5, <1>3, <3>1, <3>3 DEF UpdateMeta, PatchMeta
      <3>6. CASE UpdateText(c) BY <3>6, <1>3, <3>1 DEF UpdateText
      <3>7. CASE RecordPut(c) BY <3>7, <1>3 DEF RecordPut
      <3>8. CASE OverridePatch(c) BY <3>8, <1>3, <3>1 DEF OverridePatch
      <3> QED BY <2>5, <3>4, <3>5, <3>6, <3>7, <3>8
    <2>6. ASSUME NEW c \in Callers, DeleteChild(c) PROVE FALSE
      <3>1. meta' = meta \/ meta' = NoMeta BY <2>6 DEF DeleteChild, DeleteMeta
      <3>2. NoMeta.life = "none" BY DEF NoMeta
      <3> QED BY <3>1, <3>2, <1>3
    <2>7. PICK c \in Callers : PhotoPatch(c) BY <1>3, <2>1, <2>3, <2>4, <2>5, <2>6, Writers
    <2>8. ~Refuse(c, "conflict") BY <2>1 DEF Refuse
    <2>9. act[c].op \in {"add", "remove"} BY <2>7 DEF PhotoPatch
    <2> QED BY <1>1, <1>3, <2>7, <2>8, <2>9
  <1>4. DiaryInv /\ [DiaryNext]_diaryVars =>
            [/\ \A c \in Callers, p \in Photos :
                   act[c].of = {p} /\ Ends(c, "ok") =>
                      /\ act[c].op = "add" => p \in meta'.photos
                      /\ act[c].op = "remove" => p \notin meta'.photos \/ meta'.photos = {p}
             /\ \A p \in meta.photos : meta'.life # "none" /\ p \notin meta'.photos =>
                   \E c \in Callers : act[c].op = "remove" /\ act[c].of = {p} /\ Ends(c, "ok")]_diaryVars
    BY <1>2, <1>3
  <1> QED BY <1>4, DiaryHolds, PTL DEF DiarySpec, PhotosAsAnswered

(* Calls that no other write disturbed (CalmCalls): attachWineToTasting     *)
(* patches by the recordings that are there, and deleteTasting removes META *)
(* only when the recordings, the analysis and the job are gone.             *)
THEOREM CalmCallsKeepWord == DiarySpec => CalmCalls
  <1>1. ASSUME DiaryInv, [DiaryNext]_diaryVars, NEW c \in Callers,
               act[c].op = "attach", act[c].calm, Ends(c, "ok")
        PROVE  meta'.life = "polishing" <=> Taken' # {}
    <2>1. DiaryNext BY <1>1, NoStutter
    <2>2. AttachPatch(c)
      BY <1>1, <2>1, EndsOk
         DEF At, UpdateMeta, UpdateText, RecordPut, OverridePatch, PhotoRead, PhotoPatch, DeleteChild
    <2>3. meta \in Meta /\ answered \in [Callers -> CallAnswers] BY <1>1 DEF DiaryInv, DiaryTyped
    <2>4. ~Refuse(c, "conflict") BY <2>3, <1>1 DEF Refuse, Answer, Ends
    <2> DEFINE life == IF act[c].had # {} THEN "polishing" ELSE "awaiting_audio"
    <2>5. PatchMeta(c, [meta EXCEPT !.life = life], NoAct) BY <2>2, <2>4 DEF AttachPatch
    <2>6. [[meta EXCEPT !.life = life] EXCEPT !.rev = @ + 1].life = life BY <2>3 DEF Meta
    <2>7. meta'.life = life /\ Taken' = Taken BY <2>5, <2>6 DEF PatchMeta, Taken
    <2>8. act[c].had = Taken BY <2>2, <1>1 DEF AttachPatch, DiaryInv, CallOk, AttachOk
    <2> QED BY <2>7, <2>8
  <1>2. ASSUME DiaryInv, [DiaryNext]_diaryVars, Exists, ~Exists',
               \A c \in Callers : At(c, "delete", "child") => act[c].calm
        PROVE  Taken' = {} /\ ~review'.exists /\ ~queued'
    <2>1. meta' # meta BY <1>2 DEF Exists
    <2>2. meta \in Meta /\ DiaryNext /\ ~UNCHANGED partition
      BY <1>2, <2>1 DEF DiaryInv, DiaryTyped, diaryVars, partition
    <2>3. ~CreateTasting /\ ~Established BY <1>2 DEF CreateTasting, Established
    <2>4. ASSUME NEW m \in Meta, m.life # "none", meta' = [m EXCEPT !.rev = @ + 1] PROVE FALSE
      BY <2>4, <1>2 DEF Meta, Exists
    <2>5. ~ReadyWrite /\ ~SpeakersWrite /\ ~ReviewWrite
      <3>1. [meta EXCEPT !.life = "ready", !.rev = @ + 1].life = "ready" BY <2>2 DEF Meta
      <3> QED BY <3>1, <1>2, <2>1 DEF ReadyWrite, SpeakersWrite, ReviewWrite, Exists
    <2>6. ASSUME NEW c \in Callers,
                 \/ AttachPatch(c) \/ UpdateMeta(c) \/ UpdateText(c) \/ RecordPut(c)
                 \/ OverridePatch(c) \/ PhotoPatch(c)
          PROVE  FALSE
      <3>1. ~Refuse(c, "conflict") BY <2>2 DEF Refuse
      <3>2. meta.life # "none" BY <1>2 DEF Exists
      <3>3. CASE AttachPatch(c)
        <4> DEFINE m == [meta EXCEPT !.life = IF act[c].had # {} THEN "polishing" ELSE "awaiting_audio"]
        <4>1. meta' = [m EXCEPT !.rev = @ + 1] BY <3>3, <3>1 DEF AttachPatch, PatchMeta
        <4>2. m.life # "none" BY <2>2 DEF Meta
        <4>3. m \in Meta BY <2>2 DEF Meta, Life
        <4> HIDE DEF m
        <4> QED BY <4>1, <4>2, <4>3, <2>4
      <3>4. CASE UpdateMeta(c)
        <4>1. meta' = [meta EXCEPT !.rev = @ + 1] BY <3>4, <3>1 DEF UpdateMeta, PatchMeta
        <4> QED BY <4>1, <3>2, <2>2, <2>4
      <3>5. CASE PhotoPatch(c)
        <4> DEFINE ps == IF NewPhotos(c) = {} THEN meta.photos ELSE NewPhotos(c)
        <4>1. meta' = [[meta EXCEPT !.photos = ps] EXCEPT !.rev = @ + 1]
          BY <3>5, <3>1 DEF PhotoPatch, PatchMeta
        <4> HIDE DEF ps
        <4>2. meta'.life = meta.life BY <4>1, <2>2 DEF Meta
        <4> QED BY <4>2, <1>2 DEF Exists
      <3>6. CASE UpdateText(c) BY <3>6, <2>1, <3>1 DEF UpdateText
      <3>7. CASE RecordPut(c) BY <3>7, <2>1 DEF RecordPut
      <3>8. CASE OverridePatch(c) BY <3>8, <2>1, <3>1 DEF OverridePatch
      <3> QED BY <2>6, <3>3, <3>4, <3>5, <3>6, <3>7, <3>8
    <2>7. PICK c \in Callers : DeleteChild(c) BY <2>2, <2>3, <2>5, <2>6, Writers
    <2>8. At(c, "delete", "child") /\ act[c].todo = {} /\ DeleteMeta(c)
      BY <2>7, <2>1 DEF DeleteChild
    <2>9. Taken = {} /\ ~review.exists /\ ~queued
      BY <2>8, <1>2 DEF DiaryInv, CallOk, DeleteOk
    <2>10. Taken' = Taken /\ review' = review /\ queued' = queued BY <2>8 DEF DeleteMeta, Taken
    <2> QED BY <2>9, <2>10
  <1>3. DiaryInv /\ [DiaryNext]_diaryVars =>
            [/\ \A c \in Callers : act[c].op = "attach" /\ act[c].calm /\ Ends(c, "ok")
                   => (meta'.life = "polishing" <=> Taken' # {})
             /\ Exists /\ ~Exists' /\ (\A c \in Callers : At(c, "delete", "child") => act[c].calm)
                   => Taken' = {} /\ ~review'.exists /\ ~queued']_diaryVars
    BY <1>1, <1>2
  <1> QED BY <1>3, DiaryHolds, PTL DEF DiarySpec, CalmCalls

-----------------------------------------------------------------------------
(* The refinement of RevStore: META is the row, the calls and session B    *)
(* are its clients.                                                        *)

(* The rev that a patch will ask for is META's or one it had before.       *)
RevsBehind == \A x \in Patchers : Wish(x).will /\ Exists => Wish(x).rev <= meta.rev

Refined == RevsBehind' /\ (MetaStore!StoreNext \/ UNCHANGED MetaStore!storeVars)

(* META is as it was, and neither created nor gone.                        *)
SameMeta == meta' = meta /\ (Exists \/ budget'.calls = budget.calls)

OthersWish(x) == \A y \in Patchers : y # x => Wish(y)' = Wish(y)

LEMMA WishTypes ==
    ASSUME DiaryTyped
    PROVE  /\ meta.rev \in Nat
           /\ \A x \in Patchers : Wish(x) \in [will : BOOLEAN, rev : Nat]
  <1>1. meta.rev \in Nat /\ agent.rev \in Nat /\ \A c \in Callers : act[c].rev \in Nat
    BY DEF DiaryTyped, Meta, Run, Act
  <1>2. \A c \in Callers : Patches(act[c]) \in BOOLEAN
    BY DEF Patches
  <1> QED BY <1>1, <1>2 DEF Wish, Patchers

(* The row and the intents, as the store sees them.                        *)
LEMMA StoreFacts ==
    ASSUME DiaryTyped
    PROVE  /\ MetaRow["META"] \in MetaStore!Row /\ DOMAIN MetaRow = {"META"}
           /\ MetaRow["META"].state = IF Exists THEN "stored"
                                      ELSE IF budget.calls = MaxDiaryCalls THEN "fresh" ELSE "deleted"
           /\ \A x \in Patchers : ~Wish(x).will => IntentOf(x) = MetaStore!NoIntent
           /\ \A x \in Patchers : IntentOf(x) \in MetaStore!Intent
  <1>1. [life |-> meta.life, photos |-> meta.photos] \in MetaData
    BY DEF DiaryTyped, Meta, MetaData
  <1>2. MetaRow["META"] = [state |-> IF Exists THEN "stored"
                                     ELSE IF budget.calls = MaxDiaryCalls THEN "fresh" ELSE "deleted",
                           data  |-> [life |-> meta.life, photos |-> meta.photos]]
    BY DEF MetaRow, MetaKeys
  <1>3. \A x \in Patchers : ~Wish(x).will => IntentOf(x) = MetaStore!NoIntent
    BY DEF IntentOf, MetaStore!NoIntent
  <1>4. ASSUME NEW x \in Patchers PROVE IntentOf(x) \in MetaStore!Intent
    <2>1. Wish(x).will \in BOOLEAN BY WishTypes
    <2> QED BY <2>1 DEF IntentOf, MetaStore!Intent, MetaKeys
  <1> QED BY <1>1, <1>2, <1>3, <1>4 DEF MetaStore!Row, MetaRow, MetaKeys

LEMMA SameRow ==
    ASSUME DiaryInv, SameMeta
    PROVE  MetaRow' = MetaRow /\ Exists' = Exists
  BY DEF SameMeta, MetaRow, Exists

(* A step that leaves META alone: x reads it, gives up, or goes on.        *)
LEMMA QuietRefines ==
    ASSUME DiaryInv, DiaryInv', RevsBehind, SameMeta, NEW x \in Patchers, OthersWish(x),
           Wish(x)'.will => \/ Wish(x).will /\ Wish(x)'.rev = Wish(x).rev
                            \/ ~Wish(x).will /\ Exists /\ Wish(x)'.rev = meta.rev
    PROVE  Refined
  <1>1. MetaRow' = MetaRow /\ Exists' = Exists /\ meta' = meta
    BY SameRow DEF SameMeta
  <1>2. DiaryTyped /\ DiaryTyped' BY DEF DiaryInv
  <1>3. meta.rev \in Nat
    BY <1>2, WishTypes
  <1>4. RevsBehind'
    <2>1. \A y \in Patchers : y # x => (Wish(y)'.will /\ Exists' => Wish(y)'.rev <= meta'.rev)
      BY <1>1 DEF RevsBehind, OthersWish
    <2>2. Wish(x)'.will /\ Exists' => Wish(x)'.rev <= meta'.rev
      BY <1>1, <1>3 DEF RevsBehind
    <2> QED BY <2>1, <2>2 DEF RevsBehind, Patchers
  <1>5. \A y \in Patchers : y # x => IntentOf(y)' = IntentOf(y)
    BY <1>1 DEF OthersWish, IntentOf
  <1>6. CASE ~Wish(x)'.will
    <2>1. IntentOf(x)' = MetaStore!NoIntent
      BY <1>6 DEF IntentOf, MetaStore!NoIntent
    <2>2. [y \in Patchers |-> IntentOf(y)]' = [[y \in Patchers |-> IntentOf(y)] EXCEPT ![x] = MetaStore!NoIntent]
      BY <1>5, <2>1 DEF Patchers
    <2>3. MetaStore!GiveUp(x)
      BY <1>1, <2>2 DEF MetaStore!GiveUp
    <2> QED BY <1>4, <2>3 DEF Refined, MetaStore!StoreNext
  <1>7. CASE Wish(x)'.will /\ Wish(x).will /\ Wish(x)'.rev = Wish(x).rev
    <2>1. IntentOf(x)' = IntentOf(x)
      BY <1>1, <1>7 DEF IntentOf
    <2>2. [y \in Patchers |-> IntentOf(y)]' = [y \in Patchers |-> IntentOf(y)]
      BY <1>5, <2>1 DEF Patchers
    <2> QED BY <1>1, <1>4, <2>2 DEF Refined, MetaStore!storeVars
  <1>8. CASE Wish(x)'.will /\ ~Wish(x).will /\ Exists /\ Wish(x)'.rev = meta.rev
    <2>1. IntentOf(x)' = [key |-> "META", current |-> TRUE]
      BY <1>1, <1>8 DEF IntentOf
    <2>2. [y \in Patchers |-> IntentOf(y)]'
             = [[y \in Patchers |-> IntentOf(y)] EXCEPT ![x] = [key |-> "META", current |-> TRUE]]
      BY <1>5, <2>1 DEF Patchers
    <2>3. IntentOf(x) = MetaStore!NoIntent /\ MetaRow["META"].state = "stored"
      BY <1>2, <1>8, StoreFacts
    <2>4. MetaStore!ReadRow(x, "META")
      BY <1>1, <2>2, <2>3 DEF MetaStore!ReadRow
    <2> QED BY <1>4, <2>4 DEF Refined, MetaStore!StoreNext, MetaKeys
  <1> QED BY <1>6, <1>7, <1>8

(* META is written by x, and no other intent on it is current any more.    *)
LEMMA WriteMap ==
    ASSUME DiaryInv, DiaryInv', NEW x \in Patchers, OthersWish(x), ~Wish(x)'.will,
           \A y \in Patchers : y # x /\ Wish(y).will => ~(Exists' /\ meta'.rev = Wish(y).rev)
    PROVE  MetaStore!Becomes("META", MetaRow'["META"].state) /\ MetaStore!Outdates(x, "META")
  <1>1. DiaryTyped /\ DiaryTyped' BY DEF DiaryInv
  <1>2. /\ MetaRow'["META"] \in MetaStore!Row
        /\ DOMAIN MetaRow' = {"META"} /\ DOMAIN MetaRow = {"META"}
    <2>1. [life |-> meta'.life, photos |-> meta'.photos] \in MetaData
      BY <1>1 DEF DiaryTyped, Meta, MetaData
    <2> QED BY <2>1 DEF MetaRow, MetaKeys, MetaStore!Row
  <1>3. MetaRow' = [MetaRow EXCEPT !["META"] = MetaRow'["META"]]
    BY <1>2 DEF MetaRow
  <1>4. MetaStore!Becomes("META", MetaRow'["META"].state)
    BY <1>2, <1>3 DEF MetaStore!Becomes
  <1>5. IntentOf(x)' = MetaStore!NoIntent
    BY DEF IntentOf, MetaStore!NoIntent
  <1>6. ASSUME NEW y \in Patchers, y # x
        PROVE  IntentOf(y)' = IF IntentOf(y).key = "META" THEN [key |-> "META", current |-> FALSE]
                                                          ELSE IntentOf(y)
    <2>1. Wish(y)' = Wish(y) /\ Wish(y).will \in BOOLEAN
      BY <1>1, <1>6, WishTypes DEF OthersWish
    <2>2. CASE Wish(y).will
      BY <1>6, <2>1, <2>2 DEF IntentOf
    <2>3. CASE ~Wish(y).will
      BY <2>1, <2>3 DEF IntentOf
    <2> QED BY <2>2, <2>3
  <1>7. MetaStore!Outdates(x, "META")
    BY <1>5, <1>6 DEF MetaStore!Outdates
  <1> QED BY <1>4, <1>7

(* A patch with META's own rev commits.                                    *)
LEMMA PatchRefines ==
    ASSUME DiaryInv, DiaryInv', RevsBehind, NEW x \in Patchers, OthersWish(x),
           Wish(x).will, Exists, Wish(x).rev = meta.rev,
           ~Wish(x)'.will, Exists', meta'.rev = meta.rev + 1
    PROVE  Refined
  <1>1. DiaryTyped /\ DiaryTyped' /\ meta.rev \in Nat
    BY WishTypes DEF DiaryInv
  <1>2. \A y \in Patchers : y # x /\ Wish(y).will => Wish(y).rev \in Nat /\ Wish(y).rev <= meta.rev
    BY <1>1, WishTypes DEF RevsBehind
  <1>3. RevsBehind'
    <2>1. \A y \in Patchers : y # x => (Wish(y)'.will /\ Exists' => Wish(y)'.rev <= meta'.rev)
      BY <1>1, <1>2 DEF OthersWish
    <2> QED BY <2>1 DEF RevsBehind, Patchers
  <1>4. \A y \in Patchers : y # x /\ Wish(y).will => ~(Exists' /\ meta'.rev = Wish(y).rev)
    BY <1>1, <1>2
  <1>5. MetaRow["META"].state = "stored" /\ MetaRow'["META"].state = "stored"
    BY <1>1, StoreFacts DEF MetaRow, MetaKeys
  <1>6. MetaStore!Becomes("META", "stored") /\ MetaStore!Outdates(x, "META")
    BY <1>4, <1>5, WriteMap
  <1>7. IntentOf(x) = [key |-> "META", current |-> TRUE]
    BY DEF IntentOf
  <1>8. MetaStore!Commit(x, "META")
    BY <1>5, <1>6, <1>7 DEF MetaStore!Commit
  <1> QED BY <1>3, <1>8 DEF Refined, MetaStore!StoreNext, MetaKeys

(* The last step of a deletion drops the row for good.                     *)
LEMMA DropRefines ==
    ASSUME DiaryInv, DiaryInv', NEW x \in Patchers, OthersWish(x),
           ~Wish(x).will, ~Wish(x)'.will, ~Exists', budget.calls # MaxDiaryCalls, budget' = budget
    PROVE  Refined
  <1>1. DiaryTyped /\ DiaryTyped' BY DEF DiaryInv
  <1>2. RevsBehind' BY DEF RevsBehind
  <1>3. MetaRow["META"].state # "fresh" /\ MetaRow'["META"].state = "deleted"
    BY <1>1, StoreFacts DEF MetaRow, MetaKeys
  <1>4. MetaStore!Becomes("META", "deleted") /\ MetaStore!Outdates(x, "META")
    BY <1>3, WriteMap
  <1>5. MetaStore!Drop(x, "META")
    BY <1>1, <1>3, <1>4, StoreFacts DEF MetaStore!Drop
  <1> QED BY <1>2, <1>5 DEF Refined, MetaStore!StoreNext, MetaKeys

(* The tasting is created: nobody has anything to do with it yet.          *)
LEMMA InsertRefines ==
    ASSUME DiaryInv, DiaryInv', ~Exists, budget.calls = MaxDiaryCalls, Exists',
           act' = act, agent' = agent
    PROVE  Refined
  <1>1. DiaryTyped /\ DiaryTyped' BY DEF DiaryInv
  <1>2. \A x \in Patchers : Wish(x)' = Wish(x) /\ ~Wish(x).will
    <2>1. agent.pc = "off" /\ \A c \in Callers : act[c] = NoAct
      BY DEF DiaryInv, CreatedOnce
    <2>2. ~Patches(NoAct) BY DEF Patches, NoAct
    <2>3. \A x \in Patchers : ~Wish(x).will
      BY <2>1, <2>2 DEF Wish, Patchers
    <2>4. \A x \in Patchers : Wish(x)' = Wish(x)
      BY DEF Wish
    <2> QED BY <2>3, <2>4
  <1>3. RevsBehind' BY <1>2 DEF RevsBehind, Patchers
  <1>4. SessionB \in Patchers BY DEF Patchers
  <1>5. MetaRow["META"].state = "fresh" /\ MetaRow'["META"].state = "stored"
    BY <1>1, StoreFacts DEF MetaRow, MetaKeys
  <1>6. MetaStore!Becomes("META", "stored")
    BY <1>2, <1>4, <1>5, WriteMap DEF OthersWish
  <1>7. \A x \in Patchers : IntentOf(x)' = IntentOf(x) /\ IntentOf(x) = MetaStore!NoIntent
    BY <1>2 DEF IntentOf, MetaStore!NoIntent
  <1>8. MetaStore!Insert(SessionB, "META")
    BY <1>4, <1>5, <1>6, <1>7 DEF MetaStore!Insert
  <1> QED BY <1>3, <1>4, <1>8 DEF Refined, MetaStore!StoreNext, MetaKeys

(* A call goes on as a, whether it has written or not; what the others     *)
(* wish does not depend on who is calm.                                    *)
LEMMA CallWishes ==
    ASSUME DiaryTyped, NEW c \in Callers, NEW a, Goes(c, a) \/ Wrote(c, a), agent' = agent
    PROVE  /\ c \in Patchers /\ Wish(c) = [will |-> Patches(act[c]), rev |-> act[c].rev]
           /\ Wish(c)' = [will |-> Patches(a), rev |-> a.rev] /\ OthersWish(c)
  <1>1. c # SessionB /\ c \in Patchers
    BY SessionBAssumption DEF SessionBAssumption, Patchers
  <1>2. act \in [Callers -> Act] BY DEF DiaryTyped
  <1>3. act'[c] = a
    BY <1>2 DEF Goes, Wrote
  <1>4. ASSUME NEW d \in Callers, d # c
        PROVE  act'[d].op = act[d].op /\ act'[d].pc = act[d].pc /\ act'[d].rev = act[d].rev
    <2>1. act[d] \in Act BY <1>2
    <2>2. CASE Goes(c, a) BY <1>2, <1>4, <2>2 DEF Goes
    <2>3. CASE Wrote(c, a)
      <3>1. act'[d] = [act[d] EXCEPT !.calm = act[d].pc = "idle"]
        BY <1>4, <2>3 DEF Wrote
      <3> QED BY <2>1, <3>1 DEF Act
    <2> QED BY <2>2, <2>3
  <1>5. \A d \in Callers : d # c => Patches(act[d])' = Patches(act[d])
    BY <1>4 DEF Patches
  <1>6. OthersWish(c)
    BY <1>4, <1>5 DEF OthersWish, Wish, Patchers
  <1>7. Wish(c)' = [will |-> Patches(a), rev |-> a.rev]
    BY <1>1, <1>3 DEF Wish, Patches
  <1> QED BY <1>1, <1>6, <1>7 DEF Wish

LEMMA GoesRefines ==
    ASSUME DiaryInv, DiaryInv', RevsBehind, SameMeta, NEW c \in Callers, NEW a,
           Goes(c, a) \/ Wrote(c, a), agent' = agent,
           Patches(a) => \/ Patches(act[c]) /\ a.rev = act[c].rev
                         \/ ~Patches(act[c]) /\ Exists /\ a.rev = meta.rev
    PROVE  Refined
  <1>1. DiaryTyped BY DEF DiaryInv
  <1>2. /\ c \in Patchers /\ Wish(c) = [will |-> Patches(act[c]), rev |-> act[c].rev]
        /\ Wish(c)' = [will |-> Patches(a), rev |-> a.rev] /\ OthersWish(c)
    BY <1>1, CallWishes
  <1>3. Wish(c)'.will => \/ Wish(c).will /\ Wish(c)'.rev = Wish(c).rev
                         \/ ~Wish(c).will /\ Exists /\ Wish(c)'.rev = meta.rev
    BY <1>2
  <1> QED BY <1>2, <1>3, QuietRefines

LEMMA NoActWishes == ~Patches(NoAct) BY DEF NoAct, Patches

LEMMA RefuseRefines ==
    ASSUME DiaryInv, DiaryInv', RevsBehind, NEW c \in Callers, NEW what, Refuse(c, what)
    PROVE  Refined
  <1>1. SameMeta /\ Goes(c, NoAct) /\ agent' = agent
    BY DEF Refuse, partition, SameMeta
  <1> QED BY <1>1, NoActWishes, GoesRefines

(* A call that begins: an editor's carries the rev that its page shows.    *)
LEMMA CallsRefine ==
    ASSUME DiaryInv, DiaryInv', RevsBehind, NEW c \in Callers, NEW a, Calls(c, a),
           Patches(a) => a.rev = meta.rev
    PROVE  Refined
  <1>1. SameMeta /\ Exists /\ Goes(c, a) /\ agent' = agent /\ act[c].pc = "idle"
    BY DEF Calls, partition, SameMeta, Goes
  <1>2. act[c] = NoAct
    BY <1>1 DEF DiaryInv, CallOk, IdleOk
  <1> QED BY <1>1, <1>2, NoActWishes, GoesRefines

LEMMA CallRefines ==
    ASSUME DiaryInv, DiaryInv', RevsBehind, NEW c \in Callers,
           \/ CallAttach(c) \/ CallUpdate(c) \/ CallRecord(c) \/ CallOverride(c)
           \/ CallPhoto(c) \/ CallDelete(c)
    PROVE  Refined
  <1>1. CASE CallAttach(c) \/ CallDelete(c)
    <2>1. PICK op \in {"attach", "delete"} : Calls(c, [NoAct EXCEPT !.pc = "read", !.op = op])
      BY <1>1 DEF CallAttach, CallDelete
    <2>2. ~Patches([NoAct EXCEPT !.pc = "read", !.op = op])
      BY DEF NoAct, Patches
    <2> QED BY <2>1, <2>2, CallsRefine
  <1>2. CASE CallUpdate(c)
    <2>1. PICK text \in BOOLEAN :
             Calls(c, [NoAct EXCEPT !.pc = "patch", !.op = "update", !.rev = meta.rev, !.text = text])
      BY <1>2 DEF CallUpdate
    <2>2. [NoAct EXCEPT !.pc = "patch", !.op = "update", !.rev = meta.rev, !.text = text].rev = meta.rev
      BY DEF NoAct
    <2> QED BY <2>1, <2>2, CallsRefine
  <1>3. CASE CallRecord(c)
    <2>1. PICK r : Calls(c, [NoAct EXCEPT !.pc = "read", !.op = "record", !.of = {r}])
      BY <1>3 DEF CallRecord
    <2>2. ~Patches([NoAct EXCEPT !.pc = "read", !.op = "record", !.of = {r}])
      BY DEF NoAct, Patches
    <2> QED BY <2>1, <2>2, CallsRefine
  <1>4. CASE CallOverride(c)
    <2>1. PICK r \in Speaking :
             Calls(c, [NoAct EXCEPT !.pc = "read", !.op = "override", !.of = {r}, !.rev = take[r].rev,
                                    !.seen = take[r].mapping])
      BY <1>4 DEF CallOverride
    <2>2. ~Patches([NoAct EXCEPT !.pc = "read", !.op = "override", !.of = {r}, !.rev = take[r].rev,
                                 !.seen = take[r].mapping])
      BY DEF NoAct, Patches
    <2> QED BY <2>1, <2>2, CallsRefine
  <1>5. CASE CallPhoto(c)
    <2>1. PICK op \in {"add", "remove"}, p \in Photos :
             Calls(c, [NoAct EXCEPT !.pc = "read", !.op = op, !.of = {p}, !.rev = meta.rev])
      BY <1>5 DEF CallPhoto
    <2>2. [NoAct EXCEPT !.pc = "read", !.op = op, !.of = {p}, !.rev = meta.rev].rev = meta.rev
      BY DEF NoAct
    <2> QED BY <2>1, <2>2, CallsRefine
  <1> QED BY <1>1, <1>2, <1>3, <1>4, <1>5

(* A call that goes on to pc with nothing else changed.                    *)
LEMMA ReadsRefine ==
    ASSUME DiaryInv, DiaryInv', RevsBehind, NEW c \in Callers, NEW pc \in CallSteps, Reads(c, pc),
           Patches([act[c] EXCEPT !.pc = pc]) => Patches(act[c])
    PROVE  Refined
  <1> DEFINE a == [act[c] EXCEPT !.pc = pc]
  <1>1. SameMeta /\ Goes(c, a) /\ agent' = agent
    BY DEF Reads, partition, SameMeta
  <1>2. a.rev = act[c].rev
    BY DEF DiaryInv, DiaryTyped, Act
  <1> HIDE DEF a
  <1> QED BY <1>1, <1>2, GoesRefines DEF a

LEMMA ReadRefines ==
    ASSUME DiaryInv, DiaryInv', RevsBehind, NEW c \in Callers,
           \/ AttachRead(c) \/ AttachBundle(c) \/ UpdateRead(c) \/ PhotoRead(c) \/ DeleteRead(c)
    PROVE  Refined
  <1>1. act[c] \in Act BY DEF DiaryInv, DiaryTyped
  <1>2. SUFFICES ASSUME ~\E what : Refuse(c, what) PROVE Refined
    BY RefuseRefines
  <1>3. CASE AttachRead(c)
    <2> DEFINE a == [act[c] EXCEPT !.pc = "bundle", !.rev = meta.rev]
    <2>1. Goes(c, a) /\ SameMeta /\ Exists /\ agent' = agent /\ At(c, "attach", "read")
      BY <1>2, <1>3 DEF AttachRead, partition, SameMeta
    <2>2. a.rev = meta.rev /\ ~Patches(act[c])
      BY <1>1, <2>1 DEF Act, At, Patches
    <2> HIDE DEF a
    <2> QED BY <2>1, <2>2, GoesRefines
  <1>4. CASE AttachBundle(c)
    <2> DEFINE a == [act[c] EXCEPT !.pc = "patch", !.had = Taken]
    <2>1. Goes(c, a) /\ SameMeta /\ agent' = agent /\ At(c, "attach", "bundle")
      BY <1>4 DEF AttachBundle, partition, SameMeta
    <2>2. a.rev = act[c].rev /\ Patches(act[c])
      BY <1>1, <2>1 DEF Act, At, Patches
    <2> HIDE DEF a
    <2> QED BY <2>1, <2>2, GoesRefines
  <1>5. CASE UpdateRead(c)
    <2> DEFINE a == [act[c] EXCEPT !.pc = "text", !.todo = {review.rev}]
    <2>1. Goes(c, a) /\ SameMeta /\ agent' = agent /\ At(c, "update", "analysis")
      BY <1>2, <1>5 DEF UpdateRead, partition, SameMeta
    <2>2. ~Patches(a)
      BY <1>1, <2>1 DEF Act, At, Patches
    <2> HIDE DEF a
    <2> QED BY <2>1, <2>2, GoesRefines
  <1>6. CASE PhotoRead(c)
    <2> DEFINE a == [act[c] EXCEPT !.pc = "patch", !.had = meta.photos]
    <2>1. Goes(c, a) /\ SameMeta /\ agent' = agent /\ act[c].op \in {"add", "remove"} /\ act[c].pc = "read"
      BY <1>2, <1>6 DEF PhotoRead, partition, SameMeta
    <2>2. a.rev = act[c].rev /\ Patches(act[c])
      BY <1>1, <2>1 DEF Act, Patches
    <2> HIDE DEF a
    <2> QED BY <2>1, <2>2, GoesRefines
  <1>7. CASE DeleteRead(c)
    <2>1. PICK todo : /\ Goes(c, [act[c] EXCEPT !.pc = "child", !.todo = todo])
                      /\ UNCHANGED <<partition, agent, answered, budget>>
      BY <1>2, <1>7 DEF DeleteRead
    <2> DEFINE a == [act[c] EXCEPT !.pc = "child", !.todo = todo]
    <2>2. Goes(c, a) /\ SameMeta /\ agent' = agent
      BY <2>1 DEF partition, SameMeta
    <2>3. ~Patches(a)
      BY <1>1 DEF Act, Patches
    <2> HIDE DEF a
    <2> QED BY <2>2, <2>3, GoesRefines
  <1> QED BY <1>3, <1>4, <1>5, <1>6, <1>7

LEMMA RecordingReadRefines ==
    ASSUME DiaryInv, DiaryInv', RevsBehind, NEW c \in Callers,
           RecordRead(c) \/ RecordCount(c) \/ OverrideRead(c) \/ Dropped(c)
    PROVE  Refined
  <1>1. act[c] \in Act BY DEF DiaryInv, DiaryTyped
  <1>2. SUFFICES ASSUME ~\E what : Refuse(c, what) PROVE Refined
    BY RefuseRefines
  <1>3. CASE RecordRead(c) \/ RecordCount(c) \/ OverrideRead(c)
    <2>1. PICK pc \in {"count", "put", "patch"} : Reads(c, pc) /\ act[c].op \in {"record", "override"}
      BY <1>2, <1>3 DEF RecordRead, RecordCount, OverrideRead, At
    <2>2. ~Patches([act[c] EXCEPT !.pc = pc])
      BY <1>1, <2>1 DEF Act, Patches
    <2>3. pc \in CallSteps BY DEF CallSteps
    <2> QED BY <2>1, <2>2, <2>3, ReadsRefine
  <1>4. CASE Dropped(c)
    <2>1. budget'.calls = budget.calls
      BY <1>4 DEF Dropped, DiaryInv, DiaryTyped
    <2>2. SameMeta /\ Goes(c, NoAct) /\ agent' = agent
      BY <1>4, <2>1 DEF Dropped, partition, SameMeta
    <2> QED BY <2>2, NoActWishes, GoesRefines
  <1> QED BY <1>3, <1>4

(* The three calls that patch META.                                        *)
LEMMA CallPatches ==
    ASSUME DiaryInv, DiaryInv', RevsBehind, NEW c \in Callers, NEW a, NEW m \in Meta,
           Patches(act[c]), Current(c), m.rev = meta.rev, m.life # "none", PatchMeta(c, m, a), ~Patches(a)
    PROVE  Refined
  <1>1. DiaryTyped /\ meta.rev \in Nat BY WishTypes DEF DiaryInv
  <1>2. Wrote(c, a) /\ agent' = agent /\ meta' = [m EXCEPT !.rev = @ + 1]
    BY DEF PatchMeta
  <1>3. /\ c \in Patchers /\ Wish(c) = [will |-> Patches(act[c]), rev |-> act[c].rev]
        /\ Wish(c)' = [will |-> Patches(a), rev |-> a.rev] /\ OthersWish(c)
    BY <1>1, <1>2, CallWishes
  <1>4. meta'.rev = meta.rev + 1 /\ Exists'
    BY <1>2 DEF Meta, Exists
  <1>5. Exists /\ Wish(c).rev = meta.rev /\ Wish(c).will /\ ~Wish(c)'.will
    BY <1>3 DEF Current
  <1> QED BY <1>3, <1>4, <1>5, PatchRefines

LEMMA PatchCallRefines ==
    ASSUME DiaryInv, DiaryInv', RevsBehind, NEW c \in Callers,
           AttachPatch(c) \/ UpdateMeta(c) \/ PhotoPatch(c)
    PROVE  Refined
  <1>1. act[c] \in Act /\ meta \in Meta BY DEF DiaryInv, DiaryTyped
  <1>2. SUFFICES ASSUME ~\E what : Refuse(c, what) PROVE Refined
    BY RefuseRefines
  <1>3. CASE AttachPatch(c)
    <2> DEFINE life == IF act[c].had # {} THEN "polishing" ELSE "awaiting_audio"
               m == [meta EXCEPT !.life = life]
    <2>1. PatchMeta(c, m, NoAct) /\ Current(c) /\ At(c, "attach", "patch")
      BY <1>2, <1>3 DEF AttachPatch
    <2>2. life \in Life /\ life # "none" BY DEF Life
    <2> HIDE DEF life
    <2>3. m \in Meta /\ m.rev = meta.rev /\ m.life # "none"
      BY <1>1, <2>2 DEF Meta
    <2>4. Patches(act[c]) BY <2>1 DEF At, Patches
    <2> QED BY <2>1, <2>3, <2>4, NoActWishes, CallPatches
  <1>4. CASE UpdateMeta(c)
    <2>1. PICK a \in {NoAct, [act[c] EXCEPT !.pc = "analysis"]} :
             PatchMeta(c, meta, a) /\ Current(c) /\ At(c, "update", "patch")
      BY <1>2, <1>4 DEF UpdateMeta
    <2>2. ~Patches([act[c] EXCEPT !.pc = "analysis"])
      BY <1>1 DEF Act, Patches
    <2>3. Patches(act[c]) /\ meta.life # "none"
      BY <2>1 DEF At, Patches, Current, Exists
    <2> QED BY <1>1, <2>1, <2>2, <2>3, NoActWishes, CallPatches
  <1>5. CASE PhotoPatch(c)
    <2> DEFINE photos == IF NewPhotos(c) = {} THEN meta.photos ELSE NewPhotos(c)
               m == [meta EXCEPT !.photos = photos]
    <2>1. /\ PatchMeta(c, [meta EXCEPT !.photos = IF NewPhotos(c) = {} THEN @ ELSE NewPhotos(c)], NoAct)
          /\ Current(c) /\ act[c].op \in {"add", "remove"} /\ act[c].pc = "patch"
      BY <1>2, <1>5 DEF PhotoPatch
    <2>2. PatchMeta(c, m, NoAct) BY <2>1
    <2>3. photos \subseteq Photos
      <3>1. PICK p \in Photos : act[c].of = {p}
        BY <2>1 DEF DiaryInv, CallOk, PhotoOk
      <3>2. act[c].had = meta.photos
        BY <2>1 DEF DiaryInv, CallOk, PhotoOk, Current
      <3> QED BY <1>1, <3>1, <3>2 DEF NewPhotos, Meta
    <2> HIDE DEF photos
    <2>4. m \in Meta /\ m.rev = meta.rev /\ m.life = meta.life
      BY <1>1, <2>3 DEF Meta
    <2>5. Patches(act[c]) /\ meta.life # "none"
      BY <2>1 DEF Patches, Current, Exists
    <2> QED BY <2>1, <2>2, <2>4, <2>5, NoActWishes, CallPatches
  <1> QED BY <1>3, <1>4, <1>5

(* The writes of recordings and of the analysis leave META alone.          *)
LEMMA OtherWriteRefines ==
    ASSUME DiaryInv, DiaryInv', RevsBehind, NEW c \in Callers,
           UpdateText(c) \/ RecordPut(c) \/ OverridePatch(c)
    PROVE  Refined
  <1>1. SUFFICES ASSUME ~\E what : Refuse(c, what) PROVE Refined
    BY RefuseRefines
  <1>2. Wrote(c, NoAct) /\ agent' = agent /\ meta' = meta /\ budget' = budget
    BY <1>1 DEF UpdateText, RecordPut, OverridePatch
  <1> QED BY <1>2, NoActWishes, GoesRefines DEF SameMeta

LEMMA DeletionRefines ==
    ASSUME DiaryInv, DiaryInv', RevsBehind, NEW c \in Callers, DeleteChild(c)
    PROVE  Refined
  <1>1. DiaryTyped /\ act[c] \in Act /\ act[c].op = "delete" /\ act[c].pc = "child"
    BY DEF DiaryInv, DiaryTyped, DeleteChild, At
  <1>2. CASE DeleteMeta(c)
    <2>1. Wrote(c, NoAct) /\ agent' = agent /\ meta' = NoMeta /\ budget' = budget
      BY <1>2 DEF DeleteMeta
    <2>2. /\ c \in Patchers /\ Wish(c) = [will |-> Patches(act[c]), rev |-> act[c].rev]
          /\ Wish(c)' = [will |-> Patches(NoAct), rev |-> NoAct.rev] /\ OthersWish(c)
      BY <1>1, <2>1, CallWishes
    <2>3. ~Patches(act[c]) BY <1>1 DEF Patches
    <2>4. ~Wish(c).will /\ ~Wish(c)'.will
      BY <2>2, <2>3, NoActWishes
    <2>5. budget.calls # MaxDiaryCalls
      BY <1>1 DEF DiaryInv, CreatedOnce, NoAct
    <2>6. ~Exists' BY <2>1 DEF Exists, NoMeta
    <2> QED BY <2>1, <2>2, <2>4, <2>5, <2>6, DropRefines
  <1>3. ASSUME NEW x \in act[c].todo, Wrote(c, [act[c] EXCEPT !.todo = @ \ {x}]),
               UNCHANGED <<meta, agent, answered, budget>>
        PROVE  Refined
    <2> DEFINE a == [act[c] EXCEPT !.todo = @ \ {x}]
    <2>1. ~Patches(a) BY <1>1 DEF Act, Patches
    <2>2. Wrote(c, a) /\ SameMeta /\ agent' = agent BY <1>3 DEF SameMeta
    <2> HIDE DEF a
    <2> QED BY <2>1, <2>2, GoesRefines
  <1> QED BY <1>2, <1>3 DEF DeleteChild

(* Session B: it reads META once, and writes it with that rev or not.      *)
LEMMA AgentWishes ==
    ASSUME DiaryTyped, act' = act \/ AgentWrote(agent'.pc)
    PROVE  /\ SessionB \in Patchers /\ OthersWish(SessionB)
           /\ (Wish(SessionB).will <=> agent.pc = "ready") /\ Wish(SessionB).rev = agent.rev
           /\ (Wish(SessionB)'.will <=> agent'.pc = "ready") /\ Wish(SessionB)'.rev = agent'.rev
  <1>1. ASSUME NEW d \in Callers
        PROVE  act'[d].op = act[d].op /\ act'[d].pc = act[d].pc /\ act'[d].rev = act[d].rev
    <2>1. act[d] \in Act BY DEF DiaryTyped
    <2>2. CASE AgentWrote(agent'.pc)
      <3>1. act'[d] = [act[d] EXCEPT !.calm = act[d].pc = "idle"] BY <2>2 DEF AgentWrote
      <3> QED BY <2>1, <3>1 DEF Act
    <2> QED BY <2>2
  <1>2. \A d \in Callers : Patches(act[d])' = Patches(act[d])
    BY <1>1 DEF Patches
  <1> QED BY <1>1, <1>2 DEF OthersWish, Wish, Patchers

LEMMA AgentReadRefines ==
    ASSUME DiaryInv, DiaryInv', RevsBehind, SpeakersRead \/ ReviewRead \/ ReadyRead \/ AgentConflict
    PROVE  Refined
  <1>1. DiaryTyped BY DEF DiaryInv
  <1>2. act' = act /\ SameMeta
    BY DEF SpeakersRead, ReviewRead, ReadyRead, AgentConflict, AgentGoes, partition, SameMeta
  <1>3. agent'.pc = "ready" => agent.pc # "ready" /\ Exists /\ agent'.rev = meta.rev
    <2>1. CASE SpeakersRead BY <2>1 DEF SpeakersRead, AgentGoes
    <2>2. CASE ReviewRead BY <2>2 DEF ReviewRead, AgentGoes, NoRun
    <2>3. CASE ReadyRead BY <2>3 DEF ReadyRead, AgentGoes, NoRun
    <2>4. CASE AgentConflict BY <2>4 DEF AgentConflict, AgentGoes, NoRun
    <2> QED BY <2>1, <2>2, <2>3, <2>4
  <1>4. /\ SessionB \in Patchers /\ OthersWish(SessionB)
        /\ (Wish(SessionB).will <=> agent.pc = "ready") /\ Wish(SessionB).rev = agent.rev
        /\ (Wish(SessionB)'.will <=> agent'.pc = "ready") /\ Wish(SessionB)'.rev = agent'.rev
    BY <1>1, <1>2, AgentWishes
  <1>5. Wish(SessionB)'.will => ~Wish(SessionB).will /\ Exists /\ Wish(SessionB)'.rev = meta.rev
    BY <1>3, <1>4
  <1> QED BY <1>2, <1>4, <1>5, QuietRefines

LEMMA AgentWriteRefines ==
    ASSUME DiaryInv, DiaryInv', RevsBehind, SpeakersWrite \/ ReviewWrite \/ ReadyWrite
    PROVE  Refined
  <1>1. DiaryTyped BY DEF DiaryInv
  <1>2. PICK pc \in {"analysis", "tasting", "over"} : AgentWrote(pc)
    BY DEF SpeakersWrite, ReviewWrite, ReadyWrite
  <1>3. agent'.pc = pc BY <1>2 DEF AgentWrote, NoRun
  <1>4. /\ SessionB \in Patchers /\ OthersWish(SessionB)
        /\ (Wish(SessionB).will <=> agent.pc = "ready") /\ Wish(SessionB).rev = agent.rev
        /\ (Wish(SessionB)'.will <=> agent'.pc = "ready") /\ Wish(SessionB)'.rev = agent'.rev
    BY <1>1, <1>2, <1>3, AgentWishes
  <1>5. ~Wish(SessionB)'.will BY <1>3, <1>4
  <1>6. CASE SpeakersWrite \/ ReviewWrite
    <2>1. SameMeta BY <1>2, <1>6 DEF SpeakersWrite, ReviewWrite, AgentWrote, SameMeta
    <2> QED BY <1>4, <1>5, <2>1, QuietRefines
  <1>7. CASE ReadyWrite
    <2>1. Exists /\ Wish(SessionB).will /\ Wish(SessionB).rev = meta.rev
      BY <1>4, <1>7 DEF ReadyWrite
    <2>2. meta'.rev = meta.rev + 1 /\ Exists'
      BY <1>1, <1>7 DEF ReadyWrite, DiaryTyped, Meta, Exists
    <2> QED BY <1>4, <1>5, <2>1, <2>2, PatchRefines
  <1> QED BY <1>6, <1>7

LEMMA CreationRefines ==
    ASSUME DiaryInv, DiaryInv', CreateTasting \/ Established
    PROVE  Refined
  <1>1. ~Exists /\ budget.calls = MaxDiaryCalls /\ act' = act /\ agent' = agent
    BY DEF CreateTasting, Established
  <1>2. Exists'
    BY DEF CreateTasting, Established, Exists, NoMeta
  <1> QED BY <1>1, <1>2, InsertRefines

LEMMA StepRefines == DiaryInv /\ DiaryInv' /\ RevsBehind /\ [DiaryNext]_diaryVars => Refined
  <1> SUFFICES ASSUME DiaryInv, DiaryInv', RevsBehind, [DiaryNext]_diaryVars PROVE Refined
    OBVIOUS
  <1>1. CASE UNCHANGED diaryVars
    <2>1. /\ meta' = meta /\ act' = act /\ agent' = agent /\ budget' = budget
      BY <1>1 DEF diaryVars
    <2> QED BY <2>1 DEF Refined, RevsBehind, MetaStore!storeVars, MetaRow, IntentOf, Wish, Patches, Exists
  <1>2. CASE CreateTasting \/ Established BY <1>2, CreationRefines
  <1>3. ASSUME NEW c \in Callers,
               \/ CallAttach(c) \/ CallUpdate(c) \/ CallRecord(c) \/ CallOverride(c)
               \/ CallPhoto(c) \/ CallDelete(c)
        PROVE  Refined
    BY <1>3, CallRefines
  <1>4. ASSUME NEW c \in Callers,
               \/ AttachRead(c) \/ AttachBundle(c) \/ UpdateRead(c) \/ PhotoRead(c) \/ DeleteRead(c)
               \/ RecordRead(c) \/ RecordCount(c) \/ OverrideRead(c) \/ Dropped(c)
        PROVE  Refined
    BY <1>4, ReadRefines, RecordingReadRefines
  <1>5. ASSUME NEW c \in Callers,
               \/ AttachPatch(c) \/ UpdateMeta(c) \/ UpdateText(c) \/ RecordPut(c)
               \/ OverridePatch(c) \/ PhotoPatch(c) \/ DeleteChild(c)
        PROVE  Refined
    BY <1>5, PatchCallRefines, OtherWriteRefines, DeletionRefines
  <1>6. CASE SpeakersRead \/ ReviewRead \/ ReadyRead \/ AgentConflict BY <1>6, AgentReadRefines
  <1>7. CASE SpeakersWrite \/ ReviewWrite \/ ReadyWrite BY <1>7, AgentWriteRefines
  <1> QED BY <1>1, <1>2, <1>3, <1>4, <1>5, <1>6, <1>7 DEF DiaryNext

LEMMA StartRefines == DiaryInit => RevsBehind /\ MetaStore!StoreInit
  <1> SUFFICES ASSUME DiaryInit PROVE RevsBehind /\ MetaStore!StoreInit
    OBVIOUS
  <1>1. DiaryTyped BY DiaryStarts DEF DiaryInv
  <1>2. \A x \in Patchers : ~Wish(x).will
    BY NoActWishes DEF DiaryInit, Wish, Patchers, NoRun
  <1>3. MetaRow["META"].state = "fresh"
    BY <1>1, StoreFacts DEF DiaryInit, Exists, NoMeta
  <1>4. MetaRow \in [MetaKeys -> MetaStore!Row]
    BY <1>1, StoreFacts DEF MetaRow, MetaKeys
  <1>5. [x \in Patchers |-> IntentOf(x)] = [x \in Patchers |-> MetaStore!NoIntent]
    BY <1>1, <1>2, StoreFacts
  <1> QED BY <1>2, <1>3, <1>4, <1>5 DEF RevsBehind, MetaStore!StoreInit, MetaKeys

(* META is written over what its writer has read of it and over nothing    *)
(* else (MetaFirstWins): patchItem's condition on the rev makes of         *)
(* updateTasting, attachWineToTasting, the photo calls and session B       *)
(* clients of a store where the first writer wins, and no write brings     *)
(* back a tasting that deleteTasting has taken away.                       *)
THEOREM MetaImplementsRevStore == DiarySpec => MetaFirstWins
  <1>1. DiaryInv /\ DiaryInv' /\ RevsBehind /\ [DiaryNext]_diaryVars
           => RevsBehind' /\ [MetaStore!StoreNext]_MetaStore!storeVars
    BY StepRefines DEF Refined
  <1>2. DiarySpec => []RevsBehind
    BY <1>1, StartRefines, DiaryHolds, PTL DEF DiarySpec
  <1>3. MetaFirstWins <=> MetaStore!StoreInit /\ [][MetaStore!StoreNext]_MetaStore!storeVars
    BY DEF MetaFirstWins, MetaStore!StoreSpec
  <1> QED BY <1>1, <1>2, <1>3, StartRefines, DiaryHolds, PTL DEF DiarySpec

=============================================================================
