--------------------------- MODULE CatalogProofs ---------------------------
(* Theorems about Catalog, for any sets of items and any number of editors. *)
EXTENDS Catalog, TLAPS

\* What a call c knows of the stored items it while it is under way.
Sound(c, it) ==
    /\ c.pc = "idle" => c.op = "none"
    /\ c.pc \in {"check", "write"} => c.op \in {"create", "update", "attach", "fill"}
    /\ c.pc \in {"scan", "remove"} => c.op = "delete"
    /\ c.todo \subseteq c.ref
    /\ c.pc = "write" => c.todo = {} /\ ~c.broken
    /\ c.op = "create" => it[c.i].state = "fresh"
    /\ c.pc # "idle" /\ c.op # "create" => it[c.i].state # "fresh"

\* What it has checked still holds as long as nobody else has written.
CheckedSound(c, it) ==
    /\ c.calm /\ c.pc \in {"check", "write"} /\ ~c.broken =>
          \A j \in c.ref \ c.todo : it[j].state = "stored"
    /\ c.calm /\ c.pc = "remove" =>
          \A j \in Items : it[j].state = "stored" => c.i \notin it[j].ref

\* A fill that still has the newest rev has the newest fields.
FillSound(c, it) ==
    c.op = "fill" =>
        /\ c.pc = "write" /\ c.ref = {}
        /\ it[c.i].state = "stored" /\ c.rev = it[c.i].rev =>
              it[c.i].note = "none" /\ it[c.i].draft = c.draft

\* Nobody has seen a rev that is still to come.
RevSound(c, it) ==
    c.op \in {"update", "attach", "fill"} /\ it[c.i].state = "stored" => c.rev <= it[c.i].rev

\* An id that is about to be stored belongs to one creation.
OneCreator ==
    \A d, e \in Editors : call[d].op = "create" /\ call[e].op = "create"
                             /\ call[d].i = call[e].i => d = e

CallInv(c, it) == Sound(c, it) /\ CheckedSound(c, it) /\ FillSound(c, it) /\ RevSound(c, it)

IInv == TypeOK /\ OneCreator /\ \A e \in Editors : CallInv(call[e], item)

-----------------------------------------------------------------------------
(* Lemmas                                                                  *)

\* Nothing refers to a tasting, and references are items.
LEMMA RefsType ==
  \A i \in Items : \A S \in Refs[i] : S \subseteq Items /\ S \intersect Tastings = {}
  BY KindsAssumption DEF Refs, Targets, Items

\* Without references there is one of each kind at most.
LEMMA RefsEmpty == \A i \in Items : {} \in Refs[i]
  BY DEF Refs, OnePerKind

\* Replacing references kind by kind leaves one of each kind.
LEMMA PatchedRefs ==
  ASSUME NEW i \in Items, NEW old \in Refs[i], NEW new \in Refs[i]
  PROVE  {j \in old : \A k \in new : ~SameKind(j, k)} \union new \in Refs[i]
  <1> DEFINE S == {j \in old : \A k \in new : ~SameKind(j, k)} \union new
  <1>1. \A j, k : SameKind(j, k) => SameKind(k, j)
    BY DEF SameKind
  <1>2. old \subseteq Targets(i) /\ OnePerKind(old) /\ new \subseteq Targets(i) /\ OnePerKind(new)
    BY DEF Refs
  <1>3. OnePerKind(S)
    BY <1>1, <1>2 DEF OnePerKind
  <1>4. S \subseteq Targets(i)
    BY <1>2
  <1> QED  BY <1>3, <1>4 DEF Refs

\* An idle call knows nothing.
LEMMA NoCallInv == NoCall \in Call /\ \A it : CallInv(NoCall, it)
  BY DEF NoCall, Call, Note, CallInv, Sound, CheckedSound, FillSound, RevSound

\* A call may begin with any record that is sound.
LEMMA BeginKeeps ==
  ASSUME IInv, NEW e \in Editors, NEW c \in Call, Begin(e, c), c.i \in Items, c.ref \in Refs[c.i],
         CallInv(c, item), c.op = "create" => \A d \in Editors : call[d].i = c.i => call[d].op # "create"
  PROVE  IInv'
  <1>1. TypeOK'
    BY DEF IInv, TypeOK, Begin
  <1>2. OneCreator'
    BY DEF IInv, TypeOK, Begin, OneCreator
  <1>3. (\A d \in Editors : CallInv(call[d], item))'
    BY DEF IInv, TypeOK, Begin
  <1> QED  BY <1>1, <1>2, <1>3 DEF IInv

\* A call may take a step that stores nothing, or end.
LEMMA QuietKeeps ==
  ASSUME IInv, NEW e \in Editors, NEW c \in Call, call' = [call EXCEPT ![e] = c],
         UNCHANGED <<item, left>>, CallInv(c, item),
         c = NoCall \/ (c.i = call[e].i /\ c.ref = call[e].ref /\ c.op = call[e].op
                          /\ call[e].pc # "idle")
  PROVE  IInv'
  <1>1. TypeOK'
    BY DEF IInv, TypeOK, NoCall
  <1>2. OneCreator'
    BY DEF IInv, TypeOK, OneCreator, NoCall
  <1>3. (\A d \in Editors : CallInv(call[d], item))'
    BY DEF IInv, TypeOK
  <1> QED  BY <1>1, <1>2, <1>3 DEF IInv

\* A call may end with a write that never makes an item fresh, creates it only
\* by its one creator, and gives it a larger rev otherwise.
LEMMA WriteKeeps ==
  ASSUME IInv, NEW e \in Editors, NEW i \in Items, NEW new \in Item, EndWriting(e, i, new),
         UNCHANGED left, new.ref \in Refs[i], new.state # "fresh",
         item[i].state = "fresh" => call[e].op = "create" /\ call[e].i = i,
         new.state = "stored" => item[i].state \in {"fresh", "stored"},
         item[i].state = "stored" /\ new.state = "stored" => new.rev > item[i].rev
  PROVE  IInv'
  <1>1. TypeOK'
    <2>1. item' \in [Items -> Item] /\ \A j \in Items : item'[j].ref \in Refs[j]
      BY DEF IInv, TypeOK, EndWriting
    <2>2. \A d \in Editors : call'[d] = NoCall \/ call'[d] = [call[d] EXCEPT !.calm = call[d].pc = "idle"]
      BY DEF EndWriting
    <2>3. ASSUME NEW d \in Editors
          PROVE  call'[d] \in Call /\ (call'[d].pc # "idle" =>
                    call'[d].i \in Items /\ call'[d].ref \in Refs[call'[d].i])
      <3> DEFINE c == call[d]  n == [c EXCEPT !.calm = c.pc = "idle"]
      <3>1. c \in Call /\ (c.pc # "idle" => c.i \in Items /\ c.ref \in Refs[c.i])
        BY DEF IInv, TypeOK
      <3>2. n \in Call /\ n.pc = c.pc /\ n.i = c.i /\ n.ref = c.ref
        <4> HIDE DEF c
        <4>1. (c.pc = "idle") \in BOOLEAN
          OBVIOUS
        <4> QED  BY <3>1, <4>1 DEF Call
      <3>3. NoCall.pc = "idle"
        BY DEF NoCall
      <3> QED  BY <2>2, <3>1, <3>2, <3>3, NoCallInv
    <2> QED  BY <2>1, <2>3 DEF IInv, TypeOK, EndWriting
  <1>2. OneCreator'
    BY DEF IInv, TypeOK, EndWriting, OneCreator, NoCall, Call
  <1>3. ASSUME NEW d \in Editors
        PROVE  CallInv(call[d], item)'
    <2>1. CASE d = e
      BY <2>1, NoCallInv DEF EndWriting
    <2>2. CASE d # e
      <3> DEFINE c == call[d]  n == [c EXCEPT !.calm = c.pc = "idle"]
      <3>1. call'[d] = n
        BY <2>2 DEF EndWriting
      <3>2. c \in Call /\ CallInv(c, item)
        BY DEF IInv, TypeOK
      <3>3. /\ n.pc = c.pc /\ n.op = c.op /\ n.i = c.i /\ n.ref = c.ref /\ n.todo = c.todo
            /\ n.broken = c.broken /\ n.rev = c.rev /\ n.draft = c.draft
            /\ n.calm = (c.pc = "idle")
        BY <3>2 DEF Call
      <3>4. c.pc # "idle" => c.i \in Items
        BY DEF IInv, TypeOK
      <3>5. c.i \in Items => item'[c.i] = IF c.i = i THEN new ELSE item[c.i]
        BY DEF IInv, TypeOK, EndWriting
      <3>6. c.op = "create" /\ c.i \in Items => c.i # i \/ item[i].state # "fresh"
        BY <2>2 DEF IInv, OneCreator
      <3>7. Sound(n, item')
        BY <3>2, <3>3, <3>4, <3>5, <3>6 DEF CallInv, Sound
      <3>8. CheckedSound(n, item')
        BY <3>3 DEF CheckedSound
      <3>9. FillSound(n, item')
        <4> SUFFICES ASSUME n.op = "fill"  PROVE FillSound(n, item')
          BY DEF FillSound
        <4>1. c.pc = "write" /\ c.i \in Items /\ c.ref = {}
          BY <3>2, <3>3, <3>4 DEF CallInv, FillSound
        <4>2. CASE c.i # i
          BY <4>1, <4>2, <3>2, <3>3, <3>5 DEF CallInv, FillSound
        <4>3. CASE c.i = i
          <5>1. item[i].state # "fresh"
            BY <4>1, <4>3, <3>2, <3>3 DEF CallInv, Sound
          <5>2. new.rev \in Nat /\ item[i].rev \in Nat /\ c.rev \in Nat
            BY <3>2 DEF IInv, TypeOK, Item, Call
          <5>3. new.state = "stored" => c.rev < new.rev
            BY <5>1, <5>2, <4>3, <3>2, <3>3 DEF CallInv, RevSound
          <5> QED  BY <5>2, <5>3, <4>1, <4>3, <3>3, <3>5 DEF FillSound
        <4> QED  BY <4>2, <4>3
      <3>10. RevSound(n, item')
        <4> SUFFICES ASSUME n.op \in {"update", "attach", "fill"}, item'[n.i].state = "stored"
                     PROVE  n.rev <= item'[n.i].rev
          BY DEF RevSound
        <4>1. c.pc # "idle" /\ c.op = n.op /\ c.i \in Items /\ item[c.i].state # "fresh"
          BY <3>2, <3>3, <3>4 DEF CallInv, Sound
        <4>2. item[c.i].rev \in Nat /\ new.rev \in Nat /\ c.rev \in Nat
          BY <3>2, <4>1 DEF IInv, TypeOK, Item, Call
        <4>3. item[c.i].state = "stored" => c.rev <= item[c.i].rev
          BY <3>2, <4>1 DEF CallInv, RevSound
        <4> QED  BY <3>3, <3>5, <4>1, <4>2, <4>3
      <3> QED  BY <3>1, <3>7, <3>8, <3>9, <3>10 DEF CallInv
    <2> QED  BY <2>1, <2>2
  <1> QED  BY <1>1, <1>2, <1>3 DEF IInv

-----------------------------------------------------------------------------
(* The actions                                                             *)

LEMMA InitIInv == Init => IInv
  <1> SUFFICES ASSUME Init  PROVE IInv
    OBVIOUS
  <1>1. TypeOK
    <2>1. PICK stored \in SUBSET Items, drafts \in SUBSET Wines :
            \E refs \in SUBSET {p \in stored \X stored : p[2] \in Targets(p[1])} :
                /\ \A i \in stored : RefsIn(refs, i) \in Refs[i]
                /\ Hierarchy(refs)
                /\ item = Bare(stored, refs, drafts)
      BY Zenon DEF Init
    <2>2. PICK refs : /\ \A i \in stored : RefsIn(refs, i) \in Refs[i]
                      /\ item = Bare(stored, refs, drafts)
      BY <2>1, Zenon
    <2>3. ASSUME NEW i \in Items
          PROVE  item[i] \in Item /\ item[i].ref \in Refs[i]
      <3>1. (i \in drafts) \in BOOLEAN
        OBVIOUS
      <3>2. CASE i \in stored
        BY <2>2, <3>1, <3>2, RefsType DEF Bare, Fresh, Item, Note
      <3>3. CASE i \notin stored
        BY <2>2, <3>3, RefsEmpty DEF Bare, Fresh, Item, Note
      <3> QED  BY <3>2, <3>3
    <2>4. item \in [Items -> Item]
      BY <2>2, <2>3 DEF Bare
    <2>5. call \in [Editors -> Call] /\ \A e \in Editors : call[e].pc = "idle"
      BY NoCallInv DEF Init, NoCall
    <2> QED  BY <2>3, <2>4, <2>5, KindsAssumption DEF Init, TypeOK
  <1>2. OneCreator
    BY DEF Init, OneCreator, NoCall
  <1>3. \A e \in Editors : CallInv(call[e], item)
    BY NoCallInv DEF Init
  <1> QED  BY <1>1, <1>2, <1>3 DEF IInv

\* A call that is to write i after checking the references ref.
LEMMA CheckingInv ==
  ASSUME IInv, NEW i \in Items, NEW ref \in Refs[i], NEW n \in Note, NEW d \in BOOLEAN,
         NEW rev \in Nat, NEW op \in {"create", "update", "attach"},
         op = "create" <=> item[i].state = "fresh", op # "create" => rev = item[i].rev
  PROVE  LET c == Checking(op, i, ref, n, d, rev)
         IN  c \in Call /\ c.i = i /\ c.ref = ref /\ c.op = op /\ CallInv(c, item)
  <1> DEFINE c == Checking(op, i, ref, n, d, rev)
  <1>1. /\ c.op = op /\ c.i = i /\ c.ref = ref /\ ~c.broken
        /\ c.todo = c.ref /\ c.pc \in {"check", "write"}
        /\ c.pc = "write" => c.ref = {}
        /\ c.rev = rev
    BY DEF Checking
  <1>2. c \in Call
    BY RefsType DEF Checking, Call
  <1>3. CallInv(c, item)
    <2> HIDE DEF c
    <2> QED  BY <1>1 DEF CallInv, Sound, CheckedSound, FillSound, RevSound
  <1> QED  BY <1>1, <1>2, <1>3

LEMMA CreateKeeps ==
  ASSUME IInv, NEW e \in Editors, NEW i \in Items, Create(e, i)  PROVE IInv'
  <1>1. PICK ref \in Refs[i], n \in Note, d \in BOOLEAN :
          Begin(e, Checking("create", i, ref, n, d, 0))
    BY DEF Create
  <1> DEFINE c == Checking("create", i, ref, n, d, 0)
  <1>2. c \in Call /\ c.i = i /\ c.ref = ref /\ c.op = "create" /\ CallInv(c, item)
    BY CheckingInv DEF Create
  <1>3. Begin(e, c)
    BY <1>1
  <1> HIDE DEF c
  <1> QED  BY <1>2, <1>3, BeginKeeps DEF Create

LEMMA UpdateKeeps ==
  ASSUME IInv, NEW e \in Editors, NEW i \in Items, Update(e, i)  PROVE IInv'
  <1>1. item[i].note \in Note /\ item[i].rev \in Nat /\ item[i].state = "stored"
    BY DEF IInv, TypeOK, Item, Update, Stored
  <1>2. PICK ref \in Refs[i], n \in Note, d \in BOOLEAN :
          Begin(e, Checking("update", i, ref, n, d, item[i].rev))
    BY <1>1 DEF Update, Note
  <1> DEFINE c == Checking("update", i, ref, n, d, item[i].rev)
  <1>3. c \in Call /\ c.i = i /\ c.ref = ref /\ c.op = "update" /\ CallInv(c, item)
    <2>1. ("update" = "create") <=> item[i].state = "fresh"
      BY <1>1
    <2> QED  BY <1>1, <2>1, CheckingInv
  <1>4. Begin(e, c)
    BY <1>2
  <1> HIDE DEF c
  <1> QED  BY <1>3, <1>4, BeginKeeps

LEMMA AttachKeeps ==
  ASSUME IInv, NEW e \in Editors, NEW t \in Items, Attach(e, t)  PROVE IInv'
  <1>1. item[t].rev \in Nat /\ item[t].state = "stored" /\ t \in Tastings
    BY DEF IInv, TypeOK, Item, Attach, Stored
  <1>2. PICK w \in Wines : Begin(e, Checking("attach", t, {w}, "none", FALSE, item[t].rev))
    BY DEF Attach
  <1>3. {w} \in Refs[t]
    BY <1>1, KindsAssumption DEF Refs, Targets, OnePerKind
  <1> DEFINE c == Checking("attach", t, {w}, "none", FALSE, item[t].rev)
  <1>4. c \in Call /\ c.i = t /\ c.ref = {w} /\ c.op = "attach" /\ CallInv(c, item)
    <2>1. "none" \in Note /\ (("attach" = "create") <=> item[t].state = "fresh")
      BY <1>1 DEF Note
    <2>2. /\ "attach" \in {"create", "update", "attach"} /\ FALSE \in BOOLEAN
          /\ "attach" # "create" /\ item[t].rev \in Nat
      BY <1>1
    <2> DEFINE ref == {w}
    <2>3. /\ Checking("attach", t, ref, "none", FALSE, item[t].rev) \in Call
          /\ CallInv(Checking("attach", t, ref, "none", FALSE, item[t].rev), item)
      <3>1. ref \in Refs[t]
        BY <1>3
      <3> HIDE DEF ref
      <3>2. \A n \in Note, d \in BOOLEAN, rev \in Nat, op \in {"create", "update", "attach"} :
               /\ op = "create" <=> item[t].state = "fresh"
               /\ op # "create" => rev = item[t].rev
               => Checking(op, t, ref, n, d, rev) \in Call /\ CallInv(Checking(op, t, ref, n, d, rev), item)
        BY ONLY IInv, t \in Items, <3>1, CheckingInv
      <3> QED  BY ONLY <2>1, <2>2, <3>2
    <2>4. c.i = t /\ c.ref = {w} /\ c.op = "attach"
      BY DEF Checking
    <2> QED  BY <2>3, <2>4
  <1>5. Begin(e, c)
    BY <1>2
  <1> HIDE DEF c
  <1> QED  BY <1>3, <1>4, <1>5, BeginKeeps

LEMMA FillKeeps ==
  ASSUME IInv, NEW e \in Editors, NEW w \in Items, Fill(e, w)  PROVE IInv'
  <1> DEFINE c == [NoCall EXCEPT !.pc = "write", !.op = "fill", !.i = w, !.note = "label",
                                 !.draft = item[w].draft, !.rev = item[w].rev]
  <1>1. item[w].rev \in Nat /\ item[w].draft \in BOOLEAN /\ Stored(w) /\ item[w].note = "none"
    BY DEF IInv, TypeOK, Item, Fill
  <1>2. c \in Call
    BY <1>1 DEF NoCall, Call, Note
  <1>3. c.i = w /\ c.ref = {} /\ c.op = "fill" /\ c.pc = "write" /\ c.todo = {} /\ ~c.broken
        /\ c.rev = item[w].rev /\ c.draft = item[w].draft
    BY DEF NoCall
  <1>4. Begin(e, c)
    BY DEF Fill
  <1> HIDE DEF c
  <1>5. CallInv(c, item)
    BY <1>1, <1>3 DEF CallInv, Sound, CheckedSound, FillSound, RevSound, Stored
  <1> QED  BY <1>2, <1>3, <1>4, <1>5, RefsEmpty, BeginKeeps

LEMMA DeleteKeeps ==
  ASSUME IInv, NEW e \in Editors, NEW i \in Items, Delete(e, i)  PROVE IInv'
  <1> SUFFICES ASSUME NEW pc \in {"remove", "scan"}, (pc = "remove") <=> i \in Tastings,
                      Begin(e, [NoCall EXCEPT !.pc = pc, !.op = "delete", !.i = i])
               PROVE  IInv'
    BY DEF Delete
  <1> DEFINE c == [NoCall EXCEPT !.pc = pc, !.op = "delete", !.i = i]
  <1>1. c \in Call
    BY DEF NoCall, Call, Note
  <1>2. c.i = i /\ c.ref = {} /\ c.op = "delete" /\ c.todo = {} /\ c.pc = pc
    BY DEF NoCall
  <1>3. Begin(e, c) /\ item[i].state = "stored"
    BY DEF Delete, Stored
  <1> HIDE DEF c
  <1>4. CheckedSound(c, item)
    BY <1>2, RefsType DEF CheckedSound, IInv, TypeOK
  <1>5. CallInv(c, item)
    BY <1>2, <1>3, <1>4 DEF CallInv, Sound, FillSound, RevSound
  <1> QED  BY <1>1, <1>2, <1>3, <1>5, RefsEmpty, BeginKeeps

\* A call that stops without writing.
LEMMA EndKeeps ==
  ASSUME IInv, NEW e \in Editors, End(e), UNCHANGED left  PROVE IInv'
  BY NoCallInv, QuietKeeps DEF End

LEMMA CheckRefKeeps ==
  ASSUME IInv, NEW e \in Editors, CheckRef(e)  PROVE IInv'
  <1>1. PICK j \in call[e].todo :
          LET rest == call[e].todo \ {j}
              bad  == call[e].broken \/ ~Stored(j)
          IN  IF rest = {} /\ bad THEN End(e) ELSE
              /\ call' = [call EXCEPT ![e].todo = rest, ![e].broken = bad,
                             ![e].pc = IF rest = {} THEN "write" ELSE "check"]
              /\ UNCHANGED item
    BY DEF CheckRef
  <1> DEFINE old  == call[e]
             rest == old.todo \ {j}
             bad  == old.broken \/ ~Stored(j)
             c    == [old EXCEPT !.todo = rest, !.broken = bad,
                                 !.pc = IF rest = {} THEN "write" ELSE "check"]
  <1>2. CASE rest = {} /\ bad
    BY <1>1, <1>2, EndKeeps DEF CheckRef
  <1>3. CASE ~(rest = {} /\ bad)
    <2>1. call' = [call EXCEPT ![e] = c] /\ UNCHANGED <<item, left>>
      BY <1>1, <1>3 DEF CheckRef, IInv, TypeOK
    <2>2. old \in Call /\ old.pc = "check" /\ CallInv(old, item) /\ j \in old.todo
          /\ old.broken \in BOOLEAN
      BY <1>1 DEF CheckRef, IInv, TypeOK, Call
    <2>3. bad \in BOOLEAN /\ (~bad => ~old.broken /\ item[j].state = "stored")
      BY <2>2 DEF Stored
    <2> HIDE DEF old, bad
    <2>4. c \in Call
      BY <2>2, <2>3 DEF Call
    <2>5. /\ c.pc = (IF rest = {} THEN "write" ELSE "check") /\ c.todo = rest /\ c.broken = bad
          /\ c.i = old.i /\ c.ref = old.ref /\ c.op = old.op /\ c.calm = old.calm /\ c.rev = old.rev
      BY <2>2 DEF Call
    <2> HIDE DEF c
    <2>6. Sound(c, item)
      BY <1>3, <2>2, <2>5 DEF CallInv, Sound
    <2>7. CheckedSound(c, item)
      BY <2>2, <2>3, <2>5 DEF CallInv, CheckedSound
    <2>8. FillSound(c, item) /\ RevSound(c, item)
      BY <2>2, <2>5 DEF CallInv, FillSound, RevSound
    <2> QED  BY <2>1, <2>2, <2>4, <2>5, <2>6, <2>7, <2>8, QuietKeeps DEF CallInv, old
  <1> QED  BY <1>2, <1>3

LEMMA ScanKeeps ==
  ASSUME IInv, NEW e \in Editors, Scan(e)  PROVE IInv'
  <1> DEFINE old == call[e]  c == [old EXCEPT !.pc = "remove"]
  <1>1. CASE \E j \in Items : RefersTo(j, call[e].i)
    BY <1>1, EndKeeps DEF Scan
  <1>2. CASE ~\E j \in Items : RefersTo(j, call[e].i)
    <2>1. call' = [call EXCEPT ![e] = c] /\ UNCHANGED <<item, left>>
      BY <1>2 DEF Scan, IInv, TypeOK
    <2>2. old \in Call /\ old.pc = "scan" /\ CallInv(old, item)
          /\ \A j \in Items : item[j].state = "stored" => old.i \notin item[j].ref
      BY <1>2 DEF Scan, IInv, TypeOK, RefersTo, Stored
    <2> HIDE DEF old
    <2>3. c \in Call /\ c.pc = "remove" /\ c.i = old.i /\ c.ref = old.ref /\ c.op = old.op
          /\ c.todo = old.todo
      BY <2>2 DEF Call
    <2> HIDE DEF c
    <2>4. CallInv(c, item)
      BY <2>2, <2>3 DEF CallInv, Sound, CheckedSound, FillSound, RevSound
    <2> QED  BY <2>1, <2>2, <2>3, <2>4, QuietKeeps DEF old
  <1> QED  BY <1>1, <1>2

\* What a call about to write knows.
LEMMA WriteFacts ==
  ASSUME IInv, NEW e \in Editors, call[e].pc = "write"
  PROVE  LET c == call[e] IN
         /\ c \in Call /\ CallInv(c, item) /\ c.i \in Items /\ c.ref \in Refs[c.i]
         /\ c.ref \subseteq Items /\ c.todo = {} /\ ~c.broken
         /\ c.op \in {"create", "update", "attach", "fill"}
         /\ item[c.i] \in Item /\ item[c.i].ref \in Refs[c.i]
         /\ c.op = "create" <=> item[c.i].state = "fresh"
  BY RefsType DEF IInv, TypeOK, CallInv, Sound

\* A patch leaves a well-formed stored item with the next rev.
LEMMA PatchedType ==
  ASSUME NEW i \in Items, NEW c \in Call, item[i] \in Item, item[i].ref \in Refs[i],
         c.ref \in Refs[i]
  PROVE  LET p == Patched(i, c) IN
         /\ p \in Item /\ p.state = item[i].state /\ p.ref \in Refs[i]
         /\ p.ref \subseteq item[i].ref \union c.ref /\ p.rev = item[i].rev + 1
         /\ c.op = "fill" => p.draft = c.draft
  <1> DEFINE R == {j \in item[i].ref : \A k \in c.ref : ~SameKind(j, k)} \union c.ref
             p == Patched(i, c)
  <1>1. R \in Refs[i] /\ R \subseteq Items
    BY PatchedRefs, RefsType
  <1>2. R \subseteq item[i].ref \union c.ref
    OBVIOUS
  <1>3. p = [item[i] EXCEPT !.ref = R, !.note = IF c.op = "attach" THEN @ ELSE c.note,
                            !.draft = IF c.op = "attach" THEN @ ELSE c.draft, !.rev = @ + 1]
    BY DEF Patched
  <1> HIDE DEF R
  <1>4. PICK r \in Nat : r = item[i].rev + 1
    BY DEF Item
  <1>5. CASE c.op = "attach"
    <2>1. p = [item[i] EXCEPT !.ref = R, !.rev = r]
      BY <1>3, <1>5, <1>4 DEF Item
    <2> HIDE DEF p
    <2>2. p \in Item /\ p.state = item[i].state /\ p.ref = R /\ p.rev = r
      BY <1>1, <2>1 DEF Item
    <2> QED  BY <1>1, <1>2, <1>5, <1>4, <2>2 DEF p
  <1>6. CASE c.op # "attach"
    <2>1. p = [item[i] EXCEPT !.ref = R, !.note = c.note, !.draft = c.draft, !.rev = r]
      BY <1>3, <1>6, <1>4 DEF Item
    <2> HIDE DEF p
    <2>2. c.note \in Note /\ c.draft \in BOOLEAN
      BY DEF Call
    <2>3. p \in Item /\ p.state = item[i].state /\ p.ref = R /\ p.rev = r /\ p.draft = c.draft
      BY <1>1, <2>1, <2>2 DEF Item
    <2> QED  BY <1>1, <1>2, <1>4, <2>3 DEF p
  <1> QED  BY <1>5, <1>6

LEMMA WriteOpKeeps ==
  ASSUME IInv, NEW e \in Editors, Write(e)  PROVE IInv'
  <1> DEFINE c == call[e]  i == c.i
             n == [state |-> "stored", ref |-> c.ref, note |-> c.note, draft |-> c.draft, rev |-> 0]
  <1>1. /\ c \in Call /\ i \in Items /\ c.ref \in Refs[i] /\ c.ref \subseteq Items
        /\ item[i] \in Item /\ item[i].ref \in Refs[i] /\ UNCHANGED left
        /\ c.op = "create" <=> item[i].state = "fresh"
    BY WriteFacts DEF Write
  <1>2. CASE c.op = "create" /\ EndWriting(e, i, n)
    <2>1. n \in Item
      BY <1>1 DEF Item, Call
    <2> QED  BY <1>1, <1>2, <2>1, WriteKeeps
  <1>3. CASE Stored(i) /\ EndWriting(e, i, Patched(i, c))
    <2>1. /\ Patched(i, c) \in Item /\ Patched(i, c).ref \in Refs[i]
          /\ Patched(i, c).state = "stored" /\ Patched(i, c).rev = item[i].rev + 1
      BY <1>1, <1>3, PatchedType DEF Stored
    <2>2. item[i].rev \in Nat
      BY <1>1 DEF Item
    <2> QED  BY <1>1, <1>3, <2>1, <2>2, WriteKeeps DEF Stored
  <1>4. CASE End(e)
    BY <1>1, <1>4, EndKeeps
  <1> QED  BY <1>2, <1>3, <1>4 DEF Write

LEMMA RemoveKeeps ==
  ASSUME IInv, NEW e \in Editors, Remove(e)  PROVE IInv'
  <1> DEFINE c == call[e]  n == [Fresh EXCEPT !.state = "deleted"]
  <1>1. n \in Item /\ n.ref = {} /\ n.state = "deleted"
    BY KindsAssumption DEF Fresh, Item, Note
  <1>2. c.i \in Items /\ item[c.i].state # "fresh"
    BY DEF IInv, TypeOK, CallInv, Sound, Remove
  <1>3. EndWriting(e, c.i, n) /\ UNCHANGED left
    BY DEF Remove
  <1> QED  BY <1>1, <1>2, <1>3, RefsEmpty, WriteKeeps

-----------------------------------------------------------------------------
(* The theorems                                                            *)

LEMMA NextIInv == IInv /\ [Next]_vars => IInv'
  <1> SUFFICES ASSUME IInv, [Next]_vars  PROVE IInv'
    OBVIOUS
  <1>1. CASE Next
    <2> PICK e \in Editors :
          \/ \E i \in Items : \/ Create(e, i) \/ Update(e, i) \/ Attach(e, i)
                              \/ Fill(e, i) \/ Delete(e, i)
          \/ CheckRef(e) \/ Write(e) \/ Scan(e) \/ Remove(e)
      BY <1>1 DEF Next
    <2> QED  BY CreateKeeps, UpdateKeeps, AttachKeeps, FillKeeps, DeleteKeeps,
                CheckRefKeeps, WriteOpKeeps, ScanKeeps, RemoveKeeps
  <1>2. CASE UNCHANGED vars
    BY <1>2 DEF vars, IInv, TypeOK, OneCreator
  <1> QED  BY <1>1, <1>2

\* In every behaviour items and calls have their types, with at most one
\* reference of each kind, and each call under way knows what IInv says: an
\* update or a delete is of an item that was stored, and one creation owns its id.
THEOREM TypeCorrect == Spec => []TypeOK
  <1>1. IInv => TypeOK
    BY DEF IInv
  <1> QED  BY <1>1, InitIInv, NextIInv, PTL DEF Spec

\* What a step does to the items: nothing, or one call's last write.
LEMMA WritingSteps ==
  ASSUME IInv, [Next]_vars
  PROVE  \/ item' = item
         \/ \E e \in Editors : (Write(e) \/ Remove(e))
  <1>1. ASSUME NEW e \in Editors, NEW i \in Items,
               Create(e, i) \/ Update(e, i) \/ Attach(e, i) \/ Fill(e, i) \/ Delete(e, i)
        PROVE  item' = item
    BY <1>1 DEF Create, Update, Attach, Fill, Delete, Begin
  <1>2. ASSUME NEW e \in Editors, CheckRef(e) \/ Scan(e)
        PROVE  item' = item
    BY <1>2 DEF CheckRef, Scan, End
  <1> QED  BY <1>1, <1>2 DEF Next, vars

\* What a write leaves: its item changed as the call says, the others as they were.
LEMMA WriteEffect ==
  ASSUME IInv, NEW e \in Editors, Write(e), item' # item
  PROVE  LET c == call[e] IN
         /\ c.i \in Items
         /\ \A j \in Items \ {c.i} : item'[j] = item[j]
         /\ item'[c.i].state = "stored"
         /\ item[c.i].state \in {"fresh", "stored"}
         /\ item'[c.i].ref \subseteq c.ref \union (IF c.op = "create" THEN {} ELSE item[c.i].ref)
         /\ c.op = "fill" => item[c.i].state = "stored" /\ c.rev = item[c.i].rev
                               /\ item'[c.i].draft = c.draft
         /\ \A d \in Editors \ {e} : call'[d] = [call[d] EXCEPT !.calm = call[d].pc = "idle"]
  <1> DEFINE c == call[e]  i == c.i
             n == [state |-> "stored", ref |-> c.ref, note |-> c.note, draft |-> c.draft, rev |-> 0]
  <1>1. /\ c \in Call /\ i \in Items /\ c.ref \in Refs[i]
        /\ item[i] \in Item /\ item[i].ref \in Refs[i]
        /\ c.op = "create" <=> item[i].state = "fresh"
        /\ item \in [Items -> Item]
    BY WriteFacts DEF Write, IInv, TypeOK
  <1>2. CASE c.op = "create" /\ EndWriting(e, i, n)
    <2>1. n.ref = c.ref /\ n.state = "stored"
      OBVIOUS
    <2> HIDE DEF n
    <2> QED  BY <1>1, <1>2, <2>1 DEF EndWriting
  <1>3. CASE c.op # "create" /\ Stored(i) /\ item[i].rev = c.rev /\ EndWriting(e, i, Patched(i, c))
    <2> DEFINE p == Patched(i, c)
    <2>1. /\ p \in Item /\ p.state = "stored" /\ p.ref \subseteq item[i].ref \union c.ref
          /\ c.op = "fill" => p.draft = c.draft
      BY <1>1, <1>3, PatchedType DEF Stored
    <2> HIDE DEF p
    <2>2. EndWriting(e, i, p)
      BY <1>3 DEF p
    <2> QED  BY <1>1, <1>3, <2>1, <2>2 DEF EndWriting, Stored
  <1>4. CASE End(e)
    BY <1>4 DEF End
  <1> QED  BY <1>2, <1>3, <1>4 DEF Write

LEMMA RemoveEffect ==
  ASSUME IInv, NEW e \in Editors, Remove(e)
  PROVE  LET c == call[e] IN
         /\ c.i \in Items /\ c.op = "delete" /\ c.pc = "remove"
         /\ \A j \in Items \ {c.i} : item'[j] = item[j]
         /\ item'[c.i].state = "deleted"
         /\ \A d \in Editors \ {e} : call'[d] = [call[d] EXCEPT !.calm = call[d].pc = "idle"]
  <1>1. [Fresh EXCEPT !.state = "deleted"].state = "deleted"
    BY DEF Fresh
  <1> QED  BY <1>1 DEF IInv, TypeOK, CallInv, Sound, Remove, EndWriting

\* Only the call that writes can end with a change of the items.
LEMMA OwnWrite ==
  ASSUME IInv, [Next]_vars, NEW e \in Editors, call[e].pc # "idle", call'[e].pc = "idle",
         item' # item
  PROVE  Write(e) \/ Remove(e)
  <1>1. PICK d \in Editors : Write(d) \/ Remove(d)
    BY WritingSteps
  <1>2. CASE d # e
    <2>1. call'[e] = [call[e] EXCEPT !.calm = call[e].pc = "idle"]
      BY <1>1, <1>2, WriteEffect, RemoveEffect
    <2>2. call[e] \in Call
      BY DEF IInv, TypeOK
    <2> QED  BY <2>1, <2>2 DEF Call
  <1> QED  BY <1>1, <1>2

\* A call that no other write disturbed leaves no reference dangling that was not:
\* what assertRefsExist and assertNoBackrefs have seen still holds at the write.
THEOREM CalmCallsKeepReferences == Spec => CalmKeepsReferences
  <1>1. ASSUME IInv, [Next]_vars, NEW e \in Editors, call[e].calm, call[e].pc # "idle",
               call'[e].pc = "idle"
        PROVE  Dangling' \subseteq Dangling
    <2> SUFFICES ASSUME item' # item, NEW i \in Items, NEW j \in Items,
                        item'[i].state = "stored", j \in item'[i].ref, item'[j].state # "stored"
                 PROVE  item[i].state = "stored" /\ j \in item[i].ref /\ item[j].state # "stored"
      BY DEF Dangling, RefersTo, Stored
    <2> DEFINE c == call[e]
    <2>1. CASE Write(e)
      <3>1. /\ c.i \in Items /\ c.ref \subseteq Items /\ c.todo = {} /\ ~c.broken /\ c.pc = "write"
            /\ CheckedSound(c, item)
        BY <1>1, <2>1, WriteFacts DEF Write, CallInv
      <3>2. \A k \in c.ref : item[k].state = "stored"
        BY <1>1, <3>1 DEF CheckedSound
      <3>3. /\ \A k \in Items \ {c.i} : item'[k] = item[k]
            /\ item'[c.i].state = "stored" /\ item[c.i].state \in {"fresh", "stored"}
            /\ item'[c.i].ref \subseteq c.ref \union (IF c.op = "create" THEN {} ELSE item[c.i].ref)
            /\ c.op = "create" <=> item[c.i].state = "fresh"
        BY <1>1, <2>1, WriteEffect, WriteFacts DEF Write
      <3>4. j # c.i /\ item[j].state # "stored" /\ j \notin c.ref
        BY <3>2, <3>3
      <3> QED  BY <3>1, <3>3, <3>4
    <2>2. CASE Remove(e)
      <3>1. /\ c.i \in Items /\ c.pc = "remove" /\ item'[c.i].state = "deleted"
            /\ \A k \in Items \ {c.i} : item'[k] = item[k]
        BY <1>1, <2>2, RemoveEffect
      <3>2. CheckedSound(c, item)
        BY <1>1 DEF IInv, CallInv
      <3>3. item[i].state = "stored" => c.i \notin item[i].ref
        BY <1>1, <3>1, <3>2 DEF CheckedSound
      <3> QED  BY <3>1, <3>3
    <2> QED  BY <1>1, <2>1, <2>2, OwnWrite
  <1> DEFINE A == \A e \in Editors : call[e].calm /\ call[e].pc # "idle" /\ call'[e].pc = "idle"
                                        => Dangling' \subseteq Dangling
  <1>2. IInv /\ [Next]_vars => [A]_vars
    BY <1>1
  <1> QED  BY <1>2, InitIInv, NextIInv, PTL DEF Spec, CalmKeepsReferences

\* A fill that has read a wine before an editor's change writes nothing over it:
\* the rev it read is no longer the wine's.
THEOREM FillsYield == Spec => FillYields
  <1>1. ASSUME IInv, [Next]_vars, NEW e \in Editors, NEW w \in Wines,
               call[e].op = "fill", call'[e].pc = "idle", item'[w] # item[w]
        PROVE  item[w].note = "none" /\ item'[w].draft = item[w].draft
    <2> DEFINE c == call[e]
    <2>1. c.pc = "write" /\ FillSound(c, item)
      BY <1>1 DEF IInv, CallInv, FillSound
    <2>2. Write(e)
      BY <1>1, <2>1, OwnWrite DEF Remove
    <2>3. /\ c.i \in Items /\ \A j \in Items \ {c.i} : item'[j] = item[j]
          /\ item[c.i].state = "stored" /\ c.rev = item[c.i].rev /\ item'[c.i].draft = c.draft
      BY <1>1, <2>2, WriteEffect
    <2>4. w = c.i
      BY <1>1, <2>3 DEF Items
    <2> QED  BY <1>1, <2>1, <2>3, <2>4 DEF FillSound
  <1> DEFINE A == \A e \in Editors, w \in Wines :
                     call[e].op = "fill" /\ call'[e].pc = "idle" /\ item'[w] # item[w]
                        => item[w].note = "none" /\ item'[w].draft = item[w].draft
  <1>2. IInv /\ [Next]_vars => [A]_vars
    BY <1>1
  <1> QED  BY <1>2, InitIInv, NextIInv, PTL DEF Spec, FillYields

-----------------------------------------------------------------------------
(* The refinement of RevStore                                              *)

\* How rows and intents follow from items and calls.
LEMMA MapFacts ==
  ASSUME IInv
  PROVE  /\ Rows \in [Items -> Store!Row] /\ Intents \in [Editors -> Store!Intent]
         /\ \A i \in Items : Rows[i] = RowOf(i) /\ Rows[i].state = item[i].state
         /\ \A e \in Editors : Intents[e] = IntentOf(e)
         /\ \A e \in Editors : ~Patching(e) => Intents[e] = Store!NoIntent
  <1>1. \A i \in Items : RowOf(i) \in Store!Row /\ RowOf(i).state = item[i].state
    BY DEF IInv, TypeOK, Item, RowOf, Store!Row, Fields
  <1>2. \A e \in Editors : IntentOf(e) \in Store!Intent
    <2> TAKE e \in Editors
    <2>1. Patching(e) => call[e].i \in Items
      BY DEF Patching, IInv, TypeOK, CallInv, Sound
    <2>2. (Stored(call[e].i) /\ item[call[e].i].rev = call[e].rev) \in BOOLEAN
      BY DEF Stored
    <2> QED  BY <2>1, <2>2 DEF IntentOf, Store!Intent
  <1>3. \A e \in Editors : ~Patching(e) => IntentOf(e) = Store!NoIntent
    BY DEF IntentOf, Store!NoIntent
  <1> QED  BY <1>1, <1>2, <1>3 DEF Rows, Intents

\* A call that has not begun, or has ended, means to change nothing.
LEMMA IdleIntent == \A e \in Editors : IInv /\ call[e].pc = "idle" => Intents[e] = Store!NoIntent
  BY MapFacts DEF IInv, CallInv, Sound, Patching

LEMMA InitRefines == Init => Store!StoreInit
  <1> SUFFICES ASSUME Init  PROVE Store!StoreInit
    OBVIOUS
  <1>1. IInv
    BY InitIInv
  <1>2. \A i \in Items : item[i].state # "deleted"
    <2>1. PICK stored, refs, drafts : item = Bare(stored, refs, drafts)
      BY Zenon DEF Init
    <2>2. ASSUME NEW i \in Items, NEW d
          PROVE  [Fresh EXCEPT !.state = "stored", !.ref = RefsIn(refs, i), !.draft = d].state = "stored"
      BY DEF Fresh
    <2>3. Fresh.state = "fresh"
      BY DEF Fresh
    <2>4. \A i \in Items : item[i].state \in {"fresh", "stored"}
      BY <2>1, <2>2, <2>3 DEF Bare
    <2> QED  BY <2>4
  <1>3. Intents = [e \in Editors |-> Store!NoIntent]
    <2>1. \A e \in Editors : call[e].pc = "idle"
      BY DEF Init, NoCall
    <2> QED  BY <1>1, <2>1, IdleIntent DEF Intents
  <1> QED  BY <1>1, <1>2, <1>3, MapFacts DEF Store!StoreInit

\* A call that begins reads the row it will patch, and otherwise nothing.
LEMMA BeginRefines ==
  ASSUME IInv, IInv', NEW e \in Editors, NEW c, Begin(e, c), c.pc # "idle",
         c.op \in {"update", "attach", "fill"} =>
            c.i \in Items /\ Stored(c.i) /\ c.rev = item[c.i].rev
  PROVE  Store!StoreNext \/ UNCHANGED Store!storeVars
  <1>1. call[e].pc = "idle" /\ call' = [call EXCEPT ![e] = c] /\ item' = item
    BY DEF Begin
  <1>2. Rows' = Rows
    BY <1>1 DEF Rows, RowOf
  <1>3. Intents[e] = Store!NoIntent
    BY <1>1, IdleIntent
  <1>4. \A d \in Editors \ {e} : Intents'[d] = Intents[d]
    BY <1>1 DEF Intents, IntentOf, Patching, Stored, IInv, TypeOK
  <1>5. call'[e] = c
    BY <1>1 DEF IInv, TypeOK
  <1>6. CASE c.op \in {"update", "attach", "fill"}
    <2>1. Intents'[e] = [key |-> c.i, current |-> TRUE]
      BY <1>1, <1>5, <1>6 DEF Intents, IntentOf, Patching, Stored
    <2>2. Intents' = [Intents EXCEPT ![e] = [key |-> c.i, current |-> TRUE]]
      BY <1>4, <2>1 DEF Intents
    <2>3. Store!ReadRow(e, c.i)
      BY <1>2, <1>3, <1>6, <2>2, MapFacts DEF Store!ReadRow, Stored
    <2> QED  BY <1>6, <2>3 DEF Store!StoreNext
  <1>7. CASE c.op \notin {"update", "attach", "fill"}
    <2>1. Intents'[e] = Intents[e]
      BY <1>3, <1>5, <1>7, IInv' DEF Intents, IntentOf, Patching, Store!NoIntent
    <2>2. Intents' = Intents
      BY <1>4, <2>1 DEF Intents
    <2> QED  BY <1>2, <2>2 DEF Store!storeVars
  <1> QED  BY <1>6, <1>7

\* A step of a call that stores nothing keeps what it means to change, or ends it.
LEMMA QuietRefines ==
  ASSUME IInv, NEW e \in Editors, NEW c, call' = [call EXCEPT ![e] = c], item' = item,
         c = NoCall \/ (c.op = call[e].op /\ c.i = call[e].i /\ c.rev = call[e].rev)
  PROVE  Store!StoreNext \/ UNCHANGED Store!storeVars
  <1>1. Rows' = Rows
    BY DEF Rows, RowOf
  <1>2. \A d \in Editors \ {e} : Intents'[d] = Intents[d]
    BY DEF Intents, IntentOf, Patching, Stored, IInv, TypeOK
  <1>3. call'[e] = c
    BY DEF IInv, TypeOK
  <1>4. CASE c = NoCall
    <2>1. Intents'[e] = Store!NoIntent
      BY <1>3, <1>4 DEF Intents, IntentOf, Patching, NoCall, Store!NoIntent
    <2>2. Intents' = [Intents EXCEPT ![e] = Store!NoIntent]
      BY <1>2, <2>1 DEF Intents
    <2> QED  BY <1>1, <2>2 DEF Store!StoreNext, Store!GiveUp
  <1>5. CASE c.op = call[e].op /\ c.i = call[e].i /\ c.rev = call[e].rev
    <2>1. Intents'[e] = Intents[e]
      BY <1>3, <1>5 DEF Intents, IntentOf, Patching, Stored
    <2>2. Intents' = Intents
      BY <1>2, <2>1 DEF Intents
    <2> QED  BY <1>1, <2>2 DEF Store!storeVars
  <1> QED  BY <1>4, <1>5

\* The row of i changes and the writer is done: an intent of another call on i is
\* as current as the new item's rev makes it, the others stay.
LEMMA WritingMap ==
  ASSUME IInv, IInv', NEW e \in Editors, NEW i \in Items, NEW new \in Item, EndWriting(e, i, new),
         \A d \in Editors \ {e} : Patching(d) /\ call[d].i = i =>
            new.state # "stored" \/ new.rev # call[d].rev
  PROVE  /\ Store!Becomes(i, new.state)
         /\ Store!Outdates(e, i)
  <1>1. /\ item' = [item EXCEPT ![i] = new] /\ item \in [Items -> Item]
        /\ call' = [d \in Editors |-> IF d = e THEN NoCall
                                      ELSE [call[d] EXCEPT !.calm = call[d].pc = "idle"]]
    BY DEF EndWriting, IInv, TypeOK
  <1>2. Store!Becomes(i, new.state)
    <2>1. \A j \in Items \ {i} : Rows'[j] = Rows[j]
      BY <1>1 DEF Rows, RowOf
    <2>2. Rows'[i] \in Store!Row /\ Rows'[i].state = new.state
      BY <1>1 DEF Rows, RowOf, Store!Row, Fields, Item
    <2>3. Rows' = [Rows EXCEPT ![i] = Rows'[i]]
      BY <2>1 DEF Rows
    <2> QED  BY <2>2, <2>3 DEF Store!Becomes
  <1>3. ASSUME NEW d \in Editors
        PROVE  Intents'[d] = IF d = e THEN Store!NoIntent
                             ELSE IF Intents[d].key = i THEN [key |-> i, current |-> FALSE]
                             ELSE Intents[d]
    <2>1. CASE d = e
      BY <1>1, <2>1 DEF Intents, IntentOf, Patching, NoCall, Store!NoIntent
    <2>2. CASE d # e
      <3> DEFINE c == call[d]
      <3>1. c \in Call /\ call'[d] = [c EXCEPT !.calm = c.pc = "idle"]
        BY <1>1, <2>2 DEF IInv, TypeOK
      <3>2. call'[d].op = c.op /\ call'[d].i = c.i /\ call'[d].rev = c.rev
        BY <3>1 DEF Call
      <3>3. CASE ~Patching(d)
        BY <2>2, <3>2, <3>3, KindsAssumption DEF Intents, IntentOf, Patching
      <3>4. CASE Patching(d)
        <4>1. c.i \in Items
          BY <3>4 DEF Patching, IInv, TypeOK, CallInv, Sound
        <4>2. CASE c.i = i
          BY <1>1, <2>2, <3>2, <3>4, <4>2 DEF Intents, IntentOf, Patching, Stored
        <4>3. CASE c.i # i
          BY <1>1, <2>2, <3>2, <3>4, <4>1, <4>3 DEF Intents, IntentOf, Patching, Stored
        <4> QED  BY <4>2, <4>3
      <3> QED  BY <3>3, <3>4
    <2> QED  BY <2>1, <2>2
  <1>4. Intents' = [d \in Editors |-> IF d = e THEN Store!NoIntent
                             ELSE IF Intents[d].key = i THEN [key |-> i, current |-> FALSE]
                             ELSE Intents[d]]
    BY <1>3 DEF Intents
  <1> QED  BY <1>2, <1>4 DEF Store!Outdates

\* A creation inserts, a patch that goes through commits, a refused one gives up.
LEMMA WriteRefines ==
  ASSUME IInv, IInv', NEW e \in Editors, Write(e)
  PROVE  Store!StoreNext \/ UNCHANGED Store!storeVars
  <1> DEFINE c == call[e]  i == c.i
             n == [state |-> "stored", ref |-> c.ref, note |-> c.note, draft |-> c.draft, rev |-> 0]
  <1>1. /\ c \in Call /\ i \in Items /\ c.ref \in Refs[i] /\ c.ref \subseteq Items
        /\ item[i] \in Item /\ item[i].ref \in Refs[i]
        /\ c.op = "create" <=> item[i].state = "fresh"
        /\ c.op \in {"create", "update", "attach", "fill"}
    BY WriteFacts DEF Write
  <1>2. CASE c.op = "create" /\ EndWriting(e, i, n)
    <2>1. n \in Item /\ n.state = "stored"
      BY <1>1 DEF Item, Call
    <2>2. ~Patching(e) /\ item[i].state = "fresh"
      BY <1>1, <1>2 DEF Patching
    <2>3. \A d \in Editors : Patching(d) => call[d].i # i
      BY <2>2 DEF Patching, IInv, CallInv, Sound
    <2> HIDE DEF n
    <2>4. Store!Becomes(i, "stored") /\ Store!Outdates(e, i)
      BY <1>1, <1>2, <2>1, <2>3, WritingMap
    <2>5. Intents' = Intents
      <3>1. \A d \in Editors : Intents[d].key # i
        BY <1>1, <2>3, KindsAssumption DEF Intents, IntentOf
      <3>2. Intents[e] = Store!NoIntent
        BY <2>2, MapFacts
      <3>3. \A d \in Editors : Intents'[d] = Intents[d]
        BY <2>4, <3>1, <3>2 DEF Store!Outdates
      <3> QED  BY <3>3 DEF Intents
    <2>6. Store!Insert(e, i)
      BY <1>1, <2>2, <2>4, <2>5, MapFacts DEF Store!Insert
    <2> QED  BY <1>1, <2>6 DEF Store!StoreNext
  <1>3. CASE c.op # "create" /\ Stored(i) /\ item[i].rev = c.rev /\ EndWriting(e, i, Patched(i, c))
    <2> DEFINE p == Patched(i, c)
    <2>1. p \in Item /\ p.state = "stored" /\ p.rev = item[i].rev + 1
      BY <1>1, <1>3, PatchedType DEF Stored
    <2> HIDE DEF p
    <2>2. EndWriting(e, i, p)
      BY <1>3 DEF p
    <2>3. \A d \in Editors \ {e} : Patching(d) /\ call[d].i = i => p.rev # call[d].rev
      <3> SUFFICES ASSUME NEW d \in Editors, Patching(d), call[d].i = i  PROVE p.rev # call[d].rev
        OBVIOUS
      <3>1. call[d].rev <= item[i].rev
        BY <1>3 DEF Patching, Stored, IInv, CallInv, RevSound
      <3>2. call[d].rev \in Nat /\ item[i].rev \in Nat
        BY <1>1 DEF IInv, TypeOK, Call, Item
      <3> QED  BY <2>1, <3>1, <3>2
    <2>4. Store!Becomes(i, "stored") /\ Store!Outdates(e, i)
      BY <1>1, <2>1, <2>2, <2>3, WritingMap
    <2>5. Intents[e] = [key |-> i, current |-> TRUE]
      BY <1>1, <1>3 DEF Intents, IntentOf, Patching
    <2>6. Store!Commit(e, i)
      BY <1>1, <1>3, <2>4, <2>5, MapFacts DEF Store!Commit, Stored
    <2> QED  BY <1>1, <2>6 DEF Store!StoreNext
  <1>4. CASE End(e)
    BY <1>4, QuietRefines DEF End
  <1> QED  BY <1>2, <1>3, <1>4 DEF Write

LEMMA RemoveRefines ==
  ASSUME IInv, IInv', NEW e \in Editors, Remove(e)
  PROVE  Store!StoreNext
  <1> DEFINE i == call[e].i  n == [Fresh EXCEPT !.state = "deleted"]
  <1>1. n \in Item /\ n.state = "deleted"
    BY KindsAssumption DEF Fresh, Item, Note
  <1>2. i \in Items /\ item[i].state # "fresh" /\ ~Patching(e)
    BY DEF IInv, TypeOK, CallInv, Sound, Remove, Patching
  <1>3. EndWriting(e, i, n)
    BY DEF Remove
  <1> HIDE DEF n
  <1>4. Store!Becomes(i, "deleted") /\ Store!Outdates(e, i)
    BY <1>1, <1>2, <1>3, WritingMap
  <1>5. Store!Drop(e, i)
    BY <1>2, <1>4, MapFacts DEF Store!Drop
  <1> QED  BY <1>2, <1>5 DEF Store!StoreNext

\* Every step of the catalogue is a step of the store or changes nothing of it.
LEMMA NextRefines ==
  ASSUME IInv, IInv', [Next]_vars
  PROVE  Store!StoreNext \/ UNCHANGED Store!storeVars
  <1>1. CASE UNCHANGED vars
    <2>1. item' = item /\ call' = call
      BY <1>1 DEF vars
    <2> QED  BY <2>1 DEF Store!storeVars, Rows, RowOf, Intents, IntentOf, Patching, Stored
  <1>2. ASSUME NEW e \in Editors, NEW i \in Items, Create(e, i) \/ Delete(e, i)
        PROVE  Store!StoreNext \/ UNCHANGED Store!storeVars
    <2>1. PICK c : Begin(e, c) /\ c.pc # "idle" /\ c.op \notin {"update", "attach", "fill"}
      <3>1. CASE Create(e, i)
        <4>1. PICK ref, n, d : Begin(e, Checking("create", i, ref, n, d, 0))
          BY <3>1 DEF Create
        <4> QED  BY <4>1 DEF Checking
      <3>2. CASE Delete(e, i)
        <4>1. PICK pc \in {"remove", "scan"} :
                 Begin(e, [NoCall EXCEPT !.pc = pc, !.op = "delete", !.i = i])
          BY <3>2 DEF Delete
        <4> DEFINE c == [NoCall EXCEPT !.pc = pc, !.op = "delete", !.i = i]
        <4>2. c.pc = pc /\ c.op = "delete"
          BY DEF NoCall
        <4> HIDE DEF c
        <4> QED  BY <4>1, <4>2 DEF c
      <3> QED  BY <1>2, <3>1, <3>2
    <2> QED  BY <2>1, BeginRefines
  <1>3. ASSUME NEW e \in Editors, NEW i \in Items, Update(e, i) \/ Attach(e, i) \/ Fill(e, i)
        PROVE  Store!StoreNext \/ UNCHANGED Store!storeVars
    <2>1. Stored(i)
      BY <1>3 DEF Update, Attach, Fill
    <2>2. PICK c : Begin(e, c) /\ c.pc # "idle" /\ c.i = i /\ c.rev = item[i].rev
      <3>1. CASE Update(e, i)
        <4>1. PICK ref, n, d : Begin(e, Checking("update", i, ref, n, d, item[i].rev))
          BY <3>1 DEF Update
        <4> QED  BY <4>1 DEF Checking
      <3>2. CASE Attach(e, i)
        <4>1. PICK w : Begin(e, Checking("attach", i, {w}, "none", FALSE, item[i].rev))
          BY <3>2 DEF Attach
        <4> QED  BY <4>1 DEF Checking
      <3>3. CASE Fill(e, i)
        <4> DEFINE c == [NoCall EXCEPT !.pc = "write", !.op = "fill", !.i = i, !.note = "label",
                                       !.draft = item[i].draft, !.rev = item[i].rev]
        <4>1. c.pc # "idle" /\ c.i = i /\ c.rev = item[i].rev
          BY DEF NoCall
        <4>2. Begin(e, c)
          BY <3>3 DEF Fill
        <4> HIDE DEF c
        <4> QED  BY <4>1, <4>2
      <3> QED  BY <1>3, <3>1, <3>2, <3>3
    <2> QED  BY <2>1, <2>2, BeginRefines
  <1>4. ASSUME NEW e \in Editors, CheckRef(e)
        PROVE  Store!StoreNext \/ UNCHANGED Store!storeVars
    <2>1. CASE End(e)
      BY <2>1, QuietRefines DEF End
    <2>2. CASE \E t, b, pc : call' = [call EXCEPT ![e] = [call[e] EXCEPT !.todo = t, !.broken = b, !.pc = pc]]
                             /\ item' = item
      <3>1. PICK t, b, pc : call' = [call EXCEPT ![e] = [call[e] EXCEPT !.todo = t, !.broken = b, !.pc = pc]]
        BY <2>2
      <3> DEFINE c == [call[e] EXCEPT !.todo = t, !.broken = b, !.pc = pc]
      <3>2. call' = [call EXCEPT ![e] = c]
        BY <3>1
      <3>3. call[e] \in Call
        BY DEF IInv, TypeOK
      <3>4. c.op = call[e].op /\ c.i = call[e].i /\ c.rev = call[e].rev
        BY <3>3 DEF Call
      <3> HIDE DEF c
      <3> QED  BY <2>2, <3>2, <3>4, QuietRefines
    <2>3. End(e) \/ \E t, b, pc : call' = [call EXCEPT ![e] = [call[e] EXCEPT !.todo = t, !.broken = b, !.pc = pc]]
                                  /\ item' = item
      <3>1. PICK j : LET rest == call[e].todo \ {j}
                         bad  == call[e].broken \/ ~Stored(j)
                     IN  IF rest = {} /\ bad THEN End(e) ELSE
                         /\ call' = [call EXCEPT ![e].todo = rest, ![e].broken = bad,
                                        ![e].pc = IF rest = {} THEN "write" ELSE "check"]
                         /\ UNCHANGED item
        BY <1>4 DEF CheckRef
      <3> DEFINE rest == call[e].todo \ {j}
                 bad  == call[e].broken \/ ~Stored(j)
                 pc   == IF rest = {} THEN "write" ELSE "check"
      <3>2. End(e) \/ (call' = [call EXCEPT ![e].todo = rest, ![e].broken = bad, ![e].pc = pc]
                       /\ item' = item)
        BY <3>1
      <3> HIDE DEF rest, bad, pc
      <3>3. [call EXCEPT ![e].todo = rest, ![e].broken = bad, ![e].pc = pc]
               = [call EXCEPT ![e] = [call[e] EXCEPT !.todo = rest, !.broken = bad, !.pc = pc]]
        BY DEF IInv, TypeOK
      <3>4. CASE End(e)
        BY <3>4
      <3>5. CASE call' = [call EXCEPT ![e] = [call[e] EXCEPT !.todo = rest, !.broken = bad, !.pc = pc]]
                 /\ item' = item
        BY <3>5, Zenon
      <3> QED  BY <3>2, <3>3, <3>4, <3>5
    <2> QED  BY <2>1, <2>2, <2>3
  <1>5. ASSUME NEW e \in Editors, Scan(e)
        PROVE  Store!StoreNext \/ UNCHANGED Store!storeVars
    <2>1. CASE End(e)
      BY <2>1, QuietRefines DEF End
    <2>2. CASE call' = [call EXCEPT ![e].pc = "remove"] /\ item' = item
      <3> DEFINE c == [call[e] EXCEPT !.pc = "remove"]
      <3>1. call' = [call EXCEPT ![e] = c]
        BY <2>2
      <3>2. call[e] \in Call
        BY DEF IInv, TypeOK
      <3>3. c.op = call[e].op /\ c.i = call[e].i /\ c.rev = call[e].rev
        BY <3>2 DEF Call
      <3> HIDE DEF c
      <3> QED  BY <2>2, <3>1, <3>3, QuietRefines
    <2> QED  BY <1>5, <2>1, <2>2 DEF Scan
  <1> QED  BY <1>1, <1>2, <1>3, <1>4, <1>5, WriteRefines, RemoveRefines DEF Next

\* The catalogue implements RevStore for any number of editors and items: its
\* revision numbers make the first writer win and the others give up.
THEOREM CatalogImplementsRevStore == Spec => FirstWriterWins
  <1>1. Init => Store!StoreInit
    BY InitRefines
  <1>2. IInv /\ IInv' /\ [Next]_vars => [Store!StoreNext]_(Store!storeVars)
    BY NextRefines
  <1> QED  BY <1>1, <1>2, InitIInv, NextIInv, PTL DEF Spec, FirstWriterWins, Store!StoreSpec

-----------------------------------------------------------------------------
(* What the abstract store promises holds of the catalogue.                *)

\* No step of the store brings back a row that was deleted: an insertion takes a key
\* nobody has used, a commit a row that is stored.
LEMMA StoreKeepsDeleted ==
  ASSUME [Store!StoreNext]_(Store!storeVars), NEW i \in Items, Rows[i].state = "deleted"
  PROVE  Rows'[i].state = "deleted"
  <1>1. CASE UNCHANGED Store!storeVars
    BY <1>1 DEF Store!storeVars
  <1>2. CASE Store!StoreNext
    <2>1. PICK e \in Editors :
             \/ UNCHANGED Rows
             \/ \E k \in Items : Store!Insert(e, k) \/ Store!Commit(e, k) \/ Store!Drop(e, k)
      BY <1>2 DEF Store!StoreNext, Store!GiveUp, Store!ReadRow
    <2>2. ASSUME NEW k \in Items, NEW st, Store!Becomes(k, st),
                 k = i => st = "deleted"
          PROVE  Rows'[i].state = "deleted"
      <3>1. CASE k = i
        BY <2>2, <3>1 DEF Store!Becomes
      <3>2. CASE k # i
        <4>1. Rows' = [Rows EXCEPT ![k] = Rows'[k]]
          BY <2>2 DEF Store!Becomes
        <4>2. Rows'[i] = [Rows EXCEPT ![k] = Rows'[k]][i]
          BY <4>1
        <4>3. DOMAIN Rows = Items
          BY DEF Rows
        <4> QED  BY <3>2, <4>2, <4>3
      <3> QED  BY <3>1, <3>2
    <2> QED  BY <2>1, <2>2 DEF Store!Insert, Store!Commit, Store!Drop
  <1> QED  BY <1>1, <1>2

\* An item that was deleted never comes back, whatever calls were under way when
\* it was deleted: creations use new ids and patches need the rev they have read.
THEOREM DeletedItemsStay == Spec => DeletedStays
  <1>1. \A i \in Items : Rows[i].state = item[i].state /\ Rows'[i].state = item'[i].state
    BY DEF Rows, RowOf
  <1>2. [Store!StoreNext]_(Store!storeVars)
          => [\A i \in Items : item[i].state = "deleted" => item'[i].state = "deleted"]_vars
    BY <1>1, StoreKeepsDeleted
  <1> QED  BY <1>2, CatalogImplementsRevStore, PTL DEF FirstWriterWins, Store!StoreSpec, DeletedStays
=============================================================================
