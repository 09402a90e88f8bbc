------------------------------- MODULE Labels -------------------------------
(***************************************************************************)
(* POST /api/labels/analyze: a label photo is read by the model, up to     *)
(* MaxAttempts times (lib/agent/labelDirect.ts), and the fields it left    *)
(* empty are filled from a search and the model's knowledge, except those  *)
(* that contradict what was read or one another (lib/agent/labelEnrich.ts).*)
(* What the model and the search answer is any value of small sets.  A     *)
(* blend of grapes is the number of those that are almost always red, of   *)
(* those that are almost always white and of the others; a note or a tag   *)
(* is the kind of wine its words point to.                                 *)
(***************************************************************************)
EXTENDS Integers, FiniteSets

CONSTANT MaxAttempts                    \* MAX_ATTEMPTS

ASSUME LabelsAssumption == MaxAttempts \in Nat \ {0}

Absent == "absent"
LabelFields == {"type", "grapes", "region", "note", "tags"}     \* ENRICHABLE_FIELDS
Blend(r, w, o) == [red |-> r, white |-> w, other |-> o]
NoBlend == Blend(0, 0, 0)               \* grapes absent
Blends == {NoBlend, Blend(1, 0, 0), Blend(0, 1, 0), Blend(1, 1, 0), Blend(1, 0, 2)}

ReadLabels == [type : {Absent, "red", "white", "rose", "sparkling"},
           grapes : {NoBlend, Blend(1, 0, 0), Blend(0, 1, 0)},
           region : {Absent, "home"}, note : {Absent}, tags : {Absent}]
Replies == [type : {Absent, "red", "white", "orange"}, grapes : Blends,
            region : {Absent, "home", "foreign"},
            note : {Absent, "plain", "red", "rose"}, tags : {Absent, "red", "white"}]
Unread == [type |-> Absent, grapes |-> NoBlend, region |-> Absent, note |-> Absent, tags |-> Absent]

VARIABLES phase,                        \* of the request
          tries,                        \* invocations of the model for the photo
          scanned,                      \* the recognised label
          named, country,               \* its name and its country were read
          foundAny,                     \* the search found something
          label,                        \* the label answered
          sourced                       \* ... with the addresses of the search

labelVars == <<phase, tries, scanned, named, country, foundAny, label, sourced>>

LabelsTypeOK ==
    /\ phase \in {"idle", "reading", "recognized", "searched", "answered", "unrecognized", "error"}
    /\ tries \in 0 .. MaxAttempts
    /\ scanned \in ReadLabels /\ {named, country, foundAny, sourced} \subseteq BOOLEAN
    /\ label.type \in {Absent, "red", "white", "rose", "sparkling"} /\ label.grapes \in Blends

LabelsInit == /\ phase = "idle" /\ tries = 0
              /\ scanned = Unread /\ label = Unread
              /\ named = FALSE /\ country = FALSE /\ foundAny = FALSE /\ sourced = FALSE

-----------------------------------------------------------------------------
(* The contradictions looked for.                                          *)

\* getGrapePrimaryType, hasGrapeTypeConflict: half of the grapes are enough,
\* and to a sparkling wine every grape with a colour of its own is foreign.
GrapesAgainst(type, blend) ==
    LET against == (IF type = "red" THEN 0 ELSE blend.red) + (IF type = "white" THEN 0 ELSE blend.white)
    IN  against > 0 /\ 2 * against >= blend.red + blend.white + blend.other

\* hasTypeConflictInText: only red, white and rose wines are judged.
TextAgainst(type, words) == /\ type \in {"red", "white", "rose"}
                            /\ words \in {"red", "white", "rose"} \ {type}

\* detectConflicts, rules 1 to 5: against what was read.
AgainstRead(reply) ==
    LET known == scanned.type
        note == known # Absent /\ TextAgainst(known, reply.note)
        tags == known # Absent /\ TextAgainst(known, reply.tags)
    IN  {f \in LabelFields :
            \/ f = "type" /\ known # Absent /\ reply.type \notin {Absent, known}
            \/ f = "note" /\ note
            \/ f = "tags" /\ (note \/ tags)
            \/ f = "region" /\ country /\ reply.region = "foreign"
            \/ f = "grapes" /\ (note \/ tags \/ (known # Absent /\ GrapesAgainst(known, reply.grapes)))}

\* Rule 6: the reply's grapes against the reply's own type.
AgainstItself(reply, found) ==
    IF reply.type # Absent /\ "type" \notin found /\ GrapesAgainst(reply.type, reply.grapes)
    THEN {"grapes", "type", "note", "tags"} ELSE {}

ConflictsRead(reply) == AgainstRead(reply)      \* mutant: without rule 6
DetectConflicts(reply) == AgainstRead(reply) \cup AgainstItself(reply, AgainstRead(reply))

Empty(f) == IF f = "grapes" THEN NoBlend ELSE Absent

\* findMissingFields; the merge leaves out a type the schema does not know.
Filled(reply) == {f \in LabelFields \ DetectConflicts(reply) :
                     /\ scanned[f] = Empty(f) /\ reply[f] # Empty(f)
                     /\ f = "type" => reply.type # "orange"}

-----------------------------------------------------------------------------
PhotoGiven == /\ phase = "idle" /\ phase' = "reading"
              /\ UNCHANGED <<tries, scanned, named, country, foundAny, label, sourced>>

\* The image cannot be read: the route answers an error.
ImageLost == /\ phase = "reading" /\ tries = 0 /\ phase' = "error"
             /\ UNCHANGED <<tries, scanned, named, country, foundAny, label, sourced>>

ReadOnceMore == /\ phase = "reading"    \* mutant: a limit of retries, not of invocations
                /\ tries' = tries + 1
                /\ phase' = IF tries' > MaxAttempts THEN "unrecognized" ELSE "reading"
                /\ UNCHANGED <<scanned, named, country, foundAny, label, sourced>>
\* The invocation throws, or its text is not a label.
ReadWrongly == /\ phase = "reading"
               /\ tries' = tries + 1
               /\ phase' = IF tries' = MaxAttempts THEN "unrecognized" ELSE "reading"
               /\ UNCHANGED <<scanned, named, country, foundAny, label, sourced>>

\* The model can also answer, in form, that it cannot read the label.
ReadAsNothing == /\ phase = "reading"
                 /\ tries' = tries + 1
                 /\ phase' = "unrecognized"
                 /\ UNCHANGED <<scanned, named, country, foundAny, label, sourced>>

ReadRightly == /\ phase = "reading"
               /\ tries' = tries + 1
               /\ phase' = "recognized"
               /\ scanned' \in ReadLabels /\ named' \in BOOLEAN /\ country' \in BOOLEAN
               /\ label' = scanned'
               /\ UNCHANGED <<foundAny, sourced>>

\* Without a name nothing is looked for: answered as it was read.
NotEnriched == /\ phase = "recognized" /\ ~named
               /\ phase' = "answered"
               /\ UNCHANGED <<tries, scanned, named, country, foundAny, label, sourced>>

\* A search that fails or finds nothing leaves the model to its knowledge.
SearchWine == /\ phase = "recognized" /\ named
              /\ phase' = "searched" /\ foundAny' \in BOOLEAN
              /\ UNCHANGED <<tries, scanned, named, country, label, sourced>>

EnrichLabel(reply) ==
    /\ phase = "searched"
    /\ phase' = "answered"
    /\ LET filled == Filled(reply)
       IN  /\ label' = [f \in LabelFields |-> IF f \in filled THEN reply[f] ELSE scanned[f]]
           /\ sourced' = (foundAny /\ filled # {})
    /\ UNCHANGED <<tries, scanned, named, country, foundAny>>

LabelsNext == \/ PhotoGiven \/ ImageLost \/ ReadWrongly \/ ReadAsNothing \/ ReadRightly
              \/ NotEnriched \/ SearchWine
              \/ \E reply \in Replies : EnrichLabel(reply)

LabelsSpec == LabelsInit /\ [][LabelsNext]_labelVars

-----------------------------------------------------------------------------
(* A wine that is answered carries no mixture of two wines: grapes that    *)
(* were filled in do not contradict the type, read or filled in; words     *)
(* filled in do not contradict the type that was read; what was read is    *)
(* kept; and the search is named as a source only for what was filled in.  *)
(* (Grapes that were read are not compared with a type filled in: the      *)
(* rules look at the reply only.)                                          *)
FilledConsistent ==
    phase = "answered" =>
        /\ scanned.grapes = NoBlend /\ label.type # Absent => ~GrapesAgainst(label.type, label.grapes)
        /\ \A f \in {"note", "tags"} : ~TextAgainst(scanned.type, label[f])
        /\ \A f \in LabelFields : scanned[f] # Empty(f) => label[f] = scanned[f]
        /\ sourced => foundAny /\ label # scanned
=============================================================================
