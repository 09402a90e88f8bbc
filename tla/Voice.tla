------------------------------- MODULE Voice -------------------------------
(***************************************************************************)
(* What is made of a recording's sound: silences and voiced segments       *)
(* (audio/features.py), segments of words (lib/analysis/transcript.ts) and *)
(* who of the two speakers is who (lib/domain/speaker.ts).  A step gives   *)
(* the next frame, word or diarized span; times are counted in frames.     *)
(* The loops over frames and words never look ahead: a step is one round   *)
(* of them, and a reader at any state takes it for the end of the sound.   *)
(* A recording without sound is hush throughout; levels, pitches and texts *)
(* themselves are not computed.                                            *)
(***************************************************************************)
EXTENDS Integers, Sequences, FiniteSets

CONSTANTS Pitches,                      \* Hz of a frame's F0, 0 where it is unvoiced
          SpeakerLabels,                \* n of Transcribe's labels spk_n
          MediumGap, HighGap,           \* SPEAKER_GAP_..._THRESHOLD_HZ
          SilenceMin,                   \* SILENCE_MIN_DURATION_SEC
          MergeGap,                     \* gap_merge_sec
          WordGap,                      \* GAP_SEC
          SilenceUnder,                 \* where rounding puts a difference of exactly the
          MergeOver, PauseOver,         \* limit on its other side: the frames it begins at
          MaxFrames, MaxLevels, MaxSpans, MaxWords      \* bounds

ASSUME VoiceAssumption ==
    /\ Pitches \cup SpeakerLabels \subseteq Nat /\ 0 \in Pitches /\ IsFiniteSet(Pitches)
    /\ {MediumGap, HighGap, SilenceMin, MergeGap, WordGap} \subseteq Nat
    /\ SilenceUnder \cup MergeOver \cup PauseOver \subseteq Nat
    /\ 0 < MediumGap /\ MediumGap <= HighGap
    /\ {MaxFrames, MaxLevels, MaxSpans, MaxWords} \subseteq Nat

VARIABLES hush,                         \* frames' energy: below the threshold or not
          lull,                         \* detect_silences: silences found, cur_start
          track,                        \* frames' pitch
          talk,                         \* _voiced_segments_from_f0: merged, cur_start
          spans,                        \* speaker_labels.segments
          items,                        \* items: words and punctuation
          told                          \* toTranscript: its segments

voiceVars == <<hush, lull, track, talk, spans, items, told>>

Nobody == "nobody"
Speakers == {"speaker_1", "speaker_2"}
Frames == 1 .. MaxFrames
Span == [label : SpeakerLabels, from : Frames, to : Frames]
Item == [kind : {"word", "mark", "untimed"}, label : Nat, from : Nat, to : Nat]

Stretch == [from : Nat, to : Nat]
Segment == [who : Speakers \cup {Nobody}, from : Nat, to : Nat, said : SUBSET Nat]

VoiceTypeOK ==
    /\ hush \in Seq(BOOLEAN) /\ track \in Seq(Pitches)
    /\ spans \in Seq(Span) /\ items \in Seq(Item)
    /\ lull \in [found : SUBSET Stretch, since : 0 .. Len(hush)]
    /\ talk \in [merged : Seq(Stretch), since : 0 .. Len(track)]
    /\ told \in Seq(Segment)

VoiceInit == /\ hush = <<>> /\ lull = [found |-> {}, since |-> 0]
             /\ track = <<>> /\ talk = [merged |-> <<>>, since |-> 0]
             /\ spans = <<>> /\ items = <<>> /\ told = <<>>

-----------------------------------------------------------------------------
(* Frames.                                                                 *)

\* Times are products of floats, or decimals that are read: a difference that equals the
\* limit exactly may come out below it or above.
LongEnough(from, end) == \/ end - from > SilenceMin
                         \/ end - from = SilenceMin /\ from \notin SilenceUnder
Close(to, from) == \/ from - to < MergeGap
                   \/ from - to = MergeGap /\ to \notin MergeOver
Near(to, from) == \/ from - to < WordGap
                  \/ from - to = WordGap /\ to \notin PauseOver

Began(since, i) == IF since = 0 THEN i ELSE since

\* detect_silences: a run ends where the next frame begins.
Silences(end) ==
    IF lull.since # 0 /\ LongEnough(lull.since, end)
    THEN lull.found \cup {[from |-> lull.since, to |-> end - 1]} ELSE lull.found

\* _voiced_segments_from_f0: it ends with its last frame, and short breaks are closed.
Voiced(t, end) ==
    LET merged == t.merged
        run == [from |-> t.since, to |-> end - 1]
    IN  CASE t.since = 0 -> merged
          [] t.since # 0 /\ merged # <<>> /\ Close(merged[Len(merged)].to, t.since) ->
                [merged EXCEPT ![Len(merged)].to = run.to]
          [] OTHER -> Append(merged, run)

-----------------------------------------------------------------------------
(* Words.                                                                  *)

\* normalizeSpeakerLabel
Speaker(label) == CASE label = 0 -> "speaker_1" [] label = 1 -> "speaker_2" [] OTHER -> Nobody

\* toTranscript: a word goes on with the segment before it if the speaker is the same and
\* the pause short; punctuation always does, and what has no time is left out.
Say(w) ==
    LET n == Len(told)
        i == Len(items) + 1
        same == n > 0 /\ told[n].who = Speaker(w.label) /\ Near(told[n].to, w.from)
        goesOn(to) == [told EXCEPT ![n] = [who |-> told[n].who, from |-> told[n].from, to |-> to,
                                           said |-> told[n].said \cup {i}]]
    IN  told' = CASE w.kind = "untimed" \/ (w.kind = "mark" /\ n = 0) -> told
                  [] w.kind = "mark" /\ n > 0 -> goesOn(told[n].to)
                  [] w.kind = "word" /\ same -> goesOn(w.to)
                  [] OTHER -> Append(told, [who |-> Speaker(w.label), from |-> w.from, to |-> w.to,
                                            said |-> {i}])

-----------------------------------------------------------------------------
(* Who is who.                                                             *)

\* toSpeakerSegments; parseTranscribeOutput of session B keeps empty spans too.
LocalSpans(S) == {j \in DOMAIN S : Speaker(S[j].label) # Nobody /\ S[j].from < S[j].to}
CloudSpans(S) == {j \in DOMAIN S : Speaker(S[j].label) # Nobody}

\* medianF0ForSegments, twice the median; a frame in two spans counts twice.
Samples(f0, S, kept, who) ==
    {x \in kept \X DOMAIN f0 : /\ Speaker(S[x[1]].label) = who
                               /\ x[2] \in S[x[1]].from .. S[x[1]].to /\ f0[x[2]] > 0}
UpTo(f0, got, hz) == {x \in got : f0[x[2]] <= hz}
Nth(f0, got, k) ==
    CHOOSE hz \in Pitches : /\ k <= Cardinality(UpTo(f0, got, hz))
                            /\ \A lower \in Pitches :
                                  lower < hz => Cardinality(UpTo(f0, got, lower)) < k
TwiceMedian(f0, got) ==
    LET mid == Cardinality(got) \div 2
    IN  IF Cardinality(got) = 2 * mid THEN Nth(f0, got, mid) + Nth(f0, got, mid + 1)
                                      ELSE 2 * Nth(f0, got, mid + 1)

Unknown == [mapping |-> [s \in Speakers |-> Nobody], confidence |-> "none"]
LowerIsYan(m1, m2) == IF m1 <= m2 THEN [s \in Speakers |-> IF s = "speaker_1" THEN "yan" ELSE "robert"]
                                  ELSE [s \in Speakers |-> IF s = "speaker_1" THEN "robert" ELSE "yan"]
GapSigned(m1, m2) == m1 - m2            \* mutant: without Math.abs
Gap(m1, m2) == IF m1 <= m2 THEN m2 - m1 ELSE m1 - m2

\* mapSpeakers
MapSpeakers(f0, S, kept) ==
    LET got1 == Samples(f0, S, kept, "speaker_1")
        got2 == Samples(f0, S, kept, "speaker_2")
        m1 == TwiceMedian(f0, got1)
        m2 == TwiceMedian(f0, got2)
    IN  IF got1 = {} \/ got2 = {} \/ Gap(m1, m2) < 2 * MediumGap THEN Unknown
        ELSE [mapping |-> LowerIsYan(m1, m2),
              confidence |-> IF Gap(m1, m2) >= 2 * HighGap THEN "high" ELSE "medium"]

\* speakerDisplayLabel
Shown(label, m) == IF m.confidence = "none" THEN Speaker(label) ELSE m.mapping[Speaker(label)]

-----------------------------------------------------------------------------
(* The sound goes on.  The curve of levels, the words, and the pitches     *)
(* with the spans are judged apart, and grow apart.                        *)

NextLevel(q) ==
    LET i == Len(hush) + 1
    IN  /\ i <= MaxLevels /\ track = <<>> /\ spans = <<>> /\ items = <<>>
        /\ hush' = Append(hush, q)
        /\ lull' = IF q THEN [found |-> lull.found, since |-> Began(lull.since, i)]
                        ELSE [found |-> Silences(i), since |-> 0]
        /\ UNCHANGED <<track, talk, spans, items, told>>

NextPitch(hz) ==
    LET i == Len(track) + 1
    IN  /\ i <= MaxFrames /\ spans = <<>> /\ hush = <<>> /\ items = <<>>
        /\ track' = Append(track, hz)
        /\ talk' = IF hz > 0 THEN [merged |-> talk.merged, since |-> Began(talk.since, i)]
                            ELSE [merged |-> Voiced(talk, i), since |-> 0]
        /\ UNCHANGED <<hush, lull, spans, items, told>>

NextSpan(s) == /\ Len(spans) < MaxSpans /\ hush = <<>> /\ items = <<>>
               /\ s.from <= s.to /\ (spans # <<>> => spans[Len(spans)].from <= s.from)
               /\ spans' = Append(spans, s)
               /\ UNCHANGED <<hush, lull, track, talk, items, told>>

\* Words follow one another: one begins where the last one ended, or after a pause.
End == IF told = <<>> THEN 0 ELSE told[Len(told)].to
NextItem(kind, label, pause) ==
    LET w == [kind |-> kind, label |-> label, from |-> End + pause, to |-> End + pause + 1]
    IN  /\ Len(items) < MaxWords /\ hush = <<>> /\ track = <<>> /\ spans = <<>>
        /\ items' = Append(items, w)
        /\ Say(w)
        /\ UNCHANGED <<hush, lull, track, talk, spans>>

VoiceNext == \/ \E q \in BOOLEAN : NextLevel(q)
             \/ \E hz \in Pitches : NextPitch(hz)
             \/ \E s \in Span : NextSpan(s)
             \/ \E label \in SpeakerLabels, pause \in {WordGap, WordGap + 1} : NextItem("word", label, pause)
             \/ \E kind \in {"mark", "untimed"} : NextItem(kind, 0, 0)

VoiceSpec == VoiceInit /\ [][VoiceNext]_voiceVars

-----------------------------------------------------------------------------
\* Silences are the longest stretches below the threshold, and all of them that are longer
\* than the minimum; one of exactly the minimum is there unless it is rounded below it.
SilencesWhole ==
    LET n == Len(hush)
    IN  Silences(n + 1) =
            {r \in [from : 1 .. n, to : 1 .. n] :
                /\ r.from <= r.to /\ LongEnough(r.from, r.to + 1)
                /\ \A i \in r.from .. r.to : hush[i]
                /\ r.from > 1 => ~hush[r.from - 1]
                /\ r.to < n => ~hush[r.to + 1]}

\* Two voiced frames are in one segment exactly if no break between them is too long.
TooLong(i, k) == k - i > 1 /\ ~Close(i, k)
VoicedWhole ==
    LET segments == Voiced(talk, Len(track) + 1)
        speaks == {i \in DOMAIN track : track[i] > 0}
    IN  \A a, b \in speaks :
            a < b => ((\E i \in DOMAIN segments : segments[i].from <= a /\ b <= segments[i].to)
                      <=> \A i \in speaks : a <= i /\ i < b =>
                             \E k \in speaks : i < k /\ k <= b /\ ~TooLong(i, k))

\* The segments say every word once, in order; each is of one speaker without a long
\* pause, and nothing that could go on was cut.  A pause of exactly the limit goes on,
\* but where it is rounded above it.
SaidWhole ==
    LET words == {j \in DOMAIN items : items[j].kind = "word"}
    IN  /\ \A j \in words : \E i \in DOMAIN told : j \in told[i].said
        /\ \A i, k \in DOMAIN told : i < k =>
              \A a \in told[i].said, b \in told[k].said : a < b
        /\ \A i \in DOMAIN told : \A a, b \in told[i].said \cap words :
              /\ Speaker(items[a].label) = told[i].who
              /\ a < b /\ (\A j \in words : j <= a \/ b <= j)
                    => Near(items[a].to, items[b].from)
        /\ \A i \in 2 .. Len(told) :
              told[i].who # told[i - 1].who \/ ~Near(told[i - 1].to, told[i].from)

\* Which of the two voices Transcribe numbers first does not change who is who; a name is
\* shown only beside the other name; and session B and the local run, which read the
\* same output each with its own parser, name the voices alike unless an empty span,
\* which only session B keeps, has a pitch.
Swapped == [j \in DOMAIN spans |->
               [spans[j] EXCEPT !.label = CASE @ = 0 -> 1 [] @ = 1 -> 0 [] OTHER -> @]]
NamesSteady ==
    LET m == MapSpeakers(track, spans, LocalSpans(spans))
        n == MapSpeakers(track, Swapped, LocalSpans(Swapped))
    IN  /\ n.confidence = m.confidence
        /\ m.confidence # "none" =>
              Shown(0, m) = Shown(1, n) /\ Shown(1, m) = Shown(0, n) /\ Shown(0, m) # Shown(1, m)
        /\ (\A j \in DOMAIN spans : spans[j].from = spans[j].to /\ spans[j].from \in DOMAIN track
                                   => track[spans[j].from] = 0)
              => MapSpeakers(track, spans, CloudSpans(spans)) = m

\* What the analysis is told of a recording is what was recorded.
VoiceAsHeard == SilencesWhole /\ VoicedWhole /\ SaidWhole /\ NamesSteady
=============================================================================
