----------------------------- MODULE Translation -----------------------------
(* TranslationEngine::translate_subtitle (src/core/translation/engine.rs):    *)
(* terminology first, then the cues in batches, then one more request for     *)
(* what the answers left out, then the texts are put back.  A step is what    *)
(* happens between two awaits, so each consumes one answer of the AI service. *)
(* Cue ids are distinct (uuidv7.rs spaces them by a millisecond) and stand    *)
(* here as the cues' positions.                                               *)
EXTENDS AIClient, TranslationPrompts, FiniteSets, FiniteSetsExt

CONSTANTS
  MaxCues,          \* bound on the cues of a subtitle
  BatchSize,        \* translation.batch_size
  TermAnswers,      \* sequences of [source, target] answered for terminology
  MaxEntries        \* bound on the entries of an answer

\* TranslationEngine::new
Constructible(size) == size # 0

ASSUME TranslationAssumption ==
  /\ MaxCues \in Nat /\ BatchSize \in Nat /\ Constructible(BatchSize) /\ MaxEntries \in Nat
  /\ MaxCues <= Len(CueTexts)

VARIABLES
  n,                \* number of cues
  pc,               \* "start", "terms", "batch", "missing", "ok" or "error"
  chunk,            \* number of the batch in hand
  requested,        \* ids of the request in hand
  strikes,          \* answers to it that were discarded for an unknown id
  translations,     \* id -> text
  batchCount,       \* batch_count
  shown,            \* cues reported as processed
  terminology,      \* effective_terminology
  asked,            \* the prompt of the request in hand
  text,             \* the entries' new texts
  cause,            \* class of the error returned
  requests,         \* history: translation requests issued
  omitted,          \* history: accepted answers that left a requested cue out
  blanked           \* history: the cues accepted answers had a blank text for

engineVars == <<n, pc, chunk, requested, strikes,
                translations, batchCount, shown, terminology, asked, text, cause>>
history == <<requests, omitted, blanked>>
vars == <<clientVars, engineVars, history>>

Cues == 1..n

\* A text answered for a cue: it keeps each of the cue's formatting placeholders
\* exactly once, in whatever order, or loses one.  Both name the cue, so that a
\* text given to another one is told apart; the empty text is the same for all.
Kept(c) == [cue |-> c, form |-> "kept"]
Lost(c) == [cue |-> c, form |-> "lost"]
Blank == [cue |-> 0, form |-> "blank"]

\* Only a text with placeholders to keep can lose one, and an empty one does.
TextsOf(c) == {Kept(c)} \cup (IF c \in Marked THEN {Lost(c)} ELSE {Blank})

-----------------------------------------------------------------------------
(* Answers *)

\* 0 is a blank id, MaxCues + 1 an id nobody asked about.
AnswerEntries == UNION {[id : {c}, text : TextsOf(c)] : c \in 0..(MaxCues + 1)}
Answers == UNION {[1..k -> AnswerEntries] : k \in 0..MaxEntries}

Faulty(a, k, expected) ==
  \/ a[k].id \notin expected
  \/ \E j \in 1..(k - 1) : a[j].id = a[k].id

\* parse_translation_response_partial reports the first faulty entry; an answer
\* that is no JSON of the schema is refused as one with a blank id is.
Verdict(a, expected) ==
  LET faults == {k \in DOMAIN a : Faulty(a, k, expected)}
      first == a[Min(faults)].id
  IN  CASE faults = {}                            -> "accepted"
        [] faults # {} /\ first = 0               -> "malformed"
        [] faults # {} /\ first \in expected      -> "duplicate"
        [] OTHER                                  -> "unknown"

\* Mutant: the ids are sorted, the texts are not.
TextMapInOrder(a) ==
  LET ids == {a[k].id : k \in DOMAIN a}
  IN  [c \in ids |-> a[Cardinality({d \in ids : d <= c})].text]

TextMap(a) ==
  [c \in {a[k].id : k \in DOMAIN a} |-> a[CHOOSE k \in DOMAIN a : a[k].id = c].text]

\* What the parser may return for a request: the engine sees nothing else of an
\* answer.
ParseResults ==
  {[asked |-> e, verdict |-> Verdict(a, e),
    map |-> IF Verdict(a, e) = "accepted" THEN TextMap(a) ELSE <<>>] :
     e \in SUBSET (1..MaxCues), a \in Answers}

-----------------------------------------------------------------------------
(* The engine *)

Chunks == (n + BatchSize - 1) \div BatchSize

\* chunk_ranges
Chunk(k) == {c \in Cues : (k - 1) * BatchSize < c /\ c <= k * BatchSize}

\* missing_translation_indices
Missing(done) == Cues \ DOMAIN done

Init ==
  /\ ClientInit
  /\ n \in 0..MaxCues
  /\ pc = "start"
  /\ translations = <<>> /\ text = <<>> /\ terminology = <<>>
  /\ asked = <<>>
  /\ chunk = 0 /\ requested = {} /\ strikes = 0
  /\ batchCount = 0 /\ shown = 0
  /\ cause = "none"
  /\ requests = 0
  /\ omitted = [c \in 1..MaxCues |-> 0] /\ blanked = {}

Fail(class) ==
  /\ pc' = "error"
  /\ cause' = class
  /\ Hangup
  /\ UNCHANGED <<n, chunk, requested, strikes,
                 translations, batchCount, shown, terminology, asked, text, history>>

\* No target language; nothing to translate; otherwise terms are asked for.
Start ==
  /\ pc = "start"
  /\ \/ pc' = "error" /\ cause' = "config" /\ UNCHANGED clientVars
     \/ n = 0 /\ pc' = "ok" /\ UNCHANGED <<cause, clientVars>>
     \/ n > 0 /\ pc' = "terms" /\ Issue /\ UNCHANGED cause
  /\ asked' = IF pc' = "terms" THEN TerminologyPrompt(Cues) ELSE asked
  /\ UNCHANGED <<n, chunk, requested, strikes,
                 translations, batchCount, shown, terminology, text, history>>

\* A request for the cues ids, in phase, as a further attempt or a new one.
Request(phase, ids, terms) ==
  /\ pc' = phase
  /\ requested' = ids
  /\ asked' = TranslationPrompt(ids, terms)
  /\ requests' = requests + 1
  /\ Issue
  /\ UNCHANGED <<text, cause>>

\* extract_terminology answers; the glossary is laid over the answer.
Terms ==
  /\ pc = "terms"
  /\ Answered
  /\ \E answer \in TermAnswers :
       \/ /\ ~TermsRefused(answer)
          /\ terminology' = Merged(TermMap(answer))
          /\ chunk' = 1 /\ Request("batch", Chunk(1), Merged(TermMap(answer)))
          /\ UNCHANGED <<n, strikes, translations, batchCount, shown, omitted, blanked>>
       \/ TermsRefused(answer) /\ Fail("malformed")

\* The current request is answered, and parsed to verdict and map.
Parses(verdict, map) ==
  /\ Answered
  /\ [asked |-> requested, verdict |-> verdict, map |-> map] \in ParseResults

\* An unknown id discards the answer and repeats the request, once.
RetryUnknown ==
  /\ pc \in {"batch", "missing"}
  /\ strikes = 0
  /\ \/ FailsWith("unknown")
     \/ Parses("unknown", <<>>)
  /\ strikes' = 1
  /\ Request(pc, requested, terminology)
  /\ UNCHANGED <<n, chunk, translations, batchCount, shown, terminology, omitted, blanked>>

\* Mutant: the file fails at the first unknown id.
GiveUpAtOnce ==
  /\ pc \in {"terms", "batch", "missing"}
  /\ \E class \in Failures \cup {"unknown", "malformed", "duplicate"} :
       /\ \/ FailsWith(class)
          \/ pc # "terms" /\ Parses(class, <<>>)
       /\ Fail(class)

\* Any other refusal, a second unknown id or a service error fails the file.
GiveUp ==
  /\ pc \in {"terms", "batch", "missing"}
  /\ \E class \in Failures \cup {"unknown", "malformed", "duplicate"} :
       /\ \/ FailsWith(class)
          \/ pc # "terms" /\ Parses(class, <<>>)
       /\ class = "unknown" => pc = "terms" \/ strikes = 1
       /\ Fail(class)

\* Mutant: the map replaces the translations so far.
ExtendedAfresh(map) == map

\* What an accepted answer adds to the translations.
Extended(map) == Laid(map, translations)

\* restore_inline_formatting, cue by cue, on the engine's own copy; blanks are
\* put in without it.
Restored(done, blanks) == [c \in Cues |-> IF c \in blanks THEN Blank ELSE done[c]]
Restorable(done, blanks) == \A c \in Cues \ blanks : c \in Marked => done[c] = Kept(c)

\* The texts are put back, and the call returns.
Apply(done, blanks) ==
  /\ Hangup
  /\ \/ /\ Restorable(done, blanks)
        /\ pc' = "ok" /\ text' = Restored(done, blanks) /\ UNCHANGED cause
     \/ /\ ~Restorable(done, blanks)
        /\ pc' = "error" /\ cause' = "marker" /\ UNCHANGED text
  /\ UNCHANGED <<requests, requested, asked>>

\* The requests an answer took count as batches.
Counted == batchCount + 1 + strikes

Accept(map) ==
  /\ Parses("accepted", map)
  /\ batchCount' = Counted
  /\ strikes' = 0
  /\ omitted' = [c \in 1..MaxCues |->
                   omitted[c] + (IF c \in requested \ DOMAIN map THEN 1 ELSE 0)]
  /\ blanked' = blanked \cup {c \in DOMAIN map : map[c] = Blank}
  /\ UNCHANGED <<n, terminology>>

\* retry_missing_translations: one more request for all that was left out.
RetryMissing(missing) == Request("missing", missing, terminology)

\* A batch is answered: on to the next one, to the cues left out, or to the end.
BatchDone ==
  /\ pc = "batch"
  /\ \E map \in {r.map : r \in ParseResults} :
       LET done == Extended(map) IN
       /\ Accept(map)
       /\ translations' = done
       /\ shown' = Cardinality(DOMAIN done)
       /\ \/ chunk < Chunks /\ chunk' = chunk + 1 /\ Request("batch", Chunk(chunk + 1), terminology)
          \/ /\ chunk = Chunks /\ UNCHANGED chunk
             /\ \/ Missing(done) # {} /\ RetryMissing(Missing(done))
                \/ Missing(done) = {} /\ Apply(done, {})

\* retry_missing_translations is answered: what it leaves out becomes blank.
MissingDone ==
  /\ pc = "missing"
  /\ \E map \in {r.map : r \in ParseResults} :
       LET done == Extended(map)
           blanks == Missing(done)
       IN
       /\ Accept(map)
       /\ translations' = Laid(done, [c \in blanks |-> Blank])
       /\ shown' = Cardinality(DOMAIN translations')
       /\ UNCHANGED chunk
       /\ Apply(done, blanks)

\* The client alone: a pause, and the request again.
ClientStep == (Backoff \/ Resend) /\ UNCHANGED <<engineVars, history>>

Returned == pc \in {"ok", "error"} /\ UNCHANGED vars

Next ==
  \/ Start \/ Terms \/ RetryUnknown \/ GiveUp \/ BatchDone \/ MissingDone
  \/ ClientStep \/ Returned

\* The runtime polls the call, and every request ends by request_timeout_seconds.
Spec == Init /\ [][Next]_vars /\ WF_vars(Next)

-----------------------------------------------------------------------------
(* Properties *)

\* "missing cue retry falls back to empty text": in a translated subtitle each cue
\* has the text answered for it and no other cue's, and is blank exactly if the
\* service, asked twice, left it out twice, or answered it with an empty text.
TextsInPlace ==
  pc = "ok" => /\ DOMAIN text = Cues
               /\ \A c \in Cues : /\ omitted[c] <= 2
                                  /\ text[c] = Blank <=> omitted[c] = 2 \/ c \in blanked
                                  /\ text[c] # Blank => text[c].cue = c

\* "preserve formatting placeholder exactly once": a text that lost a
\* placeholder never reaches the subtitle.
MarkersKept == pc = "ok" => \A c \in Cues : text[c].form # "lost"

\* "user glossary entries override generated entries", "use these translations
\* exactly": every request for cues, repeated or not, has one line for each of
\* them with all of its placeholders, and the user's terms.
AsksFaithfully ==
  pc \in {"batch", "missing"} =>
    /\ DOMAIN asked.lines = requested
    /\ \A c \in requested : \A i \in DOMAIN asked.lines[c] : asked.lines[c][i] # Newline
    /\ \A c \in requested : \A k \in 0..(Cardinality(Markers(c)) - 1) :
         Cardinality({i \in DOMAIN asked.lines[c] : asked.lines[c][i] = Placeholder(c, k)}) = 1
    /\ \A source \in DOMAIN TermMap(Glossary) :
         asked.terms[source] = TermMap(Glossary)[source]

\* The cues are asked for, left blank and put back as promised.
CuesFaithful == TextsInPlace /\ MarkersKept /\ AsksFaithfully

\* "retry the same batch once": one answer with an unknown id never fails the
\* file, in the request for missing cues as in the batches; the second does.
UnknownForgivenOnce ==
  cause = "unknown" => strikes = 1 \/ requests = 0

\* batch_count is the number of translation requests sent for the file, the
\* repeated ones and the one for missing cues included, and at most two for each
\* batch and two more.
BatchesCounted ==
  /\ pc = "ok" => batchCount = requests
  /\ requests <= 2 * (Chunks + 1)

\* Requests are repeated once and counted.
RequestsAccounted == UnknownForgivenOnce /\ BatchesCounted

\* "Processed cues: <processed>/<total>": what is reported never decreases, and
\* a translated file ends with all of its cues.
ProgressTruthful ==
  [][shown' >= shown /\ (pc' = "ok" => shown' = n)]_vars

\* "Retry applied uniformly across providers": whichever provider is used, a
\* transport failure surfaces only after the request was sent as often as
\* ai.retry_attempts says.
GlitchesMasked == cause = "transport" => attempts + 1 >= RetryAttempts

\* Every call returns.
Terminates == <>(pc \in {"ok", "error"})
=============================================================================
