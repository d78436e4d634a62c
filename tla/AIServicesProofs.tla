--------------------------- MODULE AIServicesProofs ---------------------------
(***************************************************************************)
(* TLAPS proofs about the two users of the AI clients.  First the          *)
(* translation engine: retries, counts, progress, prompts and texts, for   *)
(* every provider, retry limit, batch size and number of cues.  Then the   *)
(* calls of the match analysis: the cache, the errors and the prompts, for *)
(* every configuration, request, answer and number of callers.             *)
(***************************************************************************)
EXTENDS Translation, AnalysisCalls, FiniteSetTheorems, SequenceTheorems, NaturalsInduction,
        WellFoundedInduction, TLAPS

Typed ==
  /\ n \in Nat /\ attempts \in Nat
  /\ strikes \in 0..1 /\ batchCount \in Nat /\ requests \in Nat /\ chunk \in Nat
  /\ pc \in {"start", "terms", "batch", "missing", "ok", "error"}

\* The client works only while the engine waits for it.
IdleClient == pc \in {"start", "ok", "error"} => call = "idle"

\* An error ends the call.
ErrorEnds == cause # "none" => pc = "error"

\* The requests sent so far are the batches counted and those in hand, and each
\* batch took at most two.
InHand ==
  /\ pc \in {"start", "terms"} => requests = 0 /\ batchCount = 0 /\ strikes = 0
  /\ pc = "terms" => n > 0
  /\ pc \in {"batch", "missing"} => requests = batchCount + 1 + strikes
  /\ pc = "batch" => chunk >= 1 /\ chunk <= Chunks /\ batchCount <= 2 * (chunk - 1)
  /\ pc = "missing" => batchCount <= 2 * Chunks

IInv == Typed /\ IdleClient /\ ErrorEnds /\ InHand
          /\ BatchesCounted /\ UnknownForgivenOnce /\ GlitchesMasked

\* chunk_ranges: the number of batches is a number, and positive if there are cues.
LEMMA ChunksPositive ==
  ASSUME NEW m \in Nat
  PROVE  /\ (m + BatchSize - 1) \div BatchSize \in Nat
         /\ m > 0 => (m + BatchSize - 1) \div BatchSize >= 1
<1> DEFINE q == (m + BatchSize - 1) \div BatchSize
<1>1. BatchSize \in Nat /\ BatchSize >= 1
  BY TranslationAssumption DEF Constructible
<1>2. q \in Int
  BY <1>1
<1>3. BatchSize * q <= m + BatchSize - 1 /\ m + BatchSize - 1 < BatchSize * q + BatchSize
  BY <1>1, <1>2, Z3T(30)
<1> HIDE DEF q
<1>4. q >= 0
  <2>1. SUFFICES ASSUME q <= -1 PROVE FALSE
    BY <1>2
  <2>2. BatchSize * q <= -BatchSize
    BY <2>1, <1>1, <1>2, Z3T(30)
  <2> QED
    BY <2>2, <1>1, <1>2, <1>3
<1>5. m > 0 => q >= 1
  <2>1. SUFFICES ASSUME m > 0, q = 0 PROVE FALSE
    BY <1>2, <1>4
  <2> QED
    BY <2>1, <1>1, <1>3
<1> QED
  BY <1>2, <1>4, <1>5 DEF q

LEMMA ChunksTyped == ASSUME n \in Nat PROVE Chunks \in Nat /\ (n > 0 => Chunks >= 1)
  BY ChunksPositive DEF Chunks

\* The parser's verdicts are not the client's.
LEMMA VerdictTyped ==
  ASSUME NEW a, NEW e
  PROVE  Verdict(a, e) # "transport"
  BY DEF Verdict

\* A transport failure is surfaced only when the provider's rule forbids a retry.
LEMMA TransportExhausts ==
  ASSUME attempts \in Nat, FailsWith("transport")
  PROVE  attempts + 1 >= RetryAttempts
<1>1. RetryAttempts \in Nat
  BY ClientAssumption
<1>2. PICK f \in Failures : ~Retries(f) /\ "transport" \in ErrorClasses(f)
  BY DEF FailsWith
<1>3. f = "transport"
  BY <1>2 DEF ErrorClasses
<1> QED
  BY <1>1, <1>2, <1>3 DEF Retries

LEMMA InitOK == ASSUME Init PROVE IInv
<1>1. n \in Nat
  BY TranslationAssumption DEF Init
<1>2. Chunks \in Nat
  BY <1>1, ChunksTyped
<1> QED
  BY <1>1, <1>2 DEF Init, ClientInit, IInv, Typed, IdleClient, ErrorEnds, InHand,
     BatchesCounted, UnknownForgivenOnce, GlitchesMasked

\* Failing keeps what was counted.
LEMMA FailOK ==
  ASSUME IInv, NEW class, Fail(class),
         class = "unknown" => strikes = 1 \/ requests = 0,
         class = "transport" => attempts + 1 >= RetryAttempts
  PROVE  IInv'
<1>1. Chunks \in Nat /\ Chunks' = Chunks
  BY ChunksTyped DEF IInv, Typed, Fail, Chunks
<1> QED
  BY <1>1 DEF Fail, Hangup, history, IInv, Typed, IdleClient, ErrorEnds, InHand,
     BatchesCounted, UnknownForgivenOnce, GlitchesMasked

\* Accepting an answer counts the requests it took.
LEMMA AcceptOK ==
  ASSUME IInv, NEW map, Accept(map), pc \in {"batch", "missing"}
  PROVE  /\ batchCount' = requests
         /\ batchCount' \in Nat /\ strikes' = 0
         /\ n' = n /\ Chunks' = Chunks /\ Chunks \in Nat
         /\ cause = "none"
         /\ pc = "batch" => batchCount' <= 2 * chunk
         /\ batchCount' <= 2 * (Chunks + 1)
<1>1. Chunks \in Nat /\ Chunks' = Chunks
  BY ChunksTyped DEF IInv, Typed, Accept, Chunks
<1>2. n' = n /\ strikes' = 0 /\ batchCount' = batchCount + 1 + strikes
  BY DEF Accept, Counted
<1>3. cause = "none"
  BY DEF IInv, ErrorEnds
<1> QED
  BY <1>1, <1>2, <1>3 DEF IInv, Typed, InHand, BatchesCounted

\* Applying the texts ends the call with all requests counted.
LEMMA ApplyOK ==
  ASSUME IInv, NEW map, Accept(map), pc \in {"batch", "missing"},
         NEW done, NEW blanks, Apply(done, blanks), chunk' = chunk
  PROVE  IInv'
<1>1. /\ batchCount' = requests /\ batchCount' \in Nat /\ strikes' = 0
      /\ n' = n /\ Chunks' = Chunks /\ Chunks \in Nat /\ cause = "none"
      /\ batchCount' <= 2 * (Chunks + 1)
  BY AcceptOK
<1>2. requests' = requests /\ call' = "idle" /\ attempts' = attempts
  BY DEF Apply, Hangup
<1>3. (pc' = "ok" /\ cause' = "none") \/ (pc' = "error" /\ cause' = "marker")
  BY <1>1 DEF Apply
<1> QED
  BY <1>1, <1>2, <1>3 DEF IInv, Typed, IdleClient, ErrorEnds, InHand,
     BatchesCounted, UnknownForgivenOnce, GlitchesMasked

\* Sending the next request keeps the count.
LEMMA RequestOK ==
  ASSUME IInv, NEW map, Accept(map), pc = "batch",
         NEW phase, NEW ids, Request(phase, ids, terminology),
         \/ phase = "batch" /\ chunk < Chunks /\ chunk' = chunk + 1
         \/ phase = "missing" /\ chunk = Chunks /\ chunk' = chunk
  PROVE  IInv'
<1>1. /\ batchCount' = requests /\ batchCount' \in Nat /\ strikes' = 0
      /\ n' = n /\ Chunks' = Chunks /\ Chunks \in Nat /\ cause = "none"
      /\ batchCount' <= 2 * chunk
  BY AcceptOK
<1>2. /\ requests' = requests + 1 /\ attempts' = 0 /\ cause' = cause /\ pc' = phase
  BY DEF Request, Issue
<1> QED
  BY <1>1, <1>2 DEF IInv, Typed, IdleClient, ErrorEnds, InHand,
     BatchesCounted, UnknownForgivenOnce, GlitchesMasked

\* Every step of the engine or the client preserves the invariant.
LEMMA StepOK == ASSUME IInv, [Next]_vars PROVE IInv'
<1> USE DEF IInv
<1>0. Chunks \in Nat /\ (n > 0 => Chunks >= 1)
  BY ChunksTyped DEF Typed
<1>1. CASE Start
  <2>1. n' = n /\ Chunks' = Chunks
    BY <1>1 DEF Start, Chunks
  <2> QED
    BY <1>0, <1>1, <2>1 DEF Start, Issue, clientVars, history, Typed, IdleClient,
       ErrorEnds, InHand, BatchesCounted, UnknownForgivenOnce, GlitchesMasked
<1>2. CASE Terms
  <2>1. PICK answer \in TermAnswers :
          \/ Fail("malformed")
          \/ /\ chunk' = 1 /\ Request("batch", Chunk(1), Merged(TermMap(answer)))
             /\ UNCHANGED <<n, strikes, translations, batchCount, shown, omitted>>
    BY <1>2 DEF Terms
  <2>2. CASE Fail("malformed")
    BY <2>2, FailOK
  <2>3. CASE Request("batch", Chunk(1), Merged(TermMap(answer))) /\ chunk' = 1
               /\ UNCHANGED <<n, strikes, translations, batchCount, shown, omitted>>
    <3>1. n' = n /\ Chunks' = Chunks /\ pc = "terms"
      BY <1>2, <2>3 DEF Chunks, Terms
    <3>2. pc' = "batch" /\ requests' = requests + 1 /\ attempts' = 0 /\ cause' = cause
      BY <2>3 DEF Request, Issue
    <3> QED
      BY <1>0, <2>3, <3>1, <3>2 DEF Typed, IdleClient, ErrorEnds, InHand,
         BatchesCounted, UnknownForgivenOnce, GlitchesMasked
  <2> QED
    BY <2>1, <2>2, <2>3
<1>3. CASE RetryUnknown
  <2>1. n' = n /\ Chunks' = Chunks
    BY <1>3 DEF RetryUnknown, Chunks
  <2>2. /\ pc' = pc /\ requests' = requests + 1 /\ attempts' = 0 /\ cause' = cause
        /\ strikes = 0 /\ strikes' = 1 /\ chunk' = chunk /\ batchCount' = batchCount
        /\ pc \in {"batch", "missing"}
    BY <1>3 DEF RetryUnknown, Request, Issue
  <2> QED
    BY <1>0, <2>1, <2>2 DEF Typed, IdleClient, ErrorEnds, InHand,
       BatchesCounted, UnknownForgivenOnce, GlitchesMasked
<1>4. CASE GiveUp
  <2>1. PICK class \in Failures \cup {"unknown", "malformed", "duplicate"} :
          /\ FailsWith(class) \/ (pc # "terms" /\ Parses(class, <<>>))
          /\ class = "unknown" => pc = "terms" \/ strikes = 1
          /\ Fail(class)
    BY <1>4 DEF GiveUp
  <2>2. class = "unknown" => strikes = 1 \/ requests = 0
    BY <2>1 DEF InHand
  <2>3. class = "transport" => attempts + 1 >= RetryAttempts
    <3>1. class = "transport" => ~Parses(class, <<>>)
      <4> SUFFICES ASSUME Parses("transport", <<>>) PROVE FALSE
        OBVIOUS
      <4> DEFINE r == [asked |-> requested, verdict |-> "transport", map |-> <<>>]
      <4>1. r \in ParseResults
        BY DEF Parses
      <4> HIDE DEF r
      <4>2. PICK e \in SUBSET (1..MaxCues), a \in Answers :
              r = [asked |-> e, verdict |-> Verdict(a, e),
                   map |-> IF Verdict(a, e) = "accepted" THEN TextMap(a) ELSE <<>>]
        BY <4>1 DEF ParseResults
      <4>3. r.verdict = Verdict(a, e)
        BY <4>2
      <4>4. r.verdict = "transport"
        BY DEF r
      <4> QED
        BY <4>3, <4>4, VerdictTyped
    <3> QED
      BY <2>1, <3>1, TransportExhausts DEF Typed
  <2> QED
    BY <2>1, <2>2, <2>3, FailOK
<1>5. CASE BatchDone
  <2>1. PICK map \in {r.map : r \in ParseResults} :
          /\ Accept(map)
          /\ \/ chunk < Chunks /\ chunk' = chunk + 1 /\ Request("batch", Chunk(chunk + 1), terminology)
             \/ /\ chunk = Chunks /\ chunk' = chunk
                /\ \/ Request("missing", Missing(Extended(map)), terminology)
                   \/ Apply(Extended(map), {})
    BY <1>5 DEF BatchDone, RetryMissing
  <2>2. pc = "batch"
    BY <1>5 DEF BatchDone
  <2>3. CASE chunk < Chunks /\ chunk' = chunk + 1 /\ Request("batch", Chunk(chunk + 1), terminology)
    BY <2>1, <2>2, <2>3, RequestOK
  <2>4. CASE chunk = Chunks /\ chunk' = chunk /\ Request("missing", Missing(Extended(map)), terminology)
    BY <2>1, <2>2, <2>4, RequestOK
  <2>5. CASE chunk' = chunk /\ Apply(Extended(map), {})
    BY <2>1, <2>2, <2>5, ApplyOK
  <2> QED
    BY <2>1, <2>3, <2>4, <2>5
<1>6. CASE MissingDone
  <2>1. PICK map \in {r.map : r \in ParseResults} :
          /\ Accept(map) /\ chunk' = chunk
          /\ Apply(Extended(map), Missing(Extended(map)))
    BY <1>6 DEF MissingDone
  <2>2. pc = "missing"
    BY <1>6 DEF MissingDone
  <2> QED
    BY <2>1, <2>2, ApplyOK
<1>7. CASE ClientStep
  <2>1. n' = n /\ Chunks' = Chunks
    BY <1>7 DEF ClientStep, engineVars, Chunks
  <2>2. call # "idle"
    BY <1>7 DEF ClientStep, Backoff, Resend
  <2>3. attempts' \in Nat
    BY <1>7 DEF ClientStep, Backoff, Resend, Typed
  <2> QED
    BY <1>0, <1>7, <2>1, <2>2, <2>3 DEF ClientStep, engineVars, history, Typed, IdleClient,
       ErrorEnds, InHand, BatchesCounted, UnknownForgivenOnce, GlitchesMasked
<1>8. CASE UNCHANGED vars
  <2>1. Chunks' = Chunks
    BY <1>8 DEF vars, engineVars, Chunks
  <2> QED
    BY <1>8, <2>1 DEF vars, engineVars, clientVars, history, Typed, IdleClient,
       ErrorEnds, InHand, BatchesCounted, UnknownForgivenOnce, GlitchesMasked
<1> QED
  BY <1>1, <1>2, <1>3, <1>4, <1>5, <1>6, <1>7, <1>8 DEF Next, Returned

\* The inductive invariant behind the three results below.
THEOREM TranslationInvariant == Spec => []IInv
  BY InitOK, StepOK, PTL DEF Spec

\* translate_batch_with_unknown_retry: whatever the service answers and however
\* many cues there are, batch_count is on success the number of requests sent,
\* never more than two for each batch and two more; and an unknown cue id fails
\* the file only if the same request met one before.
THEOREM RequestsAreAccounted == Spec => []RequestsAccounted
  BY TranslationInvariant, PTL DEF IInv, RequestsAccounted

\* The four retry loops surface a transport failure only after
\* ai.retry_attempts requests.
THEOREM GlitchesAreMasked == Spec => []GlitchesMasked
  BY TranslationInvariant, PTL DEF IInv

-----------------------------------------------------------------------------
(* Prompts. *)

\* push_format_marker numbers the markers of a text from zero: the numbers are
\* those below their count, each of one marker.
LEMMA MarkersNumbered ==
  ASSUME NEW M, IsFiniteSet(M), M \subseteq Nat,
         NEW k \in 0..(Cardinality(M) - 1)
  PROVE  /\ \E i \in M : Cardinality({j \in M : j < i}) = k
         /\ \A i, h \in M : Cardinality({j \in M : j < i}) = k /\ Cardinality({j \in M : j < h}) = k => i = h
<1> DEFINE Below(i) == {j \in M : j < i}
           f == [i \in M |-> Cardinality(Below(i))]
           R == 0..(Cardinality(M) - 1)
<1>c. Cardinality(M) \in Nat
  BY FS_CardinalityType
<1>1. ASSUME NEW i \in M
      PROVE  IsFiniteSet(Below(i)) /\ Cardinality(Below(i)) \in Nat /\ Cardinality(Below(i)) < Cardinality(M)
  <2>1. Below(i) \in SUBSET M /\ i \notin Below(i)
    BY <1>1
  <2>2. IsFiniteSet(Below(i)) /\ Cardinality(Below(i)) <= Cardinality(M) /\ Cardinality(M) # Cardinality(Below(i))
    BY <1>1, <2>1, FS_Subset
  <2> HIDE DEF Below
  <2> QED
    BY <1>c, <2>2, FS_CardinalityType
<1>2. ASSUME NEW i \in M, NEW h \in M, i < h
      PROVE  Cardinality(Below(i)) < Cardinality(Below(h))
  <2>1. Below(i) \in SUBSET Below(h) /\ i \in Below(h) /\ i \notin Below(i)
    <3>1. \A j \in M : j \in Nat
      OBVIOUS
    <3>2. \A j \in M : j < i => j < h
      BY <1>2, <3>1
    <3>3. ~(i < i)
      BY <1>2, <3>1
    <3> QED
      BY <1>2, <3>2, <3>3
  <2> HIDE DEF Below
  <2>2. Cardinality(Below(i)) <= Cardinality(Below(h)) /\ Cardinality(Below(h)) # Cardinality(Below(i))
    BY <1>1, <2>1, FS_Subset
  <2> QED
    BY <1>1, <2>2
<1>3. ASSUME NEW i \in M, NEW h \in M, Cardinality(Below(i)) = Cardinality(Below(h))
      PROVE  i = h
  <2> HIDE DEF Below
  <2>1. i \in Nat /\ h \in Nat /\ Cardinality(Below(i)) \in Nat
    BY <1>1
  <2>2. ~(i < h) /\ ~(h < i)
    BY <1>2, <1>3, <2>1
  <2> QED
    BY <2>1, <2>2
<1>4. f \in Injection(M, R)
  <2> HIDE DEF Below
  <2>1. f \in [M -> R]
    BY <1>1, <1>c
  <2>2. \A i, h \in M : f[i] = f[h] => i = h
    BY <1>3
  <2> QED
    BY <2>1, <2>2 DEF Injection, IsInjective
<1>5. IsFiniteSet(R) /\ Cardinality(R) = Cardinality(M)
  <2> DEFINE c == Cardinality(M)
  <2>1. c \in Nat
    BY <1>c
  <2> HIDE DEF c
  <2>2. IsFiniteSet(0..(c - 1)) /\ Cardinality(0..(c - 1)) = IF 0 > c - 1 THEN 0 ELSE (c - 1) - 0 + 1
    BY <2>1, FS_Interval
  <2>3. IsFiniteSet(0..(c - 1)) /\ Cardinality(0..(c - 1)) = c
    BY <2>1, <2>2
  <2> QED
    BY <2>3 DEF c
<1>6. f \in Surjection(M, R)
  <2> HIDE DEF f, R
  <2> QED
    BY <1>4, <1>5, FS_Injection
<1>7. PICK i \in M : f[i] = k
  BY <1>6 DEF Surjection
<1>8. Cardinality(Below(i)) = k
  BY <1>7
<1> QED
  BY <1>3, <1>8

\* A prompt's line for a cue is one line, with each of the cue's placeholders once.
LEMMA LineFaithful ==
  ASSUME NEW c \in DOMAIN CueTexts, NEW line, line = OneLine(PromptText(c))
  PROVE  /\ \A i \in DOMAIN line : line[i] # Newline
         /\ \A k \in 0..(Cardinality(Markers(c)) - 1) :
              Cardinality({i \in DOMAIN line : line[i] = Placeholder(c, k)}) = 1
<1> DEFINE t == CueTexts[c]
           M == Markers(c)
           B(i) == Cardinality({j \in M : j < i})
<1>1. DOMAIN t = 1..Len(t) /\ Len(t) \in Nat
  BY TextsAssumption
<1>2. M \subseteq DOMAIN t /\ IsFiniteSet(M) /\ M \subseteq Nat
  <2>1. M \subseteq DOMAIN t
    BY DEF Markers
  <2>2. IsFiniteSet(DOMAIN t)
    <3>1. IsFiniteSet(1..Len(t))
      <4> HIDE DEF t
      <4> QED
        BY <1>1, FS_Interval
    <3> QED
      BY <1>1, <3>1
  <2>3. M \in SUBSET (DOMAIN t)
    BY <2>1
  <2>4. IsFiniteSet(M)
    <3> HIDE DEF M, t
    <3> QED
      BY <2>2, <2>3, FS_Subset
  <2> QED
    BY <1>1, <2>1, <2>4
<1>3. /\ DOMAIN PromptText(c) = DOMAIN t
      /\ \A i \in DOMAIN t :
           PromptText(c)[i] = IF i \in M THEN Placeholder(c, B(i)) ELSE Word(t[i])
  BY DEF PromptText, Markers
<1> HIDE DEF M, t
<1>4. /\ DOMAIN line = DOMAIN t
      /\ \A i \in DOMAIN t :
           line[i] = IF PromptText(c)[i] = Newline THEN Space ELSE PromptText(c)[i]
  BY <1>3 DEF OneLine
<1>5. \A x, y : Placeholder(c, x) # Word(y)
  BY DEF Placeholder, Word
<1>6. Newline # Space
  BY DEF Newline, Space, Word
<1>7. \A x, y : Placeholder(c, x) = Placeholder(c, y) => x = y
  BY DEF Placeholder
<1>8. \A i \in DOMAIN t : \A k : line[i] = Placeholder(c, k) <=> i \in M /\ B(i) = k
  <2> HIDE DEF B
  <2> QED
    BY <1>3, <1>4, <1>5, <1>7 DEF Newline, Space
<1>9. ASSUME NEW k \in 0..(Cardinality(M) - 1)
      PROVE  Cardinality({i \in DOMAIN line : line[i] = Placeholder(c, k)}) = 1
  <2>1. PICK i \in M : B(i) = k
    BY <1>2, <1>9, MarkersNumbered
  <2>2. \A h \in M : B(h) = k => h = i
    BY <1>2, <1>9, <2>1, MarkersNumbered
  <2> HIDE DEF B
  <2>3. {h \in DOMAIN line : line[h] = Placeholder(c, k)} = {i}
    BY <1>2, <1>4, <1>8, <2>1, <2>2
  <2> QED
    BY <2>3, FS_Singleton
<1>10. \A i \in DOMAIN line : line[i] # Newline
  BY <1>4, <1>6
<1> QED
  BY <1>9, <1>10 DEF M

\* merge_terminology keeps the user's terms.
LEMMA MergedKeepsGlossary ==
  ASSUME NEW generated, NEW source \in DOMAIN TermMap(Glossary)
  PROVE  Merged(generated)[source] = TermMap(Glossary)[source]
<1> DEFINE g == TermMap(Glossary)
<1> HIDE DEF g
<1> QED
  BY DEF Merged, Laid, g

-----------------------------------------------------------------------------
(* Cues. *)

\* The cues of the first k batches.
Behind(k) == {c \in Cues : c <= k * BatchSize}

\* The cues of S were left out of one answer, all others of none.
Tally(S) == \A c \in 1..MaxCues : omitted[c] = IF c \in S THEN 1 ELSE 0

CueTypes ==
  /\ n \in 0..MaxCues /\ DOMAIN translations \subseteq Cues
  /\ shown = Cardinality(DOMAIN translations)

\* Each cue behind is translated, or was left out once.
Collected ==
  /\ pc \in {"batch", "missing"} =>
       /\ \A c \in DOMAIN translations : translations[c] \in TextsOf(c)
       /\ blanked = {c \in DOMAIN translations : translations[c] = Blank}
  /\ pc \in {"start", "terms"} => translations = <<>> /\ text = <<>> /\ Tally({}) /\ blanked = {}
  /\ pc = "batch" =>
       /\ requested = Chunk(chunk)
       /\ DOMAIN translations \subseteq Behind(chunk - 1)
       /\ Tally(Behind(chunk - 1) \ DOMAIN translations)
  /\ pc = "missing" => requested = Missing(translations) /\ Tally(requested)

Finished ==
  /\ pc = "ok" => DOMAIN translations = Cues
  /\ TextsInPlace /\ MarkersKept

\* The prompt of the request in hand, and the user's terms in it.
Asking ==
  pc \in {"batch", "missing"} =>
    /\ asked = TranslationPrompt(requested, terminology)
    /\ \A source \in DOMAIN TermMap(Glossary) : terminology[source] = TermMap(Glossary)[source]

CueInv == CueTypes /\ Collected /\ Finished /\ Asking

\* chunk_ranges: every cue is in one batch.
LEMMA BatchesCover ==
  ASSUME n \in Nat
  PROVE  /\ Behind(0) = {} /\ Behind(Chunks) = Cues
         /\ \A k \in Nat \ {0} : Behind(k) = Behind(k - 1) \cup Chunk(k) /\ Behind(k - 1) \cap Chunk(k) = {}
<1>b. BatchSize \in Nat /\ BatchSize >= 1
  BY TranslationAssumption DEF Constructible
<1>1. Behind(0) = {}
  BY <1>b DEF Behind, Cues
<1>2. Behind(Chunks) = Cues
  <2> DEFINE q == (n + BatchSize - 1) \div BatchSize
  <2>1. q \in Int
    BY <1>b
  <2>2. n + BatchSize - 1 < BatchSize * q + BatchSize
    BY <1>b, <2>1, Z3T(30)
  <2>3. BatchSize * q \in Int /\ q * BatchSize = BatchSize * q
    <3> HIDE DEF q
    <3> QED
      BY <1>b, <2>1, Z3T(30)
  <2> DEFINE p == q * BatchSize
  <2>4. p \in Int /\ n <= p
    <3>1. p = BatchSize * q
      BY <2>3
    <3> HIDE DEF p, q
    <3> DEFINE r == BatchSize * q
    <3>2. r \in Int /\ n + BatchSize - 1 < r + BatchSize /\ p = r
      BY <2>2, <2>3, <3>1
    <3> HIDE DEF r
    <3> QED
      BY <1>b, <3>2
  <2>5. Behind(Chunks) = {c \in 1..n : c <= p}
    BY DEF Behind, Chunks, Cues
  <2> HIDE DEF p
  <2> QED
    BY <2>4, <2>5 DEF Cues
<1>3. ASSUME NEW k \in Nat \ {0}
      PROVE  Behind(k) = Behind(k - 1) \cup Chunk(k) /\ Behind(k - 1) \cap Chunk(k) = {}
  <2> DEFINE hi == k * BatchSize
             lo == (k - 1) * BatchSize
  <2>1. hi \in Int /\ lo \in Int /\ hi = lo + BatchSize
    BY <1>b, Z3T(30)
  <2>2. /\ Behind(k) = {c \in Cues : c <= hi} /\ Behind(k - 1) = {c \in Cues : c <= lo}
        /\ Chunk(k) = {c \in Cues : lo < c /\ c <= hi}
    BY DEF Behind, Chunk
  <2> HIDE DEF hi, lo
  <2> QED
    BY <1>b, <2>1, <2>2 DEF Cues
<1> QED
  BY <1>1, <1>2, <1>3

\* parse_translation_response_partial accepts only texts of cues asked for.
LEMMA AcceptedAreRequested ==
  ASSUME NEW map, Parses("accepted", map)
  PROVE  DOMAIN map \subseteq requested /\ \A c \in DOMAIN map : map[c] \in TextsOf(c)
<1> DEFINE r == [asked |-> requested, verdict |-> "accepted", map |-> map]
<1>1. r \in ParseResults
  BY DEF Parses
<1> HIDE DEF r
<1>2. PICK e \in SUBSET (1..MaxCues), a \in Answers :
        r = [asked |-> e, verdict |-> Verdict(a, e),
             map |-> IF Verdict(a, e) = "accepted" THEN TextMap(a) ELSE <<>>]
  BY <1>1 DEF ParseResults
<1>3. r.asked = requested /\ r.verdict = "accepted" /\ r.map = map
  BY DEF r
<1>4. r.asked = e /\ r.verdict = Verdict(a, e)
      /\ r.map = IF Verdict(a, e) = "accepted" THEN TextMap(a) ELSE <<>>
  BY <1>2
<1>5. e = requested /\ Verdict(a, e) = "accepted" /\ map = TextMap(a)
  BY <1>3, <1>4
<1>6. \A k \in DOMAIN a : ~Faulty(a, k, e)
  <2> DEFINE faults == {k \in DOMAIN a : Faulty(a, k, e)}
             first == a[Min(faults)].id
  <2>1. Verdict(a, e) = CASE faults = {}                       -> "accepted"
                          [] faults # {} /\ first = 0          -> "malformed"
                          [] faults # {} /\ first \in e        -> "duplicate"
                          [] OTHER                             -> "unknown"
    BY DEF Verdict
  <2> HIDE DEF faults, first
  <2>2. faults = {}
    BY <1>5, <2>1
  <2> QED
    BY <2>2 DEF faults
<1>7. \A k \in DOMAIN a : a[k].id \in e /\ a[k].text \in TextsOf(a[k].id)
  <2>1. \A k \in DOMAIN a : a[k].text \in TextsOf(a[k].id)
    <3>1. PICK k \in 0..MaxEntries : a \in [1..k -> AnswerEntries]
      BY DEF Answers
    <3>2. \A x \in AnswerEntries : x.text \in TextsOf(x.id)
      BY DEF AnswerEntries
    <3> QED
      BY <3>1, <3>2
  <2> QED
    BY <1>6, <2>1 DEF Faulty
<1>8. /\ DOMAIN map = {a[k].id : k \in DOMAIN a}
      /\ \A c \in DOMAIN map : map[c] = a[CHOOSE k \in DOMAIN a : a[k].id = c].text
  BY <1>5 DEF TextMap
<1>9. ASSUME NEW c \in DOMAIN map PROVE map[c] \in TextsOf(c)
  <2>1. \E k \in DOMAIN a : a[k].id = c
    BY <1>8
  <2>2. PICK k \in DOMAIN a : a[k].id = c /\ k = CHOOSE j \in DOMAIN a : a[j].id = c
    BY <2>1
  <2> QED
    BY <1>7, <1>8, <2>2
<1> QED
  BY <1>5, <1>7, <1>8, <1>9

LEMMA LaidFacts ==
  ASSUME NEW f, NEW g
  PROVE  DOMAIN Laid(f, g) = DOMAIN f \cup DOMAIN g
  BY DEF Laid

LEMMA CueInit == ASSUME Init PROVE CueInv
<1>1. DOMAIN translations = {} /\ n \in 0..MaxCues
  BY DEF Init
<1>2. CueTypes
  BY <1>1, FS_EmptySet DEF Init, CueTypes
<1> QED
  BY <1>2 DEF Init, CueInv, Collected, Tally, Finished, TextsInPlace, MarkersKept, Asking

\* What an accepted answer to a batch adds.
LEMMA BatchCollects ==
  ASSUME IInv, CueInv, pc = "batch", NEW map, Accept(map), NEW done, done = Extended(map)
  PROVE  /\ DOMAIN done \subseteq Behind(chunk) /\ DOMAIN translations \subseteq DOMAIN done
         /\ \A c \in DOMAIN done : done[c] \in TextsOf(c)
         /\ blanked' = {c \in DOMAIN done : done[c] = Blank}
         /\ \A c \in 1..MaxCues : omitted'[c] = IF c \in Behind(chunk) \ DOMAIN done THEN 1 ELSE 0
<1>1. n \in Nat /\ chunk \in Nat \ {0}
  BY DEF IInv, Typed, InHand
<1>2. Behind(chunk) = Behind(chunk - 1) \cup Chunk(chunk) /\ Behind(chunk - 1) \cap Chunk(chunk) = {}
  BY <1>1, BatchesCover
<1>3. /\ requested = Chunk(chunk) /\ DOMAIN translations \subseteq Behind(chunk - 1)
      /\ Tally(Behind(chunk - 1) \ DOMAIN translations)
      /\ \A c \in DOMAIN translations : translations[c] \in TextsOf(c)
      /\ blanked = {c \in DOMAIN translations : translations[c] = Blank}
  BY DEF CueInv, Collected
<1>4. DOMAIN map \subseteq requested /\ \A c \in DOMAIN map : map[c] \in TextsOf(c)
  BY AcceptedAreRequested DEF Accept
<1>5. /\ DOMAIN done = DOMAIN map \cup DOMAIN translations
      /\ \A c \in DOMAIN done : done[c] = IF c \in DOMAIN map THEN map[c] ELSE translations[c]
  <2>1. done = [c \in DOMAIN map \cup DOMAIN translations |->
                  IF c \in DOMAIN map THEN map[c] ELSE translations[c]]
    BY DEF Extended, Laid
  <2> QED
    BY <2>1
<1>6. \A c \in 1..MaxCues :
        omitted'[c] = omitted[c] + (IF c \in requested \ DOMAIN map THEN 1 ELSE 0)
  BY DEF Accept
<1>7. \A c \in 1..MaxCues : omitted[c] = IF c \in Behind(chunk - 1) \ DOMAIN translations THEN 1 ELSE 0
  BY <1>3 DEF Tally
<1> DEFINE old == Behind(chunk - 1)
           all == Behind(chunk)
           now == Chunk(chunk)
<1> HIDE DEF old, all, now
<1>8. ASSUME NEW c \in 1..MaxCues
      PROVE  omitted'[c] = IF c \in all \ DOMAIN done THEN 1 ELSE 0
  <2>1. c \in all \ DOMAIN done <=> (c \in now \ DOMAIN map) \/ (c \in old \ DOMAIN translations)
    BY <1>2, <1>3, <1>4, <1>5 DEF old, all, now
  <2>2. ~(c \in now /\ c \in old)
    BY <1>2 DEF old, now
  <2>3. omitted'[c] = (IF c \in old \ DOMAIN translations THEN 1 ELSE 0)
                        + (IF c \in now \ DOMAIN map THEN 1 ELSE 0)
    BY <1>3, <1>6, <1>7, <1>8 DEF old, now
  <2> QED
    BY <2>1, <2>2, <2>3
<1>9. blanked' = {c \in DOMAIN done : done[c] = Blank}
  <2>1. blanked' = blanked \cup {c \in DOMAIN map : map[c] = Blank}
    BY DEF Accept
  <2>2. DOMAIN map \cap DOMAIN translations = {}
    BY <1>2, <1>3, <1>4
  <2> QED
    BY <1>3, <1>5, <2>1, <2>2
<1>10. \A c \in DOMAIN done : done[c] \in TextsOf(c)
  BY <1>3, <1>4, <1>5
<1> QED
  BY <1>2, <1>3, <1>4, <1>5, <1>8, <1>9, <1>10 DEF all

\* And to the request for the cues left out.
LEMMA MissingCollects ==
  ASSUME IInv, CueInv, pc = "missing", NEW map, Accept(map), NEW done, done = Extended(map)
  PROVE  /\ DOMAIN done \subseteq Cues /\ DOMAIN translations \subseteq DOMAIN done
         /\ \A c \in DOMAIN done : done[c] \in TextsOf(c)
         /\ blanked' = {c \in DOMAIN done : done[c] = Blank}
         /\ \A c \in Cues : /\ omitted'[c] \in 0..2
                            /\ omitted'[c] = 2 <=> c \notin DOMAIN done
<1>1. /\ requested = Cues \ DOMAIN translations /\ DOMAIN translations \subseteq Cues
      /\ \A c \in 1..MaxCues : omitted[c] = IF c \in requested THEN 1 ELSE 0
      /\ \A c \in DOMAIN translations : translations[c] \in TextsOf(c)
      /\ blanked = {c \in DOMAIN translations : translations[c] = Blank}
  BY DEF CueInv, CueTypes, Collected, Missing, Tally
<1>2. DOMAIN map \subseteq requested /\ \A c \in DOMAIN map : map[c] \in TextsOf(c)
  BY AcceptedAreRequested DEF Accept
<1>3. /\ DOMAIN done = DOMAIN map \cup DOMAIN translations
      /\ \A c \in DOMAIN done : done[c] = IF c \in DOMAIN map THEN map[c] ELSE translations[c]
  <2>1. done = [c \in DOMAIN map \cup DOMAIN translations |->
                  IF c \in DOMAIN map THEN map[c] ELSE translations[c]]
    BY DEF Extended, Laid
  <2> QED
    BY <2>1
<1>4. \A c \in 1..MaxCues :
        omitted'[c] = omitted[c] + (IF c \in requested \ DOMAIN map THEN 1 ELSE 0)
  BY DEF Accept
<1>5. Cues \subseteq 1..MaxCues
  BY TranslationAssumption DEF CueInv, CueTypes, Cues
<1>6. ASSUME NEW c \in Cues
      PROVE  omitted'[c] \in 0..2 /\ (omitted'[c] = 2 <=> c \notin DOMAIN done)
  <2>1. omitted'[c] = (IF c \in requested THEN 1 ELSE 0)
                        + (IF c \in requested \ DOMAIN map THEN 1 ELSE 0)
    BY <1>1, <1>4, <1>5, <1>6
  <2>2. c \notin DOMAIN done <=> c \in requested /\ c \notin DOMAIN map
    BY <1>1, <1>2, <1>3, <1>6
  <2> QED
    BY <2>1, <2>2
<1>7. blanked' = {c \in DOMAIN done : done[c] = Blank}
  <2>1. blanked' = blanked \cup {c \in DOMAIN map : map[c] = Blank}
    BY DEF Accept
  <2>2. DOMAIN map \cap DOMAIN translations = {}
    BY <1>1, <1>2
  <2> QED
    BY <1>1, <1>3, <2>1, <2>2
<1>8. \A c \in DOMAIN done : done[c] \in TextsOf(c)
  BY <1>1, <1>2, <1>3
<1> QED
  BY <1>1, <1>2, <1>3, <1>6, <1>7, <1>8

\* The texts put back are those collected, and blanks for the rest.
LEMMA ApplyFinishes ==
  ASSUME CueInv, n' = n, NEW done, Apply(done, Cues \ DOMAIN done),
         \A c \in DOMAIN done : done[c] \in TextsOf(c),
         blanked' = {c \in DOMAIN done : done[c] = Blank}, DOMAIN done \subseteq Cues,
         \A c \in Cues : omitted'[c] \in 0..2 /\ (omitted'[c] = 2 <=> c \notin DOMAIN done),
         DOMAIN translations' = Cues, shown' = Cardinality(DOMAIN translations')
  PROVE  CueInv'
<1>1. Cues' = Cues /\ n' \in 0..MaxCues
  BY DEF Cues, CueInv, CueTypes
<1>2. CueTypes'
  BY <1>1 DEF CueTypes
<1>3. CASE pc' = "error"
  BY <1>2, <1>3 DEF CueInv, Collected, Finished, TextsInPlace, MarkersKept, Asking
<1>4. CASE pc' # "error"
  <2>1. pc' = "ok" /\ text' = Restored(done, Cues \ DOMAIN done) /\ Restorable(done, Cues \ DOMAIN done)
    BY <1>4 DEF Apply
  <2>2. DOMAIN text' = Cues /\ \A c \in Cues : text'[c] = IF c \in DOMAIN done THEN done[c] ELSE Blank
    BY <2>1 DEF Restored
  <2>3. \A c \in Cues : c \in DOMAIN done /\ c \in Marked => done[c] = Kept(c)
    BY <2>1 DEF Restorable
  <2>4. ASSUME NEW c \in Cues
        PROVE  /\ omitted'[c] <= 2 /\ (text'[c] = Blank <=> omitted'[c] = 2 \/ c \in blanked')
               /\ text'[c] # Blank => text'[c].cue = c
               /\ text'[c].form # "lost"
    <3>1. omitted'[c] <= 2 /\ (omitted'[c] = 2 <=> c \notin DOMAIN done)
      OBVIOUS
    <3>2. CASE c \notin DOMAIN done
      <4>1. text'[c] = Blank
        BY <2>2, <3>2
      <4>2. Blank.form # "lost"
        BY DEF Blank
      <4> QED
        BY <3>1, <3>2, <4>1, <4>2
    <3>3. CASE c \in DOMAIN done
      <4>1. text'[c] = done[c] /\ (c \in blanked' <=> done[c] = Blank) /\ omitted'[c] # 2
        BY <2>2, <3>1, <3>3
      <4>2. done[c] \in {Kept(c), Blank}
        BY <2>3, <3>3 DEF TextsOf
      <4>3. Kept(c).cue = c /\ Kept(c).form # "lost" /\ Blank.form # "lost"
        BY DEF Kept, Blank
      <4> QED
        BY <3>1, <4>1, <4>2, <4>3
    <3> QED
      BY <3>2, <3>3
  <2>5. TextsInPlace'
    BY <1>1, <2>2, <2>4 DEF TextsInPlace
  <2>6. MarkersKept'
    BY <1>1, <2>4 DEF MarkersKept
  <2> QED
    BY <1>1, <1>2, <2>1, <2>5, <2>6 DEF CueInv, Collected, Finished, Asking
<1> QED
  BY <1>3, <1>4

\* Failing leaves the translations collected so far.
LEMMA FailLeaves ==
  ASSUME CueInv, NEW class, Fail(class)
  PROVE  CueInv'
  BY DEF Fail, CueInv, CueTypes, Cues, Collected, Finished, TextsInPlace, MarkersKept, Asking

LEMMA CueStep == ASSUME IInv, CueInv, [Next]_vars PROVE CueInv'
<1>n. n \in Nat /\ n \in 0..MaxCues
  BY DEF IInv, Typed, CueInv, CueTypes
<1>s. ASSUME n' = n, translations' = translations, shown' = shown PROVE CueTypes'
  BY <1>s DEF CueInv, CueTypes, Cues
<1>1. CASE Start
  <2>1. /\ pc = "start" /\ pc' \in {"error", "ok", "terms"}
        /\ UNCHANGED <<n, translations, shown, text, omitted, blanked>> /\ (pc' = "ok" => n = 0)
    BY <1>1 DEF Start, history
  <2>2. translations = <<>> /\ text = <<>> /\ Tally({}) /\ blanked = {}
    BY <2>1 DEF CueInv, Collected
  <2>3. Collected' /\ Asking'
    BY <2>1, <2>2 DEF Collected, Tally, Asking
  <2>4. pc' = "ok" => Cues' = {} /\ DOMAIN text' = {} /\ DOMAIN translations' = {}
    BY <2>1, <2>2 DEF Cues
  <2>5. Finished'
    BY <2>4 DEF Finished, TextsInPlace, MarkersKept
  <2> QED
    BY <1>s, <2>1, <2>3, <2>5 DEF CueInv
<1>2. CASE Terms
  <2>1. PICK answer \in TermAnswers :
          \/ Fail("malformed")
          \/ /\ terminology' = Merged(TermMap(answer))
             /\ chunk' = 1 /\ Request("batch", Chunk(1), Merged(TermMap(answer)))
             /\ UNCHANGED <<n, translations, shown, omitted, blanked>>
    BY <1>2 DEF Terms
  <2>2. CASE Fail("malformed")
    BY <2>2, FailLeaves
  <2> DEFINE terms == Merged(TermMap(answer))
  <2>3. CASE terminology' = terms /\ chunk' = 1 /\ Request("batch", Chunk(1), terms)
               /\ UNCHANGED <<n, translations, shown, omitted, blanked>>
    <3>t. \A source \in DOMAIN TermMap(Glossary) : terms[source] = TermMap(Glossary)[source]
      BY MergedKeepsGlossary
    <3> HIDE DEF terms
    <3>1. pc' = "batch" /\ requested' = Chunk(1) /\ asked' = TranslationPrompt(Chunk(1), terms)
      BY <2>3 DEF Request
    <3>2. translations = <<>> /\ Tally({}) /\ blanked = {}
      BY <1>2 DEF Terms, CueInv, Collected
    <3>3. Cues' = Cues /\ Behind(0)' = {} /\ Behind(0) = {} /\ Chunk(1)' = Chunk(1)
      BY <1>n, <2>3, BatchesCover DEF Cues, Behind, Chunk
    <3>4. Collected'
      <4>1. chunk' - 1 = 0
        BY <2>3
      <4>2. requested' = Chunk(chunk)'
        BY <2>3, <3>1, <3>3 DEF Chunk
      <4>3. Behind(chunk - 1)' = {}
        BY <3>3, <4>1 DEF Behind
      <4>4. DOMAIN translations' = {}
        BY <2>3, <3>2
      <4>5. Tally(Behind(chunk - 1) \ DOMAIN translations)'
        BY <2>3, <3>2, <4>3 DEF Tally
      <4>6. blanked' = {}
        BY <2>3, <3>2
      <4> QED
        BY <3>1, <4>2, <4>3, <4>4, <4>5, <4>6 DEF Collected
    <3>5. Asking'
      BY <2>3, <3>t, <3>1 DEF Asking
    <3> QED
      BY <1>s, <2>3, <3>1, <3>4, <3>5 DEF CueInv, Finished, TextsInPlace, MarkersKept
  <2> QED
    BY <2>1, <2>2, <2>3
<1>3. CASE RetryUnknown
  <2>1. /\ pc \in {"batch", "missing"} /\ pc' = pc /\ requested' = requested
        /\ asked' = TranslationPrompt(requested, terminology)
        /\ UNCHANGED <<n, chunk, translations, shown, terminology, omitted, blanked>>
    BY <1>3 DEF RetryUnknown, Request
  <2>2. Collected'
    BY <2>1 DEF CueInv, Collected, Chunk, Behind, Cues, Missing, Tally
  <2>3. Asking'
    BY <2>1 DEF CueInv, Asking
  <2> QED
    BY <1>s, <2>1, <2>2, <2>3 DEF CueInv, Finished, TextsInPlace, MarkersKept
<1>4. CASE GiveUp
  BY <1>4, FailLeaves DEF GiveUp
<1>5. CASE BatchDone
  <2>1. PICK map \in {r.map : r \in ParseResults} :
          /\ Accept(map) /\ translations' = Extended(map)
          /\ shown' = Cardinality(DOMAIN Extended(map))
          /\ \/ chunk < Chunks /\ chunk' = chunk + 1 /\ Request("batch", Chunk(chunk + 1), terminology)
             \/ /\ chunk = Chunks /\ chunk' = chunk
                /\ \/ Request("missing", Missing(Extended(map)), terminology)
                   \/ Missing(Extended(map)) = {} /\ Apply(Extended(map), {})
    BY <1>5 DEF BatchDone, RetryMissing
  <2>2. pc = "batch"
    BY <1>5 DEF BatchDone
  <2> DEFINE done == Extended(map)
  <2>3. /\ DOMAIN done \subseteq Behind(chunk) /\ DOMAIN translations \subseteq DOMAIN done
        /\ \A c \in DOMAIN done : done[c] \in TextsOf(c)
        /\ blanked' = {c \in DOMAIN done : done[c] = Blank}
        /\ \A c \in 1..MaxCues : omitted'[c] = IF c \in Behind(chunk) \ DOMAIN done THEN 1 ELSE 0
    BY <2>1, <2>2, BatchCollects
  <2>4. n' = n /\ terminology' = terminology /\ Cues' = Cues
    BY <2>1 DEF Accept, Cues
  <2>a. asked = TranslationPrompt(requested, terminology)
          /\ \A source \in DOMAIN TermMap(Glossary) : terminology[source] = TermMap(Glossary)[source]
    BY <2>2 DEF CueInv, Asking
  <2>c. chunk \in Nat
    BY DEF IInv, Typed
  <2>d. translations' = done /\ shown' = Cardinality(DOMAIN done)
    BY <2>1
  <2> HIDE DEF done
  <2>5. CueTypes'
    BY <1>n, <2>d, <2>3, <2>4 DEF CueTypes, Behind
  <2>6. CASE chunk' = chunk + 1 /\ Request("batch", Chunk(chunk + 1), terminology)
    <3>1. /\ pc' = "batch" /\ requested' = Chunk(chunk + 1)
          /\ asked' = TranslationPrompt(Chunk(chunk + 1), terminology)
      BY <2>6 DEF Request
    <3>2. chunk' - 1 = chunk
      BY <2>6, <2>c
    <3>3. Behind(chunk - 1)' = Behind(chunk)
      BY <2>4, <3>2 DEF Behind
    <3>4. Chunk(chunk)' = Chunk(chunk + 1)
      BY <2>4, <2>6 DEF Chunk
    <3>5. Tally(Behind(chunk - 1) \ DOMAIN translations)'
      BY <2>d, <2>3, <3>3 DEF Tally
    <3>6. Collected'
      BY <2>d, <2>3, <3>1, <3>3, <3>4, <3>5 DEF Collected
    <3>7. Asking'
      BY <2>a, <2>4, <3>1 DEF Asking
    <3> QED
      BY <2>5, <3>1, <3>6, <3>7 DEF CueInv, Finished, TextsInPlace, MarkersKept
  <2>7. CASE chunk = Chunks /\ Request("missing", Missing(done), terminology)
    <3>1. /\ pc' = "missing" /\ requested' = Missing(done)
          /\ asked' = TranslationPrompt(Missing(done), terminology)
      BY <2>7 DEF Request
    <3>2. Behind(chunk) = Cues
      BY <1>n, <2>7, BatchesCover
    <3>3. Missing(done) = Cues \ DOMAIN done /\ Missing(translations)' = Cues \ DOMAIN done
      BY <2>d, <2>4 DEF Missing
    <3>4. Tally(requested)'
      BY <2>3, <3>1, <3>2, <3>3 DEF Tally
    <3>5. Collected'
      BY <2>d, <2>3, <3>1, <3>3, <3>4 DEF Collected
    <3>6. Asking'
      BY <2>a, <2>4, <3>1 DEF Asking
    <3> QED
      BY <2>5, <3>1, <3>5, <3>6 DEF CueInv, Finished, TextsInPlace, MarkersKept
  <2>8. CASE chunk = Chunks /\ Missing(done) = {} /\ Apply(done, {})
    <3>1. Behind(chunk) = Cues
      BY <1>n, <2>8, BatchesCover
    <3>2. DOMAIN done = Cues
      BY <2>3, <2>8, <3>1 DEF Missing
    <3>3. Apply(done, Cues \ DOMAIN done)
      <4>1. Cues \ DOMAIN done = {}
        BY <3>2
      <4> QED
        BY <2>8, <4>1
    <3>4. Cues \subseteq 1..MaxCues
      BY <1>n, TranslationAssumption DEF Cues
    <3>5. \A c \in Cues : omitted'[c] \in 0..2 /\ (omitted'[c] = 2 <=> c \notin DOMAIN done)
      BY <2>3, <3>1, <3>2, <3>4
    <3> QED
      BY <2>d, <2>3, <2>4, <3>2, <3>3, <3>5, ApplyFinishes
  <2> QED
    BY <2>1, <2>6, <2>7, <2>8 DEF done
<1>6. CASE MissingDone
  <2>1. PICK map \in {r.map : r \in ParseResults} :
          /\ Accept(map)
          /\ translations' = Laid(Extended(map), [c \in Missing(Extended(map)) |-> Blank])
          /\ shown' = Cardinality(DOMAIN translations')
          /\ Apply(Extended(map), Missing(Extended(map)))
    BY <1>6 DEF MissingDone
  <2>2. pc = "missing" /\ n' = n
    BY <1>6, <2>1 DEF MissingDone, Accept
  <2> DEFINE done == Extended(map)
  <2>3. /\ DOMAIN done \subseteq Cues
        /\ \A c \in DOMAIN done : done[c] \in TextsOf(c)
        /\ blanked' = {c \in DOMAIN done : done[c] = Blank}
        /\ \A c \in Cues : omitted'[c] \in 0..2 /\ (omitted'[c] = 2 <=> c \notin DOMAIN done)
    BY <2>1, <2>2, MissingCollects
  <2>d. /\ translations' = Laid(done, [c \in Missing(done) |-> Blank])
        /\ shown' = Cardinality(DOMAIN translations') /\ Apply(done, Missing(done))
    BY <2>1
  <2> HIDE DEF done
  <2>4. Missing(done) = Cues \ DOMAIN done
    BY DEF Missing
  <2>5. DOMAIN translations' = DOMAIN done \cup (Cues \ DOMAIN done)
    BY <2>d, <2>4, LaidFacts
  <2>6. DOMAIN translations' = Cues
    BY <2>3, <2>5
  <2>7. Apply(done, Cues \ DOMAIN done)
    BY <2>d, <2>4
  <2> QED
    BY <2>d, <2>2, <2>3, <2>6, <2>7, ApplyFinishes
<1>7. CASE ClientStep \/ UNCHANGED vars
  <2>1. UNCHANGED <<engineVars, omitted, blanked>>
    BY <1>7 DEF ClientStep, vars, history
  <2>2. Collected'
    BY <2>1 DEF engineVars, CueInv, Collected, Chunk, Behind, Cues, Missing, Tally
  <2>3. Asking'
    BY <2>1 DEF engineVars, CueInv, Asking
  <2>4. Finished'
    BY <2>1 DEF engineVars, CueInv, Finished, Cues, TextsInPlace, MarkersKept
  <2> QED
    BY <1>s, <2>1, <2>2, <2>3, <2>4 DEF engineVars, CueInv
<1> QED
  BY <1>1, <1>2, <1>3, <1>4, <1>5, <1>6, <1>7 DEF Next, Returned

\* The inductive invariant behind the results about cues and progress.
THEOREM CueInvariant == Spec => []CueInv
  BY CueInit, CueStep, TranslationInvariant, PTL DEF Spec

LEMMA AskingIsFaithful == ASSUME CueInv, IInv PROVE AsksFaithfully
<1> SUFFICES ASSUME pc \in {"batch", "missing"}
             PROVE  /\ DOMAIN asked.lines = requested
                    /\ \A c \in requested : \A i \in DOMAIN asked.lines[c] : asked.lines[c][i] # Newline
                    /\ \A c \in requested : \A k \in 0..(Cardinality(Markers(c)) - 1) :
                         Cardinality({i \in DOMAIN asked.lines[c] : asked.lines[c][i] = Placeholder(c, k)}) = 1
                    /\ \A source \in DOMAIN TermMap(Glossary) :
                         asked.terms[source] = TermMap(Glossary)[source]
  BY DEF AsksFaithfully
<1>1. /\ asked = TranslationPrompt(requested, terminology)
      /\ \A source \in DOMAIN TermMap(Glossary) : terminology[source] = TermMap(Glossary)[source]
  BY DEF CueInv, Asking
<1>2. /\ asked.terms = terminology /\ DOMAIN asked.lines = requested
      /\ \A c \in requested : asked.lines[c] = OneLine(PromptText(c))
  BY <1>1 DEF TranslationPrompt
<1>3. requested \subseteq DOMAIN CueTexts
  <2>1. requested \subseteq Cues
    BY DEF CueInv, Collected, Chunk, Missing
  <2>2. DOMAIN CueTexts = 1..Len(CueTexts) /\ Len(CueTexts) \in Nat
    BY TextsAssumption
  <2>3. n <= Len(CueTexts)
    BY <2>2, TranslationAssumption DEF CueInv, CueTypes
  <2> QED
    BY <2>1, <2>2, <2>3 DEF IInv, Typed, Cues
<1> QED
  BY <1>1, <1>2, <1>3, LineFaithful

\* translate_subtitle, for every subtitle, batch size and service: each request,
\* repeated or not, has one line for each of its cues with every placeholder once
\* and the user's terms; each cue comes back with its own text, blank exactly if the
\* service left it out twice or answered it blank; and no text that lost a
\* placeholder is put back.
THEOREM CuesAreFaithful == Spec => []CuesFaithful
<1>1. CueInv /\ IInv => CuesFaithful
  BY AskingIsFaithful DEF CuesFaithful, CueInv, Finished
<1> QED
  BY <1>1, CueInvariant, TranslationInvariant, PTL

\* The progress shown never decreases and ends at the number of cues.
THEOREM ProgressIsTruthful == Spec => ProgressTruthful
<1>1. ASSUME IInv, CueInv, CueInv', [Next]_vars
      PROVE  [shown' >= shown /\ (pc' = "ok" => shown' = n)]_vars
  <2> SUFFICES ASSUME Next, ~UNCHANGED vars PROVE shown' >= shown /\ (pc' = "ok" => shown' = n)
    BY <1>1
  <2>1. n' = n /\ n \in Nat
    BY <1>1 DEF IInv, Typed, Next, Start, Terms, RetryUnknown, GiveUp, BatchDone, MissingDone,
       ClientStep, Returned, Fail, Accept, engineVars
  <2>2. DOMAIN translations \subseteq DOMAIN translations'
    <3>1. CASE BatchDone
      <4>1. PICK map : Accept(map) /\ translations' = Extended(map) /\ pc = "batch"
        BY <3>1 DEF BatchDone
      <4> QED
        BY <1>1, <4>1, BatchCollects
    <3>2. CASE MissingDone
      <4>1. PICK map : /\ Accept(map) /\ pc = "missing"
                       /\ translations' = Laid(Extended(map), [c \in Missing(Extended(map)) |-> Blank])
        BY <3>2 DEF MissingDone
      <4>2. DOMAIN translations \subseteq DOMAIN Extended(map)
        BY <1>1, <4>1, MissingCollects
      <4> DEFINE done == Extended(map)
                 blanks == [c \in Missing(done) |-> Blank]
      <4> HIDE DEF done, blanks
      <4>3. translations' = Laid(done, blanks) /\ DOMAIN translations \subseteq DOMAIN done
        BY <4>1, <4>2 DEF done, blanks
      <4>4. DOMAIN Laid(done, blanks) = DOMAIN done \cup DOMAIN blanks
        BY LaidFacts
      <4> QED
        BY <4>3, <4>4
    <3>3. CASE ~BatchDone /\ ~MissingDone
      <4>1. translations' = translations
        BY <3>3 DEF Next, Start, Terms, RetryUnknown, GiveUp, ClientStep, Returned, Fail, engineVars, vars
      <4> QED
        BY <4>1
    <3> QED
      BY <3>1, <3>2, <3>3
  <2>3. Cues' = Cues /\ IsFiniteSet(Cues) /\ Cardinality(Cues) = n
    BY <2>1, FS_Interval DEF Cues
  <2>4. /\ DOMAIN translations' \subseteq Cues
        /\ shown = Cardinality(DOMAIN translations) /\ shown' = Cardinality(DOMAIN translations')
        /\ pc' = "ok" => DOMAIN translations' = Cues
    BY <1>1, <2>3 DEF CueInv, CueTypes, Finished
  <2>5. IsFiniteSet(DOMAIN translations')
    BY <2>3, <2>4, FS_Subset
  <2>6. Cardinality(DOMAIN translations) <= Cardinality(DOMAIN translations')
    BY <2>2, <2>5, FS_Subset
  <2>7. Cardinality(DOMAIN translations) \in Nat /\ Cardinality(DOMAIN translations') \in Nat
    BY <2>2, <2>5, FS_Subset, FS_CardinalityType
  <2> QED
    BY <2>3, <2>4, <2>6, <2>7
<1> QED
  BY <1>1, CueInvariant, TranslationInvariant, PTL DEF Spec, ProgressTruthful

-----------------------------------------------------------------------------
(* Analysis calls: the records of the callers.                               *)

Fields == {"pc", "kind", "req", "attempts", "round", "prompt", "out", "class", "hint", "shown",
           "of", "age"}

\* A caller has an outcome only when its call is over (or about to be stored), and a
\* call only if there is a client.
CallsTyped ==
  /\ caller = [c \in Callers |-> caller[c]]
  /\ \A c \in Callers :
       /\ DOMAIN caller[c] = Fields
       /\ caller[c].pc = "idle" => caller[c].out = "none"
       /\ caller[c].pc # "idle" => client \in Hosted \cup {"local"}
  /\ client \notin {"none", "refused"} => client \in Hosted \cup {"local"}

\* An entry is as old as the clock says, unless the clock was set back.
CacheAges ==
  /\ clock \in Int
  /\ \A k \in DOMAIN cache :
       /\ DOMAIN cache[k] = {"of", "stamp", "age"}
       /\ cache[k].age \in Int /\ cache[k].stamp \in Int
       /\ Key(cache[k].of) = k
       /\ ~setBack => cache[k].age = clock - cache[k].stamp

CallsInv == CallsTyped /\ CacheAges /\ CachedIsCurrent /\ HintIsSound

LEMMA NoCallFacts ==
  /\ DOMAIN NoCall = Fields
  /\ NoCall.pc = "idle" /\ NoCall.out = "none"
BY DEF NoCall, Fields

LEMMA CallsInitInv ==
  CallsInit => CallsInv
<1> SUFFICES ASSUME CallsInit PROVE CallsInv
  OBVIOUS
<1>1. \A c \in Callers : caller[c] = NoCall
  BY DEF CallsInit
<1>2. CallsTyped
  BY <1>1, NoCallFacts DEF CallsInit, CallsTyped
<1>3. CacheAges
  BY DEF CallsInit, CacheAges
<1>4. CachedIsCurrent /\ HintIsSound
  BY <1>1, NoCallFacts DEF CachedIsCurrent, HintIsSound
<1> QED
  BY <1>2, <1>3, <1>4 DEF CallsInv

\* What CachedIsCurrent and HintIsSound say of one call
CallSound(now) ==
  /\ now.out \in {"cached", "fresh"} => Key(now.of) = Key(now.req)
  /\ now.out = "cached" /\ ~setBack => now.age < TTL
  /\ now.out = "error" =>
       /\ now.hint => client # "local" /\ (PrivateHost(config.host) \/ now.class = "noContent")
       /\ client # "local" /\ (now.class = "noContent"
                               \/ (now.class = "transport" /\ PrivateHost(config.host)))
            => now.hint

LEMMA SoundCalls ==
  (CachedIsCurrent /\ HintIsSound) <=> \A c \in Callers : CallSound(caller[c])
BY DEF CachedIsCurrent, HintIsSound, CallSound

\* A step that changes one call
LEMMA OneCallChanges ==
  ASSUME CallsInv, NEW c \in Callers, NEW now, Set(c, now), UNCHANGED <<config, client, setBack>>,
         DOMAIN now = Fields, CallSound(now), now.pc = "idle" => now.out = "none",
         client \in Hosted \cup {"local"}
  PROVE  CallsTyped' /\ CachedIsCurrent' /\ HintIsSound'
<1>1. /\ caller = [d \in Callers |-> caller[d]]
      /\ \A d \in Callers :
           /\ DOMAIN caller[d] = Fields
           /\ caller[d].pc = "idle" => caller[d].out = "none"
      /\ \A d \in Callers : CallSound(caller[d])
  BY SoundCalls DEF CallsInv, CallsTyped
<1>2. caller' = [d \in Callers |-> IF d = c THEN now ELSE caller[d]]
  BY <1>1 DEF Set
<1>3. \A d \in Callers : caller'[d] = now \/ caller'[d] = caller[d]
  BY <1>2
<1>4. CallsTyped'
  <2>1. caller' = [d \in Callers |-> caller'[d]]
    BY <1>2
  <2>2. \A d \in Callers :
          /\ DOMAIN caller'[d] = Fields
          /\ caller'[d].pc = "idle" => caller'[d].out = "none"
    BY <1>1, <1>3
  <2> QED
    BY <2>1, <2>2 DEF CallsTyped
<1>5. \A d \in Callers : CallSound(caller[d])'
  <2> SUFFICES ASSUME NEW d \in Callers PROVE CallSound(caller[d])'
    OBVIOUS
  <2>1. PICK v : v = caller'[d]
    OBVIOUS
  <2>2. CallSound(v)
    BY <1>1, <1>3, <2>1
  <2> QED
    BY <2>1, <2>2 DEF CallSound
<1>6. (CachedIsCurrent /\ HintIsSound)'
  BY <1>5, SoundCalls DEF CachedIsCurrent, HintIsSound, CallSound
<1> QED
  BY <1>4, <1>6

LEMMA CacheAgesKept ==
  ASSUME CacheAges, UNCHANGED <<cache, clock, setBack>>
  PROVE  CacheAges'
BY DEF CacheAges

LEMMA SendInv ==
  ASSUME CallsInv, NEW c \in Callers, NEW kind, NEW r, Send(c, kind, r),
         client \in Hosted \cup {"local"}, UNCHANGED <<config, client, cache, clock, setBack>>
  PROVE  CallsInv'
<1>1. PICK p : p = IF kind = "analyze" THEN AnalysisPrompt(Requests[r])
                   ELSE VerificationPrompt(Requests[r])
  OBVIOUS
<1>2. PICK now : now = [NoCall EXCEPT !.pc = "sending", !.kind = kind, !.req = r, !.prompt = p]
  OBVIOUS
<1>3. Set(c, now)
  BY <1>1, <1>2 DEF Send
<1>4. DOMAIN now = Fields /\ now.pc = "sending" /\ now.out = "none"
  BY <1>2, NoCallFacts DEF Fields
<1>5. CallsTyped' /\ CachedIsCurrent' /\ HintIsSound'
  BY <1>3, <1>4, OneCallChanges DEF CallSound
<1> QED
  BY <1>5, CacheAgesKept DEF CallsInv

LEMMA LookupInv ==
  ASSUME CallsInv, NEW c \in Callers, NEW r \in DOMAIN Requests, Lookup(c, r)
  PROVE  CallsInv'
<1> PICK key : key = Key(r)
  OBVIOUS
<1>0. client \in Hosted \cup {"local"} /\ UNCHANGED <<config, client, cache, clock, ticks, setBack>>
  BY DEF Lookup
<1>1. CASE Fresh(key)
  <2>1. PICK now : now = [NoCall EXCEPT !.pc = "done", !.req = r, !.out = "cached",
                            !.of = cache[key].of, !.age = cache[key].age]
    OBVIOUS
  <2>2. Set(c, now)
    BY <1>1, <2>1 DEF Lookup
  <2>3. /\ DOMAIN now = Fields /\ now.pc = "done" /\ now.out = "cached" /\ now.req = r
        /\ now.of = cache[key].of /\ now.age = cache[key].age
    BY <2>1, NoCallFacts DEF Fields
  <2>4. Key(now.of) = Key(now.req)
    BY <1>1, <2>3 DEF Fresh, CallsInv, CacheAges
  <2>5. ~setBack => now.age < TTL
    BY <1>1, <2>3 DEF Fresh, CallsInv, CacheAges
  <2>6. CallSound(now)
    BY <2>3, <2>4, <2>5 DEF CallSound
  <2>7. CallsTyped' /\ CachedIsCurrent' /\ HintIsSound'
    BY <1>0, <2>2, <2>3, <2>6, OneCallChanges
  <2> QED
    BY <1>0, <2>7, CacheAgesKept DEF CallsInv
<1>2. CASE ~Fresh(key)
  BY <1>0, <1>2, SendInv DEF Lookup
<1> QED
  BY <1>1, <1>2

LEMMA VerifyInv ==
  ASSUME CallsInv, NEW c \in Callers, NEW r, Verify(c, r)
  PROVE  CallsInv'
BY SendInv DEF Verify

\* Both ways a failed call may go on
LEMMA FailedInv ==
  ASSUME CallsInv, NEW c \in Callers, NEW class, NEW hint, NEW t, Failed(c, class, hint, t),
         client \in Hosted \cup {"local"}, UNCHANGED <<config, client, cache, clock, setBack>>,
         caller[c].pc = "sending",
         hint => client # "local" /\ (PrivateHost(config.host) \/ class = "noContent"),
         client # "local" /\ (class = "noContent" \/ (class = "transport" /\ PrivateHost(config.host)))
           => hint
  PROVE  CallsInv'
<1>1. DOMAIN caller[c] = Fields /\ CallSound(caller[c])
  BY SoundCalls DEF CallsInv, CallsTyped
<1>2. CASE caller[c].round + 1 < MaxAttempts
  <2>1. PICK now : now = [caller[c] EXCEPT !.pc = "pausing", !.round = @ + 1]
    OBVIOUS
  <2>2. Set(c, now)
    BY <1>2, <2>1 DEF Failed
  <2>3. /\ DOMAIN now = Fields /\ now.pc = "pausing" /\ now.out = caller[c].out
        /\ now.of = caller[c].of /\ now.req = caller[c].req /\ now.age = caller[c].age
        /\ now.hint = caller[c].hint /\ now.class = caller[c].class
    BY <1>1, <2>1 DEF Fields
  <2>4. CallSound(now)
    BY <1>1, <2>3 DEF CallSound
  <2>5. CallsTyped' /\ CachedIsCurrent' /\ HintIsSound'
    BY <2>2, <2>3, <2>4, OneCallChanges
  <2> QED
    BY <2>5, CacheAgesKept DEF CallsInv
<1>3. CASE ~(caller[c].round + 1 < MaxAttempts)
  <2>1. PICK now : now = [NoCall EXCEPT !.pc = "done", !.out = "error", !.class = class,
                            !.hint = hint, !.shown = t]
    OBVIOUS
  <2>2. Set(c, now)
    BY <1>3, <2>1 DEF Failed
  <2>3. /\ DOMAIN now = Fields /\ now.pc = "done" /\ now.out = "error"
        /\ now.class = class /\ now.hint = hint
    BY <2>1, NoCallFacts DEF Fields
  <2>4. CallSound(now)
    BY <2>3 DEF CallSound
  <2>5. CallsTyped' /\ CachedIsCurrent' /\ HintIsSound'
    BY <2>2, <2>3, <2>4, OneCallChanges
  <2> QED
    BY <2>5, CacheAgesKept DEF CallsInv
<1> QED
  BY <1>2, <1>3

LEMMA RequestFailsInv ==
  ASSUME CallsInv, NEW c \in Callers, RequestFails(c)
  PROVE  CallsInv'
<1>0. /\ caller[c].pc = "sending" /\ UNCHANGED <<config, client, cache, clock, ticks, setBack>>
      /\ DOMAIN caller[c] = Fields /\ CallSound(caller[c]) /\ client \in Hosted \cup {"local"}
  BY SoundCalls DEF RequestFails, CallsInv, CallsTyped
<1>1. PICK failure \in RequestFailures :
        \/ Set(c, [caller[c] EXCEPT !.pc = "sleeping", !.attempts = @ + 1])
        \/ \E t \in ErrorTexts(failure) : Failed(c, Class(failure), Hints(failure), t)
  BY DEF RequestFails
<1>2. CASE Set(c, [caller[c] EXCEPT !.pc = "sleeping", !.attempts = @ + 1])
  <2>1. PICK now : now = [caller[c] EXCEPT !.pc = "sleeping", !.attempts = @ + 1]
    OBVIOUS
  <2>2. /\ DOMAIN now = Fields /\ now.pc = "sleeping" /\ now.out = caller[c].out
        /\ now.of = caller[c].of /\ now.req = caller[c].req /\ now.age = caller[c].age
        /\ now.hint = caller[c].hint /\ now.class = caller[c].class
    BY <1>0, <2>1 DEF Fields
  <2>3. CallSound(now)
    BY <1>0, <2>2 DEF CallSound
  <2>4. CallsTyped' /\ CachedIsCurrent' /\ HintIsSound'
    BY <1>0, <1>2, <2>1, <2>2, <2>3, OneCallChanges
  <2> QED
    BY <1>0, <2>4, CacheAgesKept DEF CallsInv
<1>3. CASE \E t \in ErrorTexts(failure) : Failed(c, Class(failure), Hints(failure), t)
  <2>1. PICK t : Failed(c, Class(failure), Hints(failure), t)
    BY <1>3
  <2>2. PICK class, hint : class = Class(failure) /\ hint = Hints(failure)
    OBVIOUS
  <2>3. hint => client # "local" /\ (PrivateHost(config.host) \/ class = "noContent")
    BY <2>2 DEF Hints, Class, Hosted
  <2>4. client # "local" /\ (class = "noContent" \/ (class = "transport" /\ PrivateHost(config.host)))
          => hint
    BY <1>0, <2>2 DEF Hints, Class
  <2> QED
    BY <1>0, <2>1, <2>2, <2>3, <2>4, FailedInv
<1> QED
  BY <1>1, <1>2, <1>3

LEMMA SendAgainInv ==
  ASSUME CallsInv, NEW c \in Callers, SendAgain(c)
  PROVE  CallsInv'
<1>0. /\ caller[c].pc # "idle" /\ UNCHANGED <<config, client, cache, clock, ticks, setBack>>
      /\ DOMAIN caller[c] = Fields /\ CallSound(caller[c]) /\ client \in Hosted \cup {"local"}
  BY SoundCalls DEF SendAgain, CallsInv, CallsTyped
<1>1. PICK now : now = [caller[c] EXCEPT !.pc = "sending",
                          !.attempts = IF caller[c].pc = "pausing" THEN 0 ELSE @]
  OBVIOUS
<1>2. Set(c, now)
  BY <1>1 DEF SendAgain
<1>3. /\ DOMAIN now = Fields /\ now.pc = "sending" /\ now.out = caller[c].out
      /\ now.of = caller[c].of /\ now.req = caller[c].req /\ now.age = caller[c].age
      /\ now.hint = caller[c].hint /\ now.class = caller[c].class
  BY <1>0, <1>1 DEF Fields
<1>4. CallSound(now)
  BY <1>0, <1>3 DEF CallSound
<1>5. CallsTyped' /\ CachedIsCurrent' /\ HintIsSound'
  BY <1>0, <1>2, <1>3, <1>4, OneCallChanges
<1> QED
  BY <1>0, <1>5, CacheAgesKept DEF CallsInv

LEMMA AnswerArrivesInv ==
  ASSUME CallsInv, NEW c \in Callers, AnswerArrives(c)
  PROVE  CallsInv'
<1>0. /\ caller[c].pc = "sending" /\ UNCHANGED <<config, client, cache, clock, ticks, setBack>>
      /\ client \in Hosted \cup {"local"}
  BY DEF AnswerArrives, CallsInv, CallsTyped
<1> DEFINE ok == [NoCall EXCEPT !.out = "fresh", !.of = caller[c].req,
                                !.req = caller[c].req, !.kind = caller[c].kind]
<1>1. \/ Set(c, [NoCall EXCEPT !.pc = "done", !.out = "panic"])
      \/ Failed(c, "other", FALSE, <<"w">>)
      \/ Set(c, [ok EXCEPT !.pc = IF ok.kind = "analyze" THEN "storing" ELSE "done"])
  BY DEF AnswerArrives
<1>2. CASE Set(c, [NoCall EXCEPT !.pc = "done", !.out = "panic"])
  <2>1. PICK now : now = [NoCall EXCEPT !.pc = "done", !.out = "panic"]
    OBVIOUS
  <2>2. DOMAIN now = Fields /\ now.pc = "done" /\ now.out = "panic"
    BY <2>1, NoCallFacts DEF Fields
  <2>3. CallsTyped' /\ CachedIsCurrent' /\ HintIsSound'
    BY <1>0, <1>2, <2>1, <2>2, OneCallChanges DEF CallSound
  <2> QED
    BY <1>0, <2>3, CacheAgesKept DEF CallsInv
<1>3. CASE Failed(c, "other", FALSE, <<"w">>)
  <2>1. PICK t : t = <<"w">>
    OBVIOUS
  <2> QED
    BY <1>0, <1>3, <2>1, FailedInv
<1>4. CASE Set(c, [ok EXCEPT !.pc = IF ok.kind = "analyze" THEN "storing" ELSE "done"])
  <2>1. PICK now : now = [ok EXCEPT !.pc = IF ok.kind = "analyze" THEN "storing" ELSE "done"]
    OBVIOUS
  <2>2. DOMAIN ok = Fields /\ ok.out = "fresh" /\ ok.of = ok.req
    BY NoCallFacts DEF Fields
  <2>3. /\ DOMAIN now = Fields /\ now.pc # "idle" /\ now.out = "fresh" /\ now.of = now.req
    <3> HIDE DEF ok
    <3> QED
      BY <2>1, <2>2 DEF Fields
  <2>4. CallsTyped' /\ CachedIsCurrent' /\ HintIsSound'
    BY <1>0, <1>4, <2>1, <2>3, OneCallChanges DEF CallSound
  <2> QED
    BY <1>0, <2>4, CacheAgesKept DEF CallsInv
<1> QED
  BY <1>1, <1>2, <1>3, <1>4

LEMMA StoreInv ==
  ASSUME CallsInv, NEW c \in Callers, Store(c)
  PROVE  CallsInv'
<1>0. /\ caller[c].pc = "storing" /\ UNCHANGED <<config, client, clock, ticks, setBack>>
      /\ DOMAIN caller[c] = Fields /\ CallSound(caller[c]) /\ client \in Hosted \cup {"local"}
  BY SoundCalls DEF Store, CallsInv, CallsTyped
<1>1. PICK now : now = [caller[c] EXCEPT !.pc = "done"]
  OBVIOUS
<1>2. /\ DOMAIN now = Fields /\ now.pc = "done" /\ now.out = caller[c].out
      /\ now.of = caller[c].of /\ now.req = caller[c].req /\ now.age = caller[c].age
      /\ now.hint = caller[c].hint /\ now.class = caller[c].class
  BY <1>0, <1>1 DEF Fields
<1>3. CallSound(now)
  BY <1>0, <1>2 DEF CallSound
<1>4. CallsTyped' /\ CachedIsCurrent' /\ HintIsSound'
  BY <1>0, <1>1, <1>2, <1>3, OneCallChanges DEF Store
<1>5. CacheAges'
  <2>1. PICK r : r = caller[c].req
    OBVIOUS
  <2>2. PICK key : key = Key(r)
    OBVIOUS
  <2>3. cache' = [k \in DOMAIN cache \cup {key} |->
                    IF k = key THEN [of |-> r, stamp |-> clock, age |-> 0] ELSE cache[k]]
    BY <2>1, <2>2 DEF Store
  <2>4. clock \in Int /\ clock' = clock
    BY <1>0 DEF CallsInv, CacheAges
  <2>5. \A k \in DOMAIN cache' :
          /\ DOMAIN cache'[k] = {"of", "stamp", "age"}
          /\ cache'[k].age \in Int /\ cache'[k].stamp \in Int
          /\ Key(cache'[k].of) = k
          /\ ~setBack => cache'[k].age = clock - cache'[k].stamp
    <3> SUFFICES ASSUME NEW k \in DOMAIN cache'
                 PROVE  /\ DOMAIN cache'[k] = {"of", "stamp", "age"}
                        /\ cache'[k].age \in Int /\ cache'[k].stamp \in Int
                        /\ Key(cache'[k].of) = k
                        /\ ~setBack => cache'[k].age = clock - cache'[k].stamp
      OBVIOUS
    <3>1. PICK e : e = cache'[k]
      OBVIOUS
    <3>2. CASE k = key
      <4>1. e = [of |-> r, stamp |-> clock, age |-> 0]
        BY <2>3, <3>1, <3>2
      <4> QED
        BY <2>2, <2>4, <3>1, <3>2, <4>1
    <3>3. CASE k # key
      <4>1. k \in DOMAIN cache /\ e = cache[k]
        BY <2>3, <3>1, <3>3
      <4> QED
        BY <3>1, <4>1 DEF CallsInv, CacheAges
    <3> QED
      BY <3>2, <3>3
  <2> QED
    BY <1>0, <2>4, <2>5 DEF CacheAges, Key
<1> QED
  BY <1>4, <1>5 DEF CallsInv

LEMMA AgainInv ==
  ASSUME CallsInv, NEW c \in Callers, Again(c)
  PROVE  CallsInv'
<1>0. /\ UNCHANGED <<config, client, cache, clock, ticks, setBack>> /\ client \in Hosted \cup {"local"}
  BY DEF Again, CallsInv, CallsTyped
<1>1. PICK now : now = NoCall
  OBVIOUS
<1>2. CallsTyped' /\ CachedIsCurrent' /\ HintIsSound'
  BY <1>0, <1>1, NoCallFacts, OneCallChanges DEF Again, CallSound
<1> QED
  BY <1>0, <1>2, CacheAgesKept DEF CallsInv

LEMMA TickInv ==
  ASSUME CallsInv, Tick
  PROVE  CallsInv'
<1>1. CallsTyped' /\ CachedIsCurrent' /\ HintIsSound'
  BY DEF CallsInv, CallsTyped, CachedIsCurrent, HintIsSound, Tick, Key
<1>2. CacheAges'
  <2>1. clock \in Int /\ clock' = clock + 1 /\ setBack' = setBack
        /\ DOMAIN cache' = DOMAIN cache
    BY DEF CallsInv, CacheAges, Tick
  <2>2. \A k \in DOMAIN cache' :
          /\ DOMAIN cache'[k] = {"of", "stamp", "age"}
          /\ cache'[k].age \in Int /\ cache'[k].stamp \in Int
          /\ Key(cache'[k].of) = k
          /\ ~setBack => cache'[k].age = clock + 1 - cache'[k].stamp
    <3> SUFFICES ASSUME NEW k \in DOMAIN cache'
                 PROVE  /\ DOMAIN cache'[k] = {"of", "stamp", "age"}
                        /\ cache'[k].age \in Int /\ cache'[k].stamp \in Int
                        /\ Key(cache'[k].of) = k
                        /\ ~setBack => cache'[k].age = clock + 1 - cache'[k].stamp
      OBVIOUS
    <3>1. PICK old : old = cache[k]
      OBVIOUS
    <3>2. /\ DOMAIN old = {"of", "stamp", "age"} /\ old.age \in Int /\ old.stamp \in Int
          /\ Key(old.of) = k /\ (~setBack => old.age = clock - old.stamp)
      BY <2>1, <3>1 DEF CallsInv, CacheAges
    <3>3. PICK e : e = cache'[k]
      OBVIOUS
    <3>4. e = [old EXCEPT !.age = @ + 1]
      BY <2>1, <3>1, <3>3 DEF Tick
    <3>5. DOMAIN e = DOMAIN old /\ e.of = old.of /\ e.stamp = old.stamp /\ e.age = old.age + 1
      BY <3>2, <3>4
    <3>6. /\ DOMAIN e = {"of", "stamp", "age"} /\ e.age \in Int /\ e.stamp \in Int
          /\ Key(e.of) = k /\ (~setBack => e.age = clock + 1 - e.stamp)
      BY <2>1, <3>2, <3>5
    <3> QED
      BY <3>3, <3>6
  <2> QED
    BY <2>1, <2>2 DEF CacheAges, Key
<1> QED
  BY <1>1, <1>2 DEF CallsInv

LEMMA ClockSetBackInv ==
  ASSUME CallsInv, ClockSetBack
  PROVE  CallsInv'
<1>1. CallsTyped' /\ HintIsSound'
  BY DEF CallsInv, CallsTyped, HintIsSound, ClockSetBack
<1>2. CachedIsCurrent'
  BY DEF CallsInv, CachedIsCurrent, ClockSetBack, Key
<1>3. CacheAges'
  BY DEF CallsInv, CacheAges, ClockSetBack, Key
<1> QED
  BY <1>1, <1>2, <1>3 DEF CallsInv

LEMMA CreateProviderInv ==
  ASSUME CallsInv, CreateProvider
  PROVE  CallsInv'
<1>1. \A c \in Callers : caller[c].pc = "idle" /\ caller[c].out = "none"
  BY DEF CallsInv, CallsTyped, CreateProvider, Hosted
<1>2. client' \in Hosted \cup {"local", "refused"}
  BY DEF CreateProvider, Built, Hosted
<1>3. CallsTyped'
  BY <1>1, <1>2 DEF CallsInv, CallsTyped, CreateProvider
<1>4. CachedIsCurrent' /\ HintIsSound'
  BY <1>1 DEF CachedIsCurrent, HintIsSound, CreateProvider
<1>5. CacheAges'
  BY CacheAgesKept DEF CallsInv, CreateProvider
<1> QED
  BY <1>3, <1>4, <1>5 DEF CallsInv

LEMMA CallsStepInv ==
  CallsInv /\ [CallsNext]_callsVars => CallsInv'
<1> SUFFICES ASSUME CallsInv, [CallsNext]_callsVars PROVE CallsInv'
  OBVIOUS
<1>1. CASE CreateProvider
  BY <1>1, CreateProviderInv
<1>2. CASE Tick
  BY <1>2, TickInv
<1>3. CASE ClockSetBack
  BY <1>3, ClockSetBackInv
<1>4. ASSUME NEW c \in Callers,
             RequestFails(c) \/ SendAgain(c) \/ AnswerArrives(c) \/ Store(c) \/ Again(c)
      PROVE  CallsInv'
  BY <1>4, RequestFailsInv, SendAgainInv, AnswerArrivesInv, StoreInv, AgainInv
<1>5. ASSUME NEW c \in Callers, NEW r \in DOMAIN Requests, Lookup(c, r)
      PROVE  CallsInv'
  BY <1>5, LookupInv
<1>6. ASSUME NEW c \in Callers, NEW r \in Verified, Verify(c, r)
      PROVE  CallsInv'
  BY <1>6, VerifyInv
<1>7. CASE UNCHANGED callsVars
  BY <1>7 DEF callsVars, CallsInv, CallsTyped, CacheAges, CachedIsCurrent, HintIsSound, Key
<1> QED
  BY <1>1, <1>2, <1>3, <1>4, <1>5, <1>6, <1>7 DEF CallsNext

\* The inductive invariant of the calls: their records are of one shape, a call needs
\* a client, and an entry's age is that of its stamp until the clock is set back.
THEOREM CallsInvariant ==
  CallsSpec => []CallsInv
<1>1. CallsInit => CallsInv
  BY CallsInitInv
<1>2. CallsInv /\ [CallsNext]_callsVars => CallsInv'
  BY CallsStepInv
<1> QED
  BY <1>1, <1>2, PTL DEF CallsSpec

\* Whichever callers store and look up in which order, a result taken from AICache is
\* about the files that were asked for and younger than the TTL, unless the system
\* clock was set back (AICache::get compares SystemTime stamps).
THEOREM CachedResultsAreCurrent ==
  CallsSpec => []CachedIsCurrent
<1>1. CallsInv => CachedIsCurrent
  BY DEF CallsInv
<1> QED
  BY <1>1, CallsInvariant, PTL

-----------------------------------------------------------------------------
(* Analysis calls: what errors show.                                         *)

LEMMA LeastNumber ==
  ASSUME NEW T, T \subseteq Nat, T # {}
  PROVE  \E m \in T : \A k \in T : m <= k
<1> DEFINE R == OpToRel(<, Nat)
<1>1. \A x, y \in Nat : x < y => <<x, y>> \in R
  BY DEF OpToRel
<1>2. IsWellFoundedOn(R, Nat)
  BY NatLessThanWellFounded
<1> HIDE DEF R
<1>3. PICK m \in T : \A k \in T : ~(<<k, m>> \in R)
  BY <1>2, WFMin
<1>4. ASSUME NEW k \in T PROVE m <= k
  <2>1. m \in Nat /\ k \in Nat /\ ~(k < m)
    BY <1>1, <1>3
  <2> QED
    BY <2>1
<1> QED
  BY <1>4

\* The scan of a text exists, so SanitizeUrls is what its equations say.
LEMMA ScanExists ==
  ASSUME NEW S, NEW t \in Seq(S)
  PROVE  \E scan : /\ scan[0] = [mode |-> "text", out |-> <<>>]
                   /\ \A i \in 1..Len(t) : scan[i] = Scan(scan[i - 1], t[i])
                   /\ SanitizeUrls(t) = scan[Len(t)].out
<1> DEFINE start == [mode |-> "text", out |-> <<>>]
           len == Len(t)
           Scans(m, f) == /\ DOMAIN f = 0..m /\ f[0] = start
                          /\ \A i \in 1..m : f[i] = Scan(f[i - 1], t[i])
           T == {m \in 0..len : ~\E f : Scans(m, f)}
<1>1. len \in Nat
  OBVIOUS
<1> HIDE DEF start, len
<1>2. T = {}
  <2> SUFFICES ASSUME T # {} PROVE FALSE
    OBVIOUS
  <2>1. T \subseteq Nat
    BY <1>1
  <2>2. PICK m \in T : \A k \in T : m <= k
    BY <2>1, LeastNumber
  <2>3. m \in 0..len /\ ~\E f : Scans(m, f)
    OBVIOUS
  <2>4. CASE m = 0
    <3> DEFINE f == [k \in 0..0 |-> start]
    <3>1. DOMAIN f = 0..0 /\ f[0] = start
      OBVIOUS
    <3>2. Scans(0, f)
      BY <3>1
    <3> QED
      BY <2>3, <2>4, <3>2
  <2>5. CASE m # 0
    <3>1. m - 1 \in 0..len /\ m - 1 \notin T /\ m \in Nat
      <4> HIDE DEF T
      <4> QED
        BY <1>1, <2>2, <2>3, <2>5
    <3>2. PICK f : Scans(m - 1, f)
      BY <3>1
    <3> DEFINE g == [k \in 0..m |-> IF k = m THEN Scan(f[m - 1], t[m]) ELSE f[k]]
    <3>3. DOMAIN g = 0..m /\ g[m] = Scan(f[m - 1], t[m]) /\ \A k \in 0..(m - 1) : g[k] = f[k]
      BY <3>1
    <3> HIDE DEF g
    <3>4. \A i \in 1..m : g[i] = Scan(g[i - 1], t[i])
      <4> SUFFICES ASSUME NEW i \in 1..m PROVE g[i] = Scan(g[i - 1], t[i])
        OBVIOUS
      <4>1. i - 1 \in 0..(m - 1) /\ (i # m => i \in 1..(m - 1) /\ i \in 0..(m - 1))
        BY <3>1
      <4>2. g[i - 1] = f[i - 1]
        BY <3>3, <4>1
      <4>3. CASE i = m
        BY <3>3, <4>2, <4>3
      <4>4. CASE i # m
        BY <3>2, <3>3, <4>1, <4>2, <4>4
      <4> QED
        BY <4>3, <4>4
    <3>5. g[0] = start
      BY <2>5, <3>1, <3>2, <3>3
    <3>6. Scans(m, g)
      BY <3>3, <3>4, <3>5
    <3> QED
      BY <2>3, <3>6
  <2> QED
    BY <2>4, <2>5
<1>3. PICK f : Scans(len, f)
  BY SMTT(40), <1>1, <1>2
<1> DEFINE chosen == CHOOSE scan : scan = [i \in 0..len |-> IF i = 0 THEN start
                                                            ELSE Scan(scan[i - 1], t[i])]
<1>4. chosen = [i \in 0..len |-> IF i = 0 THEN start ELSE Scan(chosen[i - 1], t[i])]
  <2> DEFINE g == [i \in 0..len |-> f[i]]
  <2>1. \A i \in 0..len : g[i] = f[i]
    OBVIOUS
  <2>2. \A i \in 0..len : g[i] = IF i = 0 THEN start ELSE Scan(g[i - 1], t[i])
    <3> HIDE DEF g
    <3> SUFFICES ASSUME NEW i \in 0..len
                 PROVE  g[i] = IF i = 0 THEN start ELSE Scan(g[i - 1], t[i])
      OBVIOUS
    <3>1. CASE i = 0
      BY <1>1, <1>3, <2>1, <3>1
    <3>2. CASE i # 0
      <4>1. i \in 1..len /\ i - 1 \in 0..len
        BY <1>1, <3>2
      <4> QED
        BY <1>3, <2>1, <3>2, <4>1
    <3> QED
      BY <3>1, <3>2
  <2>3. g = [i \in 0..len |-> g[i]]
    OBVIOUS
  <2> HIDE DEF g
  <2>4. g = [i \in 0..len |-> IF i = 0 THEN start ELSE Scan(g[i - 1], t[i])]
    BY <2>2, <2>3
  <2> QED
    BY <2>4
<1>5. SanitizeUrls(t) = chosen[len].out
  BY DEF SanitizeUrls, start, len
<1> HIDE DEF chosen
<1>6. chosen[0] = start
  BY <1>1, <1>4
<1>7. \A i \in 1..len : chosen[i] = Scan(chosen[i - 1], t[i])
  BY <1>1, <1>4
<1> QED
  BY <1>5, <1>6, <1>7 DEF start, len

\* What NoQueryShown says of one text
Clean(t) ==
  \A i, j \in DOMAIN t : i < j /\ t[i] = "url" /\ t[j] = "?" => \E k \in i..j : t[k] \in {" ", "#"}

\* In a text that a scan has written, every URL has ended unless the scan is in one.
Scanned(S, st) ==
  /\ st.out \in Seq(S) /\ st.mode \in {"text", "url", "query"}
  /\ Clean(st.out)
  /\ st.mode = "text" =>
       \A i \in DOMAIN st.out : st.out[i] = "url" =>
         \E k \in i..Len(st.out) : st.out[k] \in {" ", "#"}

LEMMA ScanKeepsClean ==
  ASSUME NEW S, NEW st, NEW ch \in S, Scanned(S, st)
  PROVE  Scanned(S, Scan(st, ch))
<1> PICK new, old : new = Scan(st, ch) /\ old = st.out
  OBVIOUS
<1>1. old \in Seq(S) /\ Clean(old)
  BY DEF Scanned
<1>2. PICK longer : longer = Append(old, ch)
  OBVIOUS
<1>3. /\ longer \in Seq(S) /\ Len(longer) = Len(old) + 1 /\ longer[Len(old) + 1] = ch
      /\ Len(old) \in Nat /\ DOMAIN old = 1..Len(old) /\ DOMAIN longer = 1..(Len(old) + 1)
      /\ \A i \in 1..Len(old) : longer[i] = old[i]
  BY <1>1, <1>2
<1>a. \A i, j \in 1..Len(old) : i < j /\ longer[i] = "url" /\ longer[j] = "?"
        => \E k \in i..j : longer[k] \in {" ", "#"}
  <2> SUFFICES ASSUME NEW i \in 1..Len(old), NEW j \in 1..Len(old), i < j,
                      longer[i] = "url", longer[j] = "?"
               PROVE  \E k \in i..j : longer[k] \in {" ", "#"}
    OBVIOUS
  <2>1. old[i] = "url" /\ old[j] = "?"
    BY <1>3
  <2>2. PICK k \in i..j : old[k] \in {" ", "#"}
    BY <1>1, <1>3, <2>1 DEF Clean
  <2>3. k \in 1..Len(old)
    BY <1>3
  <2> QED
    BY <1>3, <2>2, <2>3
<1>4. ch # "?" => Clean(longer)
  <2> SUFFICES ASSUME ch # "?", NEW i \in DOMAIN longer, NEW j \in DOMAIN longer, i < j,
                      longer[i] = "url", longer[j] = "?"
               PROVE  \E k \in i..j : longer[k] \in {" ", "#"}
    BY DEF Clean
  <2>1. i \in 1..Len(old) /\ j \in 1..Len(old)
    BY <1>3
  <2> QED
    BY <1>a, <2>1
<1>5. CASE ch = " " \/ (ch = "#" /\ st.mode = "url")
  <2>1. new = [mode |-> "text", out |-> longer]
    BY <1>2, <1>5 DEF Scan
  <2>2. new.mode = "text" /\ new.out = longer
    BY <2>1
  <2>3. \A i \in DOMAIN longer : \E k \in i..Len(longer) : longer[k] \in {" ", "#"}
    <3>1. Len(longer) \in Nat /\ longer[Len(longer)] \in {" ", "#"}
      <4>1. PICK last : last = Len(longer)
        OBVIOUS
      <4>2. last = Len(old) + 1 /\ last \in Nat /\ longer[last] = ch
        BY <1>3, <4>1
      <4>3. ch \in {" ", "#"}
        BY <1>5
      <4> QED
        BY <4>1, <4>2, <4>3
    <3>2. \A i \in DOMAIN longer : Len(longer) \in i..Len(longer)
      BY <1>3
    <3> QED
      BY <3>1, <3>2
  <2> QED
    BY <1>3, <1>4, <1>5, <2>2, <2>3 DEF Scanned
<1>6. CASE st.mode = "query" /\ ch # " "
  BY <1>6 DEF Scan
<1>7. CASE st.mode = "url" /\ ch = "?"
  <2>1. new = [mode |-> "query", out |-> old]
    BY <1>7 DEF Scan
  <2>2. new.mode = "query" /\ new.out = old
    BY <2>1
  <2> QED
    BY <1>1, <2>2 DEF Scanned
<1>8. CASE st.mode # "query" /\ ch # " " /\ (st.mode = "url" => ch \notin {"?", "#"})
  <2>1. new = [mode |-> IF ch = "url" THEN "url" ELSE st.mode, out |-> longer]
    BY <1>2, <1>8 DEF Scan
  <2>2. new.mode = (IF ch = "url" THEN "url" ELSE st.mode) /\ new.out = longer
    BY <2>1
  <2>3. CASE st.mode = "text"
    <3>1. \A i \in 1..Len(old) : old[i] = "url" => \E k \in i..Len(old) : old[k] \in {" ", "#"}
      BY <1>3, <2>3 DEF Scanned
    <3>2. Clean(longer)
      <4> SUFFICES ASSUME NEW i \in DOMAIN longer, NEW j \in DOMAIN longer, i < j,
                          longer[i] = "url", longer[j] = "?"
                   PROVE  \E k \in i..j : longer[k] \in {" ", "#"}
        BY DEF Clean
      <4>1. CASE j \in 1..Len(old)
        <5>1. i \in 1..Len(old)
          BY <1>3, <4>1
        <5> QED
          BY <1>a, <4>1, <5>1
      <4>2. CASE j = Len(old) + 1
        <5>1. i \in 1..Len(old) /\ old[i] = "url"
          BY <1>3, <4>2
        <5>2. PICK k \in i..Len(old) : old[k] \in {" ", "#"}
          BY <3>1, <5>1
        <5>3. k \in i..j /\ longer[k] = old[k]
          BY <1>3, <4>2, <5>1
        <5> QED
          BY <5>2, <5>3
      <4>3. j \in 1..Len(old) \/ j = Len(old) + 1
        BY <1>3
      <4> QED
        BY <4>1, <4>2, <4>3
    <3>3. ch # "url" => \A i \in DOMAIN longer : longer[i] = "url" =>
                          \E k \in i..Len(longer) : longer[k] \in {" ", "#"}
      <4> SUFFICES ASSUME ch # "url", NEW i \in DOMAIN longer, longer[i] = "url"
                   PROVE  \E k \in i..Len(longer) : longer[k] \in {" ", "#"}
        OBVIOUS
      <4>1. i \in 1..Len(old) /\ old[i] = "url"
        BY <1>3
      <4>2. PICK k \in i..Len(old) : old[k] \in {" ", "#"}
        BY <3>1, <4>1
      <4>3. k \in i..Len(longer) /\ longer[k] = old[k]
        BY <1>3, <4>1
      <4> QED
        BY <4>2, <4>3
    <3>4. CASE ch = "url"
      BY <1>3, <2>2, <3>2, <3>4 DEF Scanned
    <3>5. CASE ch # "url"
      <4>1. PICK m : m = new.mode
        OBVIOUS
      <4>2. m = "text" /\ new.out = longer
        BY <2>2, <2>3, <3>5, <4>1
      <4>3. \A i \in DOMAIN longer : longer[i] = "url" =>
              \E k \in i..Len(longer) : longer[k] \in {" ", "#"}
        BY <3>3, <3>5
      <4>4. longer \in Seq(S)
        BY <1>3
      <4>5. PICK fin : fin = new.out
        OBVIOUS
      <4>6. fin = longer
        BY <4>2, <4>5
      <4>7. Scanned(S, new)
        BY <3>2, <4>1, <4>2, <4>3, <4>4, <4>5, <4>6 DEF Scanned
      <4> QED
        BY <4>7
    <3> QED
      BY <3>4, <3>5
  <2>4. CASE st.mode = "url"
    BY <1>3, <1>4, <1>8, <2>2, <2>4 DEF Scanned
  <2> QED
    BY <1>8, <2>3, <2>4 DEF Scanned
<1> QED
  BY <1>5, <1>6, <1>7, <1>8 DEF Scanned

\* sanitize_url_in_error leaves no query behind a URL, whatever the text.
LEMMA SanitizedIsClean ==
  ASSUME NEW S, NEW t \in Seq(S)
  PROVE  SanitizeUrls(t) \in Seq(S) /\ Clean(SanitizeUrls(t))
<1>1. PICK scan : /\ scan[0] = [mode |-> "text", out |-> <<>>]
                  /\ \A i \in 1..Len(t) : scan[i] = Scan(scan[i - 1], t[i])
                  /\ SanitizeUrls(t) = scan[Len(t)].out
  BY ScanExists
<1> PICK len : len = Len(t)
  OBVIOUS
<1>2. len \in Nat
  OBVIOUS
<1> DEFINE T == {i \in 0..len : ~Scanned(S, scan[i])}
<1>3. T = {}
  <2> SUFFICES ASSUME T # {} PROVE FALSE
    OBVIOUS
  <2>1. T \subseteq Nat
    BY <1>2
  <2>2. PICK m \in T : \A k \in T : m <= k
    BY <2>1, LeastNumber
  <2>3. m \in 0..len /\ ~Scanned(S, scan[m])
    OBVIOUS
  <2>4. m # 0
    <3>1. PICK st : st = scan[0]
      OBVIOUS
    <3>2. st.mode = "text" /\ st.out = <<>>
      BY <1>1, <3>1
    <3>3. <<>> \in Seq(S) /\ DOMAIN <<>> = {}
      OBVIOUS
    <3>4. Scanned(S, st)
      BY <3>2, <3>3 DEF Scanned, Clean
    <3> QED
      BY <2>3, <3>1, <3>4
  <2>5. m \in 1..len /\ m - 1 \in 0..len /\ ~(m <= m - 1)
    BY <1>2, <2>3, <2>4
  <2>6. Scanned(S, scan[m - 1])
    BY <2>2, <2>5
  <2>7. t[m] \in S
    BY <2>5
  <2>8. scan[m] = Scan(scan[m - 1], t[m])
    BY <1>1, <2>5
  <2> QED
    BY <2>3, <2>6, <2>7, <2>8, ScanKeepsClean
<1>4. Scanned(S, scan[len])
  BY <1>2, <1>3
<1> QED
  BY <1>1, <1>4 DEF Scanned

LEMMA ErrorTextsAreClean ==
  ASSUME NEW failure, NEW t \in ErrorTexts(failure)
  PROVE  Clean(t)
<1>1. Clean(<<"w">>) /\ Clean(SanitizeBaseUrl(config))
  <2>1. \A x : DOMAIN <<x>> = {1}
    OBVIOUS
  <2>2. \A x : Clean(<<x>>)
    <3> SUFFICES ASSUME NEW x PROVE Clean(<<x>>)
      OBVIOUS
    <3>1. PICK one : one = <<x>>
      OBVIOUS
    <3>2. \A i, j \in DOMAIN one : ~(i < j)
      BY <2>1, <3>1
    <3> QED
      BY <3>1, <3>2 DEF Clean
  <2> QED
    BY <2>2 DEF SanitizeBaseUrl
<1>2. \A body \in ErrorBodies : Clean(SanitizeUrls(Truncate(body)))
  <2> SUFFICES ASSUME NEW body \in ErrorBodies PROVE Clean(SanitizeUrls(Truncate(body)))
    OBVIOUS
  <2>1. PICK cut : cut = Truncate(body)
    OBVIOUS
  <2>2. body \in Seq(STRING) /\ MaxErrorBody \in Nat
    BY BodiesAssumption
  <2>3. CASE Len(body) <= MaxErrorBody
    BY <2>1, <2>2, <2>3, SanitizedIsClean DEF Truncate
  <2>4. CASE ~(Len(body) <= MaxErrorBody)
    <3>1. cut = SubSeq(body, 1, MaxErrorBody)
      BY <2>1, <2>4 DEF Truncate
    <3>2. MaxErrorBody \in 0..Len(body) /\ Len(body) \in Nat
      BY <2>2, <2>4
    <3>3. \A i \in 1..MaxErrorBody : body[i] \in STRING
      BY <2>2, <3>2
    <3>4. cut \in Seq(STRING)
      BY <2>2, <3>1, <3>2, <3>3, SubSeqProperties
    <3> QED
      BY <2>1, <3>4, SanitizedIsClean
  <2> QED
    BY <2>3, <2>4
<1>3. Clean(SanitizeUrls(IF config.query THEN <<"w", "url", "?", "w">> ELSE <<"w", "url">>))
  <2>1. PICK u : u = IF config.query THEN <<"w", "url", "?", "w">> ELSE <<"w", "url">>
    OBVIOUS
  <2>2. u \in Seq({"w", "url", "?"})
    <3>1. <<"w", "url", "?", "w">> \in Seq({"w", "url", "?"})
      OBVIOUS
    <3>2. <<"w", "url">> \in Seq({"w", "url", "?"})
      OBVIOUS
    <3> QED
      BY <2>1, <3>1, <3>2
  <2> QED
    BY <2>1, <2>2, SanitizedIsClean
<1>4. CASE failure = "transport"
  BY <1>1, <1>3, <1>4 DEF ErrorTexts
<1>5. CASE failure # "transport" /\ Kind(failure) = "badBody"
  BY <1>1, <1>5 DEF ErrorTexts
<1>6. CASE failure # "transport" /\ Kind(failure) # "badBody"
  <2>1. \/ t = <<"w">>
        \/ \E body \in ErrorBodies : t = SanitizeUrls(Truncate(body))
    BY <1>6 DEF ErrorTexts
  <2> QED
    BY <1>1, <1>2, <2>1
<1> QED
  BY <1>4, <1>5, <1>6

LEMMA CleanCalls ==
  NoQueryShown <=> \A c \in Callers : Clean(caller[c].shown)
BY DEF NoQueryShown, Clean

LEMMA NoCallShowsNothing ==
  NoCall.shown = <<>> /\ Clean(<<>>)
<1>1. DOMAIN <<>> = {}
  OBVIOUS
<1> QED
  BY <1>1 DEF NoCall, Clean

\* A step that changes one call
LEMMA OneTextChanges ==
  ASSUME CallsInv, NoQueryShown, NEW c \in Callers, NEW now, Set(c, now), Clean(now.shown)
  PROVE  NoQueryShown'
<1>1. caller = [d \in Callers |-> caller[d]] /\ \A d \in Callers : Clean(caller[d].shown)
  BY CleanCalls DEF CallsInv, CallsTyped
<1>2. \A d \in Callers : caller'[d] = now \/ caller'[d] = caller[d]
  BY <1>1 DEF Set
<1>3. \A d \in Callers : Clean(caller'[d].shown)
  <2> SUFFICES ASSUME NEW d \in Callers PROVE Clean(caller'[d].shown)
    OBVIOUS
  <2>1. PICK v : v = caller'[d]
    OBVIOUS
  <2>2. Clean(v.shown)
    BY <1>1, <1>2, <2>1
  <2> QED
    BY <2>1, <2>2
<1> QED
  BY <1>3 DEF NoQueryShown, Clean

LEMMA FailedShowsClean ==
  ASSUME CallsInv, NoQueryShown, NEW c \in Callers, NEW class, NEW hint, NEW t,
         Failed(c, class, hint, t), Clean(t)
  PROVE  NoQueryShown'
<1>1. DOMAIN caller[c] = Fields /\ Clean(caller[c].shown)
  BY CleanCalls DEF CallsInv, CallsTyped
<1>2. CASE caller[c].round + 1 < MaxAttempts
  <2>1. PICK now : now = [caller[c] EXCEPT !.pc = "pausing", !.round = @ + 1]
    OBVIOUS
  <2>2. Set(c, now) /\ now.shown = caller[c].shown
    BY <1>1, <1>2, <2>1 DEF Failed, Fields
  <2> QED
    BY <1>1, <2>2, OneTextChanges
<1>3. CASE ~(caller[c].round + 1 < MaxAttempts)
  <2>1. PICK now : now = [NoCall EXCEPT !.pc = "done", !.out = "error", !.class = class,
                            !.hint = hint, !.shown = t]
    OBVIOUS
  <2>2. Set(c, now) /\ now.shown = t
    BY <1>3, <2>1, NoCallFacts DEF Failed, Fields
  <2> QED
    BY <2>2, OneTextChanges
<1> QED
  BY <1>2, <1>3

LEMMA ShownStep ==
  CallsInv /\ NoQueryShown /\ [CallsNext]_callsVars => NoQueryShown'
<1> SUFFICES ASSUME CallsInv, NoQueryShown, [CallsNext]_callsVars PROVE NoQueryShown'
  OBVIOUS
<1>1. ASSUME UNCHANGED caller PROVE NoQueryShown'
  BY <1>1 DEF NoQueryShown
<1>2. ASSUME NEW c \in Callers, RequestFails(c) PROVE NoQueryShown'
  <2>1. PICK failure \in RequestFailures :
          \/ Set(c, [caller[c] EXCEPT !.pc = "sleeping", !.attempts = @ + 1])
          \/ \E t \in ErrorTexts(failure) : Failed(c, Class(failure), Hints(failure), t)
    BY <1>2 DEF RequestFails
  <2>2. CASE Set(c, [caller[c] EXCEPT !.pc = "sleeping", !.attempts = @ + 1])
    <3>1. PICK now : now = [caller[c] EXCEPT !.pc = "sleeping", !.attempts = @ + 1]
      OBVIOUS
    <3>2. DOMAIN caller[c] = Fields /\ Clean(caller[c].shown)
      BY CleanCalls DEF CallsInv, CallsTyped
    <3>3. now.shown = caller[c].shown
      BY <3>1, <3>2 DEF Fields
    <3> QED
      BY <2>2, <3>1, <3>2, <3>3, OneTextChanges
  <2>3. CASE \E t \in ErrorTexts(failure) : Failed(c, Class(failure), Hints(failure), t)
    <3>1. PICK t \in ErrorTexts(failure) : Failed(c, Class(failure), Hints(failure), t)
      BY <2>3
    <3>2. PICK class, hint : class = Class(failure) /\ hint = Hints(failure)
      OBVIOUS
    <3>3. Clean(t)
      BY ErrorTextsAreClean
    <3> QED
      BY <3>1, <3>2, <3>3, FailedShowsClean
  <2> QED
    BY <2>1, <2>2, <2>3
<1>3. ASSUME NEW c \in Callers, SendAgain(c) PROVE NoQueryShown'
  <2>1. DOMAIN caller[c] = Fields /\ Clean(caller[c].shown)
    BY CleanCalls DEF CallsInv, CallsTyped
  <2>2. PICK now : now = [caller[c] EXCEPT !.pc = "sending",
                            !.attempts = IF caller[c].pc = "pausing" THEN 0 ELSE @]
    OBVIOUS
  <2>3. Set(c, now) /\ now.shown = caller[c].shown
    BY <1>3, <2>1, <2>2 DEF SendAgain, Fields
  <2> QED
    BY <2>1, <2>3, OneTextChanges
<1>4. ASSUME NEW c \in Callers, AnswerArrives(c) PROVE NoQueryShown'
  <2> DEFINE ok == [NoCall EXCEPT !.out = "fresh", !.of = caller[c].req,
                                  !.req = caller[c].req, !.kind = caller[c].kind]
  <2>1. \/ Set(c, [NoCall EXCEPT !.pc = "done", !.out = "panic"])
        \/ Failed(c, "other", FALSE, <<"w">>)
        \/ Set(c, [ok EXCEPT !.pc = IF ok.kind = "analyze" THEN "storing" ELSE "done"])
    BY <1>4 DEF AnswerArrives
  <2>2. CASE Set(c, [NoCall EXCEPT !.pc = "done", !.out = "panic"])
    <3>1. PICK now : now = [NoCall EXCEPT !.pc = "done", !.out = "panic"]
      OBVIOUS
    <3>2. Set(c, now) /\ now.shown = <<>>
      BY <2>2, <3>1, NoCallFacts, NoCallShowsNothing DEF Fields
    <3> QED
      BY <3>2, NoCallShowsNothing, OneTextChanges
  <2>3. CASE Failed(c, "other", FALSE, <<"w">>)
    <3>1. PICK t : t = <<"w">>
      OBVIOUS
    <3>2. DOMAIN t = {1}
      BY <3>1
    <3>3. Clean(t)
      BY <3>2 DEF Clean
    <3> QED
      BY <2>3, <3>1, <3>3, FailedShowsClean
  <2>4. CASE Set(c, [ok EXCEPT !.pc = IF ok.kind = "analyze" THEN "storing" ELSE "done"])
    <3>1. PICK now : now = [ok EXCEPT !.pc = IF ok.kind = "analyze" THEN "storing" ELSE "done"]
      OBVIOUS
    <3>2. DOMAIN ok = Fields /\ ok.shown = <<>>
      BY NoCallFacts, NoCallShowsNothing DEF Fields
    <3>3. now.shown = <<>>
      <4> HIDE DEF ok
      <4> QED
        BY <3>1, <3>2 DEF Fields
    <3> QED
      BY <2>4, <3>1, <3>3, NoCallShowsNothing, OneTextChanges
  <2> QED
    BY <2>1, <2>2, <2>3, <2>4
<1>5. ASSUME NEW c \in Callers, Store(c) PROVE NoQueryShown'
  <2>1. DOMAIN caller[c] = Fields /\ Clean(caller[c].shown)
    BY CleanCalls DEF CallsInv, CallsTyped
  <2>2. PICK now : now = [caller[c] EXCEPT !.pc = "done"]
    OBVIOUS
  <2>3. Set(c, now) /\ now.shown = caller[c].shown
    BY <1>5, <2>1, <2>2 DEF Store, Fields
  <2> QED
    BY <2>1, <2>3, OneTextChanges
<1>6. ASSUME NEW c \in Callers, Again(c) PROVE NoQueryShown'
  <2>1. PICK now : now = NoCall
    OBVIOUS
  <2> QED
    BY <1>6, <2>1, NoCallShowsNothing, OneTextChanges DEF Again
<1>7. ASSUME NEW c \in Callers, NEW kind, NEW r, Send(c, kind, r) PROVE NoQueryShown'
  <2>1. PICK p : p = IF kind = "analyze" THEN AnalysisPrompt(Requests[r])
                     ELSE VerificationPrompt(Requests[r])
    OBVIOUS
  <2>2. PICK now : now = [NoCall EXCEPT !.pc = "sending", !.kind = kind, !.req = r, !.prompt = p]
    OBVIOUS
  <2>3. Set(c, now)
    BY <1>7, <2>1, <2>2 DEF Send
  <2>4. now.shown = <<>>
    BY <2>2, NoCallFacts, NoCallShowsNothing DEF Fields
  <2> QED
    BY <2>3, <2>4, NoCallShowsNothing, OneTextChanges
<1>8. ASSUME NEW c \in Callers, NEW r \in DOMAIN Requests, Lookup(c, r) PROVE NoQueryShown'
  <2>1. CASE Fresh(Key(r))
    <3>1. PICK entry : entry = cache[Key(r)]
      OBVIOUS
    <3>2. PICK now : now = [NoCall EXCEPT !.pc = "done", !.req = r, !.out = "cached",
                              !.of = entry.of, !.age = entry.age]
      OBVIOUS
    <3>3. Set(c, now)
      BY <1>8, <2>1, <3>1, <3>2 DEF Lookup
    <3>4. now.shown = <<>>
      BY <3>2, NoCallFacts, NoCallShowsNothing DEF Fields
    <3> QED
      BY <3>3, <3>4, NoCallShowsNothing, OneTextChanges
  <2>2. CASE ~Fresh(Key(r))
    BY <1>7, <1>8, <2>2 DEF Lookup
  <2> QED
    BY <2>1, <2>2
<1>9. ASSUME NEW c \in Callers, NEW r \in Verified, Verify(c, r) PROVE NoQueryShown'
  BY <1>7, <1>9 DEF Verify
<1>10. CASE CreateProvider \/ Tick \/ ClockSetBack \/ UNCHANGED callsVars
  BY <1>1, <1>10 DEF CreateProvider, Tick, ClockSetBack, callsVars
<1> QED
  BY <1>2, <1>3, <1>4, <1>5, <1>6, <1>8, <1>9, <1>10 DEF CallsNext

\* Whatever a provider answers and whichever retry is the last, the error that reaches
\* the user shows no query of an URL (sanitize_url_in_error after truncate_error_body)
\* and recommends the local provider exactly when append_local_hint should.
THEOREM CallErrorsAreSound ==
  CallsSpec => []ErrorsAreSound
<1>1. CallsInit => CallsInv /\ NoQueryShown
  <2> SUFFICES ASSUME CallsInit PROVE NoQueryShown
    BY CallsInitInv
  <2>1. \A c \in Callers : caller[c] = NoCall
    BY DEF CallsInit
  <2> QED
    BY <2>1, NoCallShowsNothing, CleanCalls
<1>2. CallsInv /\ NoQueryShown /\ [CallsNext]_callsVars => (CallsInv /\ NoQueryShown)'
  BY CallsStepInv, ShownStep
<1>3. CallsInv /\ NoQueryShown => ErrorsAreSound
  BY DEF CallsInv, ErrorsAreSound
<1> QED
  BY <1>1, <1>2, <1>3, PTL DEF CallsSpec

-----------------------------------------------------------------------------
(* Analysis calls: what prompts read back as.                                *)

\* Reading s takes the reader from the state a to the state b.
Run(a, s, b) ==
  \E f : /\ f[0] = a /\ f[Len(s)] = b
         /\ \A i \in 1..Len(s) : f[i] = ReadChar(f[i - 1], s[i])

NewReader == [mode |-> "tag", out |-> <<>>, text |-> <<>>, from |-> 0]

\* A run from the start is what ReadXml computes: its scan exists, and is the only one.
LEMMA RunIsRead ==
  ASSUME NEW S, NEW s \in Seq(S), NEW b, Run(NewReader, s, b)
  PROVE  ReadXml(s) = b
<1>1. PICK f : /\ f[0] = NewReader /\ f[Len(s)] = b
               /\ \A i \in 1..Len(s) : f[i] = ReadChar(f[i - 1], s[i])
  BY DEF Run
<1> DEFINE len == Len(s)
           chosen == CHOOSE read : read = [i \in 0..len |-> IF i = 0 THEN NewReader
                                                            ELSE ReadChar(read[i - 1], s[i])]
<1>2. len \in Nat
  OBVIOUS
<1>3. ReadXml(s) = chosen[len]
  BY DEF ReadXml, NewReader
<1> HIDE DEF len, NewReader
<1>4. chosen = [i \in 0..len |-> IF i = 0 THEN NewReader ELSE ReadChar(chosen[i - 1], s[i])]
  <2> DEFINE g == [i \in 0..len |-> f[i]]
  <2>1. \A i \in 0..len : g[i] = f[i]
    OBVIOUS
  <2>2. \A i \in 0..len : g[i] = IF i = 0 THEN NewReader ELSE ReadChar(g[i - 1], s[i])
    <3> HIDE DEF g
    <3> SUFFICES ASSUME NEW i \in 0..len
                 PROVE  g[i] = IF i = 0 THEN NewReader ELSE ReadChar(g[i - 1], s[i])
      OBVIOUS
    <3>1. CASE i = 0
      BY <1>1, <1>2, <2>1, <3>1
    <3>2. CASE i # 0
      <4>1. i \in 1..len /\ i - 1 \in 0..len
        BY <1>2, <3>2
      <4> QED
        BY <1>1, <2>1, <3>2, <4>1 DEF len
    <3> QED
      BY <3>1, <3>2
  <2>3. g = [i \in 0..len |-> g[i]]
    OBVIOUS
  <2> HIDE DEF g
  <2>4. g = [i \in 0..len |-> IF i = 0 THEN NewReader ELSE ReadChar(g[i - 1], s[i])]
    BY <2>2, <2>3
  <2> QED
    BY <2>4
<1> HIDE DEF chosen
<1>5. chosen[0] = NewReader
  BY <1>2, <1>4
<1>6. \A i \in 1..len : chosen[i] = ReadChar(chosen[i - 1], s[i])
  BY <1>2, <1>4
<1>7. f[0] = NewReader /\ f[len] = b /\ \A i \in 1..len : f[i] = ReadChar(f[i - 1], s[i])
  BY <1>1 DEF len
<1> DEFINE T == {i \in 0..len : chosen[i] # f[i]}
<1>8. T = {}
  <2> SUFFICES ASSUME T # {} PROVE FALSE
    OBVIOUS
  <2>1. T \subseteq Nat
    BY <1>2
  <2>2. PICK m \in T : \A k \in T : m <= k
    BY <2>1, LeastNumber
  <2>3. m \in 0..len /\ chosen[m] # f[m]
    OBVIOUS
  <2>4. m # 0
    BY <1>5, <1>7, <2>3
  <2>5. m \in 1..len /\ m - 1 \in 0..len /\ ~(m <= m - 1)
    BY <1>2, <2>3, <2>4
  <2>6. chosen[m - 1] = f[m - 1]
    BY <2>2, <2>5
  <2> QED
    BY <1>6, <1>7, <2>3, <2>5, <2>6
<1> QED
  BY <1>2, <1>3, <1>7, <1>8

LEMMA RunChar ==
  ASSUME NEW a, NEW ch
  PROVE  Run(a, <<ch>>, ReadChar(a, ch))
<1> DEFINE f == [i \in 0..1 |-> IF i = 0 THEN a ELSE ReadChar(a, ch)]
<1>1. f[0] = a /\ f[1] = ReadChar(a, ch)
  OBVIOUS
<1>2. Len(<<ch>>) = 1 /\ <<ch>>[1] = ch
  OBVIOUS
<1> HIDE DEF f
<1>3. \A i \in 1..1 : f[i] = ReadChar(f[i - 1], <<ch>>[i])
  <2> SUFFICES f[1] = ReadChar(f[0], <<ch>>[1])
    OBVIOUS
  <2> QED
    BY <1>1, <1>2
<1> QED
  BY <1>1, <1>2, <1>3 DEF Run

LEMMA RunConcat ==
  ASSUME NEW S, NEW s \in Seq(S), NEW t \in Seq(S), NEW a, NEW b, NEW d,
         Run(a, s, b), Run(b, t, d)
  PROVE  Run(a, s \o t, d)
<1> DEFINE m == Len(s)
           k == Len(t)
           u == s \o t
<1>1. /\ m \in Nat /\ k \in Nat /\ Len(u) = m + k
      /\ \A i \in 1..m : u[i] = s[i]
      /\ \A i \in 1..k : u[m + i] = t[i]
  OBVIOUS
<1>2. PICK f : f[0] = a /\ f[m] = b /\ \A i \in 1..m : f[i] = ReadChar(f[i - 1], s[i])
  BY DEF Run
<1>3. PICK g : g[0] = b /\ g[k] = d /\ \A i \in 1..k : g[i] = ReadChar(g[i - 1], t[i])
  BY DEF Run
<1> HIDE DEF m, k, u
<1> DEFINE h == [i \in 0..(m + k) |-> IF i <= m THEN f[i] ELSE g[i - m]]
<1>4. /\ \A i \in 0..m : h[i] = f[i]
      /\ \A i \in (m + 1)..(m + k) : h[i] = g[i - m]
  BY <1>1
<1> HIDE DEF h
<1>5. h[m] = b
  BY <1>1, <1>2, <1>4
<1>6. h[0] = a
  BY <1>1, <1>2, <1>4
<1>7. h[m + k] = d
  <2>1. CASE k = 0
    BY <1>1, <1>3, <1>5, <2>1
  <2>2. CASE k # 0
    <3>1. PICK p : p = m + k
      OBVIOUS
    <3>2. p \in (m + 1)..(m + k) /\ p - m = k
      BY <1>1, <2>2, <3>1
    <3>3. h[p] = g[p - m]
      BY <1>4, <3>2
    <3> QED
      BY <1>3, <3>1, <3>2, <3>3
  <2> QED
    BY <2>1, <2>2
<1>8. \A i \in 1..(m + k) : h[i] = ReadChar(h[i - 1], u[i])
  <2> SUFFICES ASSUME NEW i \in 1..(m + k) PROVE h[i] = ReadChar(h[i - 1], u[i])
    OBVIOUS
  <2>1. CASE i <= m
    <3>1. i \in 1..m /\ i \in 0..m /\ i - 1 \in 0..m
      BY <1>1, <2>1
    <3> QED
      BY <1>1, <1>2, <1>4, <3>1
  <2>2. CASE i = m + 1
    <3>1. i - 1 = m /\ i - m = 1 /\ 1 \in 1..k /\ i \in (m + 1)..(m + k)
      BY <1>1, <2>2
    <3>2. g[1] = ReadChar(g[0], t[1])
      <4>1. g[1] = ReadChar(g[1 - 1], t[1])
        BY <1>3, <3>1
      <4> QED
        BY <4>1
    <3>3. u[i] = t[1] /\ h[i] = g[1] /\ h[i - 1] = b
      BY <1>1, <1>4, <1>5, <2>2, <3>1
    <3> QED
      BY <1>3, <3>2, <3>3
  <2>3. CASE i > m + 1
    <3> DEFINE j == i - m
    <3>1. /\ j \in 1..k /\ i = m + j /\ i \in (m + 1)..(m + k) /\ i - 1 \in (m + 1)..(m + k)
          /\ i - 1 - m = j - 1
      BY <1>1, <2>3
    <3>2. g[j] = ReadChar(g[j - 1], t[j])
      BY <1>3, <3>1
    <3>3. u[i] = t[j]
      BY <1>1, <3>1
    <3>4. h[i] = g[j] /\ h[i - 1] = g[j - 1]
      BY <1>4, <3>1
    <3> QED
      BY <3>2, <3>3, <3>4
  <2> QED
    BY <1>1, <2>1, <2>2, <2>3
<1> QED
  BY <1>1, <1>6, <1>7, <1>8 DEF Run, u

\* The mark that ends an attribute
Mark == "\""

\* The states of a reader
InTag(o, t, fr)   == [mode |-> "tag", out |-> o, text |-> t, from |-> fr]
InQuote(o, t, fr) == [mode |-> "quote", out |-> o, text |-> t, from |-> fr]
InCdata(o, t, fr) == [mode |-> "cdata", out |-> o, text |-> t, from |-> fr]

LEMMA ReadInQuote ==
  ASSUME NEW o, NEW t, NEW fr, NEW ch
  PROVE  /\ ReadChar(InQuote(o, t, fr), Mark) = InTag(Append(o, t), <<>>, fr)
         /\ ch # Mark => ReadChar(InQuote(o, t, fr), ch) = InQuote(o, Append(t, ch), fr)
BY DEF ReadChar, InQuote, InTag, Mark

LEMMA ReadInTag ==
  ASSUME NEW o, NEW t, NEW fr, NEW ch
  PROVE  /\ ReadChar(InTag(o, t, fr), Mark) = InQuote(o, t, fr)
         /\ ReadChar(InTag(o, t, fr), "<![CDATA[") = InCdata(o, t, Len(t))
         /\ ch \in {"</sample>", "</file>"} =>
              ReadChar(InTag(o, t, fr), ch) = InTag(Append(o, t), <<>>, fr)
         /\ ch \in {"<file", "<sample", "/>", ">"} => ReadChar(InTag(o, t, fr), ch) = InTag(o, t, fr)
BY DEF ReadChar, InQuote, InTag, InCdata, Mark

LEMMA ReadInCdata ==
  ASSUME NEW o, NEW t, NEW fr, NEW ch
  PROVE  IF ch = ">" /\ Len(t) >= fr + 2 /\ t[Len(t)] = "]" /\ t[Len(t) - 1] = "]"
         THEN ReadChar(InCdata(o, t, fr), ch) = InTag(o, SubSeq(t, 1, Len(t) - 2), fr)
         ELSE ReadChar(InCdata(o, t, fr), ch) = InCdata(o, Append(t, ch), fr)
BY DEF ReadChar, InCdata, InTag

\* The characters of prompts: those of names and previews, entities and tags
Chars == STRING \cup {"&amp;", "&lt;", "&gt;", "&quot;", "&#39;", "\"", "]", ">", "<![CDATA[",
                      "<file", "<sample", "/>", "</file>", "</sample>"}

LEMMA MarkIsChar ==
  Mark \in Chars
BY DEF Mark, Chars

LEMMA EscapeFacts ==
  ASSUME NEW t \in Seq(Chars)
  PROVE  /\ Escape(t) \in Seq(Chars) /\ Len(Escape(t)) = Len(t)
         /\ \A i \in 1..Len(t) : Escape(t)[i] # Mark
<1> PICK m : m = Len(t)
  OBVIOUS
<1>1. m \in Nat /\ DOMAIN t = 1..m /\ \A i \in 1..m : t[i] \in Chars
  OBVIOUS
<1>2. PICK e : e = Escape(t)
  OBVIOUS
<1>3. DOMAIN e = 1..m
  BY <1>1, <1>2 DEF Escape
<1>4. \A i \in 1..m : e[i] \in Chars /\ e[i] # Mark
  <2> SUFFICES ASSUME NEW i \in 1..m PROVE e[i] \in Chars /\ e[i] # Mark
    OBVIOUS
  <2>1. PICK ch : ch = t[i]
    OBVIOUS
  <2>2. ch \in Chars
    BY <1>1, <2>1
  <2>3. e[i] = CASE ch = "&" -> "&amp;"  [] ch = "<" -> "&lt;"
                 [] ch = ">" -> "&gt;"   [] ch = "\"" -> "&quot;"
                 [] ch = "'" -> "&#39;"  [] OTHER -> ch
    BY <1>1, <1>2, <2>1 DEF Escape
  <2> QED
    BY <2>2, <2>3 DEF Chars, Mark
<1>5. e \in [1..m -> Chars]
  <2>1. e = [i \in 1..m |-> e[i]]
    BY <1>2, <1>3 DEF Escape
  <2> QED
    BY <1>4, <2>1
<1>6. e \in Seq(Chars) /\ Len(e) = m
  BY <1>1, <1>5
<1> QED
  BY <1>2, <1>4, <1>6

\* A run over characters that a reader only collects
LEMMA RunQuotedText ==
  ASSUME NEW o, NEW fr, NEW e \in Seq(Chars), \A i \in 1..Len(e) : e[i] # Mark
  PROVE  Run(InQuote(o, <<>>, fr), e, InQuote(o, e, fr))
<1> DEFINE m == Len(e)
           f == [k \in 0..m |-> InQuote(o, SubSeq(e, 1, k), fr)]
<1>1. m \in Nat
  OBVIOUS
<1>2. f[0] = InQuote(o, <<>>, fr) /\ f[m] = InQuote(o, e, fr)
  <2>1. SubSeq(e, 1, 0) = <<>>
    OBVIOUS
  <2>2. SubSeq(e, 1, m) = e
    OBVIOUS
  <2>3. f[0] = InQuote(o, SubSeq(e, 1, 0), fr) /\ f[m] = InQuote(o, SubSeq(e, 1, m), fr)
    BY <1>1
  <2> HIDE DEF f, m
  <2> QED
    BY <2>1, <2>2, <2>3
<1>3. \A i \in 1..m : f[i] = ReadChar(f[i - 1], e[i])
  <2> SUFFICES ASSUME NEW i \in 1..m PROVE f[i] = ReadChar(f[i - 1], e[i])
    OBVIOUS
  <2>1. i \in 0..m /\ i - 1 \in 0..m
    BY <1>1
  <2>2. SubSeq(e, 1, i) = Append(SubSeq(e, 1, i - 1), e[i])
    OBVIOUS
  <2>3. f[i] = InQuote(o, SubSeq(e, 1, i), fr) /\ f[i - 1] = InQuote(o, SubSeq(e, 1, i - 1), fr)
    BY <2>1
  <2> HIDE DEF f
  <2>4. PICK v : v = SubSeq(e, 1, i - 1)
    OBVIOUS
  <2>5. PICK ch : ch = e[i]
    OBVIOUS
  <2>6. ch # Mark
    BY <2>5
  <2>7. ReadChar(InQuote(o, v, fr), ch) = InQuote(o, Append(v, ch), fr)
    BY <2>6, ReadInQuote
  <2> QED
    BY <2>2, <2>3, <2>4, <2>5, <2>7
<1> HIDE DEF f
<1> QED
  BY <1>2, <1>3 DEF Run

LEMMA QuotedRun ==
  ASSUME NEW o, NEW fr, NEW t \in Seq(Chars)
  PROVE  /\ Quoted(t) \in Seq(Chars)
         /\ Run(InTag(o, <<>>, fr), Quoted(t), InTag(Append(o, Escape(t)), <<>>, fr))
<1>1. PICK e : e = Escape(t)
  OBVIOUS
<1>2. e \in Seq(Chars) /\ \A i \in 1..Len(e) : e[i] # Mark
  BY <1>1, EscapeFacts
<1>3. PICK q : q = <<Mark>>
  OBVIOUS
<1>4. q \in Seq(Chars)
  BY <1>3, MarkIsChar
<1>5. Run(InTag(o, <<>>, fr), q, InQuote(o, <<>>, fr))
  <2>1. ReadChar(InTag(o, <<>>, fr), Mark) = InQuote(o, <<>>, fr)
    BY ReadInTag
  <2> QED
    BY <1>3, <2>1, RunChar
<1>6. Run(InQuote(o, <<>>, fr), e, InQuote(o, e, fr))
  BY <1>2, RunQuotedText
<1>7. Run(InQuote(o, e, fr), q, InTag(Append(o, e), <<>>, fr))
  <2>1. ReadChar(InQuote(o, e, fr), Mark) = InTag(Append(o, e), <<>>, fr)
    BY ReadInQuote
  <2> QED
    BY <1>3, <2>1, RunChar
<1>8. Run(InTag(o, <<>>, fr), q \o e, InQuote(o, e, fr))
  BY <1>2, <1>4, <1>5, <1>6, RunConcat
<1>9. q \o e \in Seq(Chars)
  BY <1>2, <1>4
<1>10. Run(InTag(o, <<>>, fr), (q \o e) \o q, InTag(Append(o, e), <<>>, fr))
  <2>1. PICK qe : qe = q \o e
    OBVIOUS
  <2> QED
    BY <1>4, <1>7, <1>8, <1>9, <2>1, RunConcat
<1>11. Quoted(t) = (q \o e) \o q
  <2>1. <<Mark>> \o Escape(t) \o <<Mark>> = Quoted(t)
    BY DEF Mark, Quoted
  <2> QED
    BY <1>1, <1>3, <2>1
<1> QED
  BY <1>1, <1>4, <1>9, <1>10, <1>11

\* FlattenSeq is the last of the running concatenations, which exist.
LEMMA PartsJoin ==
  ASSUME NEW S, NEW s \in Seq(Seq(S)), s # <<>>
  PROVE  \E f \in [1..Len(s) -> Seq(S)] :
           /\ f[1] = s[1]
           /\ \A k \in 2..Len(s) : f[k] = f[k - 1] \o s[k]
           /\ FlattenSeq(s) = f[Len(s)]
<1> DEFINE len == Len(s)
           Joins(m, f) == /\ f \in [1..m -> Seq(S)] /\ f[1] = s[1]
                          /\ \A k \in 2..m : f[k] = f[k - 1] \o s[k]
           T == {m \in 1..len : ~\E f : Joins(m, f)}
<1>1. len \in Nat /\ len # 0 /\ \A k \in 1..len : s[k] \in Seq(S)
  OBVIOUS
<1> HIDE DEF len, Joins
<1>2. T = {}
  <2> SUFFICES ASSUME T # {} PROVE FALSE
    OBVIOUS
  <2>1. T \subseteq Nat
    BY <1>1
  <2>2. PICK m \in T : \A k \in T : m <= k
    BY <2>1, LeastNumber
  <2>3. m \in 1..len /\ ~\E f : Joins(m, f)
    OBVIOUS
  <2>4. CASE m = 1
    <3> DEFINE f == [k \in 1..1 |-> s[1]]
    <3>1. f \in [1..1 -> Seq(S)] /\ f[1] = s[1]
      BY <1>1
    <3> HIDE DEF f
    <3>2. Joins(1, f)
      BY <3>1 DEF Joins
    <3> QED
      BY <2>3, <2>4, <3>2
  <2>5. CASE m # 1
    <3>1. m - 1 \in 1..len /\ m - 1 \notin T /\ m \in Nat /\ m \in 1..len /\ 1 \in 1..(m - 1)
      <4> HIDE DEF T
      <4>1. m \in 1..len
        BY <2>3
      <4>2. m - 1 \in 1..len /\ ~(m <= m - 1) /\ m \in Nat /\ 1 \in 1..(m - 1)
        BY <1>1, <2>5, <4>1
      <4> QED
        BY <2>2, <4>1, <4>2
    <3>2. PICK f : Joins(m - 1, f)
      BY <3>1
    <3> USE DEF Joins
    <3>3. f[m - 1] \in Seq(S) /\ s[m] \in Seq(S)
      BY <1>1, <3>1, <3>2
    <3> PICK x : x = f[m - 1] \o s[m]
      OBVIOUS
    <3>4. x \in Seq(S)
      BY <3>3
    <3> DEFINE g == [k \in 1..m |-> IF k = m THEN x ELSE f[k]]
    <3>5. \A k \in 1..m : k = m \/ k \in 1..(m - 1)
      BY <3>1
    <3>6. g \in [1..m -> Seq(S)]
      BY <3>2, <3>4, <3>5
    <3>7. g[m] = x /\ \A k \in 1..(m - 1) : g[k] = f[k]
      <4>1. m \in 1..m /\ \A k \in 1..(m - 1) : k \in 1..m /\ k # m
        BY <3>1
      <4> QED
        BY <4>1
    <3> HIDE DEF g
    <3>8. \A k \in 2..m : g[k] = g[k - 1] \o s[k]
      <4> SUFFICES ASSUME NEW k \in 2..m PROVE g[k] = g[k - 1] \o s[k]
        OBVIOUS
      <4>1. k - 1 \in 1..(m - 1) /\ (k # m => k \in 2..(m - 1) /\ k \in 1..(m - 1))
        BY <3>1
      <4>2. g[k - 1] = f[k - 1]
        BY <3>7, <4>1
      <4>3. CASE k = m
        BY <3>7, <4>2, <4>3
      <4>4. CASE k # m
        BY <3>2, <3>7, <4>1, <4>2, <4>4
      <4> QED
        BY <4>3, <4>4
    <3>9. g[1] = s[1]
      BY <3>1, <3>2, <3>7
    <3>10. Joins(m, g)
      BY <3>6, <3>8, <3>9
    <3> QED
      BY <2>3, <3>10
  <2> QED
    BY <2>4, <2>5
<1>3. PICK f : Joins(len, f)
  <2>1. len \in 1..len
    BY <1>1
  <2> QED
    BY <1>2, <2>1
<1> USE DEF Joins
<1>4. \E g : g = [i \in 1..len |-> IF i = 1 THEN s[i] ELSE g[i - 1] \o s[i]]
  <2>1. \A i \in 1..len : f[i] = IF i = 1 THEN s[i] ELSE f[i - 1] \o s[i]
    <3> SUFFICES ASSUME NEW i \in 1..len, i # 1 PROVE f[i] = f[i - 1] \o s[i]
      BY <1>3
    <3>1. i \in 2..len
      BY <1>1
    <3> QED
      BY <1>3, <3>1
  <2>2. f = [i \in 1..len |-> f[i]]
    BY <1>3
  <2>3. f = [i \in 1..len |-> IF i = 1 THEN s[i] ELSE f[i - 1] \o s[i]]
    BY <2>1, <2>2
  <2> QED
    BY <2>3
<1>5. PICK g : /\ g = [i \in 1..len |-> IF i = 1 THEN s[i] ELSE g[i - 1] \o s[i]]
               /\ FlattenSeq(s) = g[len]
  BY <1>1, <1>4 DEF FlattenSeq, len
<1>6. g[1] = s[1] /\ \A k \in 2..len : g[k] = g[k - 1] \o s[k]
  <2>1. 1 \in 1..len /\ \A k \in 2..len : k \in 1..len /\ k # 1
    BY <1>1
  <2> QED
    BY <1>5, <2>1
<1>7. \A k \in 1..len : g[k] \in Seq(S)
  <2> DEFINE U == {k \in 1..len : g[k] \notin Seq(S)}
  <2> SUFFICES ASSUME U # {} PROVE FALSE
    OBVIOUS
  <2>1. U \subseteq Nat
    BY <1>1
  <2>2. PICK k \in U : \A j \in U : k <= j
    BY <2>1, LeastNumber
  <2>3. k \in 1..len /\ g[k] \notin Seq(S)
    OBVIOUS
  <2>4. k # 1
    BY <1>1, <1>6, <2>3
  <2>5. k \in 2..len /\ k - 1 \in 1..len /\ k - 1 \notin U
    BY <1>1, <2>2, <2>3, <2>4
  <2>6. g[k - 1] \in Seq(S) /\ s[k] \in Seq(S) /\ g[k] = g[k - 1] \o s[k]
    BY <1>1, <1>6, <2>3, <2>5
  <2> PICK x : x = g[k - 1]
    OBVIOUS
  <2> QED
    BY <2>3, <2>6
<1>8. g \in [1..len -> Seq(S)]
  BY <1>5, <1>7
<1> QED
  BY <1>5, <1>6, <1>8 DEF len

LEMMA PartsType ==
  ASSUME NEW S, NEW s \in Seq(Seq(S))
  PROVE  FlattenSeq(s) \in Seq(S)
<1>1. CASE s = <<>>
  <2>1. FlattenSeq(s) = s
    BY <1>1 DEF FlattenSeq
  <2>2. <<>> \in Seq(S)
    OBVIOUS
  <2> QED
    BY <1>1, <2>1, <2>2
<1>2. CASE s # <<>>
  <2>1. PICK f \in [1..Len(s) -> Seq(S)] : FlattenSeq(s) = f[Len(s)]
    BY <1>2, PartsJoin
  <2>2. Len(s) \in 1..Len(s)
    BY <1>2
  <2> QED
    BY <2>1, <2>2
<1> QED
  BY <1>1, <1>2

\* The part of a neutralised text that one of its characters becomes
Pieces(t) == [i \in DOMAIN t |-> IF Closes(t, i) THEN <<"]", "]", ">", "<![CDATA[", ">">> ELSE <<t[i]>>]

LEMMA PiecesType ==
  ASSUME NEW t \in Seq(Chars)
  PROVE  /\ Pieces(t) \in Seq(Seq(Chars)) /\ Len(Pieces(t)) = Len(t)
         /\ Neutralize(t) = FlattenSeq(Pieces(t)) /\ Neutralize(t) \in Seq(Chars)
<1> PICK m : m = Len(t)
  OBVIOUS
<1>1. m \in Nat /\ DOMAIN t = 1..m /\ \A i \in 1..m : t[i] \in Chars
  OBVIOUS
<1>2. PICK five : five = <<"]", "]", ">", "<![CDATA[", ">">>
  OBVIOUS
<1>3. five \in Seq(Chars)
  <2>1. "]" \in Chars /\ ">" \in Chars /\ "<![CDATA[" \in Chars
    BY DEF Chars
  <2> QED
    BY <1>2, <2>1
<1>4. Pieces(t) = [i \in 1..m |-> IF Closes(t, i) THEN five ELSE <<t[i]>>]
  BY <1>1, <1>2 DEF Pieces
<1>5. Pieces(t) \in [1..m -> Seq(Chars)]
  BY <1>1, <1>3, <1>4
<1>6. Pieces(t) \in Seq(Seq(Chars)) /\ Len(Pieces(t)) = m
  BY <1>1, <1>4, <1>5
<1>7. Neutralize(t) = FlattenSeq(Pieces(t))
  BY DEF Neutralize, Pieces
<1> QED
  BY <1>6, <1>7, PartsType

\* A character of a CDATA section that does not complete a "]]>" is collected.
LEMMA RunPlain ==
  ASSUME NEW o, NEW t \in Seq(Chars), NEW i \in 1..Len(t), ~Closes(t, i), NEW fr \in 0..(i - 1)
  PROVE  Run(InCdata(o, SubSeq(t, 1, i - 1), fr), <<t[i]>>, InCdata(o, SubSeq(t, 1, i), fr))
<1>1. PICK v : v = SubSeq(t, 1, i - 1)
  OBVIOUS
<1>2. v \in Seq(Chars) /\ Len(v) = i - 1 /\ \A k \in 1..(i - 1) : v[k] = t[k]
  BY <1>1
<1>3. SubSeq(t, 1, i) = Append(v, t[i])
  BY <1>1
<1>4. PICK ch : ch = t[i]
  OBVIOUS
<1>5. ~(ch = ">" /\ Len(v) >= fr + 2 /\ v[Len(v)] = "]" /\ v[Len(v) - 1] = "]")
  <2> SUFFICES ASSUME ch = ">", i - 1 >= fr + 2, v[i - 1] = "]", v[i - 1 - 1] = "]" PROVE FALSE
    BY <1>2
  <2>1. i - 1 \in 1..(i - 1) /\ i - 2 \in 1..(i - 1) /\ i > 2 /\ i - 1 - 1 = i - 2
    OBVIOUS
  <2>2. v[i - 1] = t[i - 1] /\ v[i - 2] = t[i - 2]
    BY <1>2, <2>1
  <2> QED
    BY <1>4, <2>1, <2>2 DEF Closes
<1>6. ReadChar(InCdata(o, v, fr), ch) = InCdata(o, Append(v, ch), fr)
  BY <1>5, ReadInCdata
<1>7. Run(InCdata(o, v, fr), <<ch>>, InCdata(o, Append(v, ch), fr))
  BY <1>6, RunChar
<1> QED
  BY <1>1, <1>3, <1>4, <1>7

\* Where a "]]>" is cut, the section ends with its brackets and the next one starts
\* with what follows them.
LEMMA RunCut ==
  ASSUME NEW o, NEW t \in Seq(Chars), NEW i \in 1..Len(t), Closes(t, i), NEW fr \in 0..(i - 1)
  PROVE  Run(InCdata(o, SubSeq(t, 1, i - 1), fr), <<"]", "]", ">", "<![CDATA[", ">">>,
             InCdata(o, SubSeq(t, 1, i), i - 1))
<1>1. PICK v : v = SubSeq(t, 1, i - 1)
  OBVIOUS
<1>2. v \in Seq(Chars) /\ Len(v) = i - 1
  BY <1>1
<1>3. PICK br, gt, open : br = "]" /\ gt = ">" /\ open = "<![CDATA["
  OBVIOUS
<1>4. br \in Chars /\ gt \in Chars /\ open \in Chars /\ br # gt
  BY <1>3 DEF Chars
<1>5. PICK v1 : v1 = Append(v, br)
  OBVIOUS
<1>6. PICK v2 : v2 = Append(v1, br)
  OBVIOUS
<1>7. /\ v1 \in Seq(Chars) /\ v2 \in Seq(Chars) /\ Len(v2) = i + 1
      /\ v2[i + 1] = br /\ v2[i] = br /\ SubSeq(v2, 1, i - 1) = v
  BY <1>2, <1>4, <1>5, <1>6
<1>8. ReadChar(InCdata(o, v, fr), br) = InCdata(o, v1, fr)
  BY <1>3, <1>5, ReadInCdata
<1>9. ReadChar(InCdata(o, v1, fr), br) = InCdata(o, v2, fr)
  BY <1>3, <1>6, ReadInCdata
<1>10. ReadChar(InCdata(o, v2, fr), gt) = InTag(o, v, fr)
  <2>1. gt = ">" /\ i + 1 >= fr + 2 /\ v2[i + 1] = "]" /\ v2[i + 1 - 1] = "]"
    BY <1>3, <1>7
  <2>2. ReadChar(InCdata(o, v2, fr), gt) = InTag(o, SubSeq(v2, 1, Len(v2) - 2), fr)
    <3>1. PICK p : p = Len(v2)
      OBVIOUS
    <3>2. p = i + 1
      BY <1>7, <3>1
    <3>3. gt = ">" /\ p >= fr + 2 /\ v2[p] = "]" /\ v2[p - 1] = "]"
      BY <2>1, <3>2
    <3> QED
      BY <3>1, <3>3, ReadInCdata
  <2>3. Len(v2) - 2 = i - 1
    BY <1>7
  <2> QED
    BY <1>7, <2>2, <2>3
<1>11. ReadChar(InTag(o, v, fr), open) = InCdata(o, v, i - 1)
  BY <1>2, <1>3, ReadInTag
<1>12. ReadChar(InCdata(o, v, i - 1), gt) = InCdata(o, Append(v, gt), i - 1)
  <2>1. ~(Len(v) >= i - 1 + 2)
    BY <1>2
  <2> QED
    BY <2>1, ReadInCdata
<1>13. Append(v, gt) = SubSeq(t, 1, i)
  BY <1>1, <1>3 DEF Closes
<1>14. PICK five : five = <<br, br, gt, open, gt>>
  OBVIOUS
<1>15. PICK v3 : v3 = Append(v, gt)
  OBVIOUS
<1>16. Run(InCdata(o, v, fr), five, InCdata(o, v3, i - 1))
  <2> DEFINE f == [k \in 0..5 |-> CASE k = 0 -> InCdata(o, v, fr) [] k = 1 -> InCdata(o, v1, fr)
                                    [] k = 2 -> InCdata(o, v2, fr) [] k = 3 -> InTag(o, v, fr)
                                    [] k = 4 -> InCdata(o, v, i - 1)
                                    [] OTHER -> InCdata(o, v3, i - 1)]
  <2>1. /\ f[0] = InCdata(o, v, fr) /\ f[1] = InCdata(o, v1, fr) /\ f[2] = InCdata(o, v2, fr)
        /\ f[3] = InTag(o, v, fr) /\ f[4] = InCdata(o, v, i - 1) /\ f[5] = InCdata(o, v3, i - 1)
    OBVIOUS
  <2> HIDE DEF f
  <2>2. Len(five) = 5 /\ five[1] = br /\ five[2] = br /\ five[3] = gt /\ five[4] = open /\ five[5] = gt
    BY <1>14
  <2>3. \A k \in 1..5 : f[k] = ReadChar(f[k - 1], five[k])
    <3> SUFFICES /\ f[1] = ReadChar(f[0], five[1]) /\ f[2] = ReadChar(f[1], five[2])
                 /\ f[3] = ReadChar(f[2], five[3]) /\ f[4] = ReadChar(f[3], five[4])
                 /\ f[5] = ReadChar(f[4], five[5])
      OBVIOUS
    <3> QED
      BY <1>8, <1>9, <1>10, <1>11, <1>12, <1>15, <2>1, <2>2
  <2> QED
    BY <2>1, <2>2, <2>3 DEF Run
<1> QED
  BY <1>1, <1>3, <1>13, <1>14, <1>15, <1>16

\* Read in a section, a neutralised text is the text.
LEMMA NeutralRun ==
  ASSUME NEW o, NEW t \in Seq(Chars)
  PROVE  \E fr \in 0..Len(t) : Run(InCdata(o, <<>>, 0), Neutralize(t), InCdata(o, t, fr))
<1> PICK m : m = Len(t)
  OBVIOUS
<1> PICK p : p = Pieces(t)
  OBVIOUS
<1>1. /\ m \in Nat /\ p \in Seq(Seq(Chars)) /\ Len(p) = m /\ Neutralize(t) = FlattenSeq(p)
  BY PiecesType
<1>2. CASE m = 0
  <2>1. t = <<>> /\ p = <<>>
    <3>1. Len(t) = 0 /\ Len(p) = 0 /\ p \in Seq(Seq(Chars))
      BY <1>1, <1>2
    <3> QED
      BY <3>1, EmptySeq
  <2>2. Neutralize(t) = <<>>
    BY <1>1, <2>1 DEF FlattenSeq
  <2>3. PICK a : a = InCdata(o, <<>>, 0)
    OBVIOUS
  <2>4. Run(a, <<>>, a)
    <3> DEFINE f == [k \in {0} |-> a]
    <3>1. f[0] = a /\ Len(<<>>) = 0
      OBVIOUS
    <3> HIDE DEF f
    <3> QED
      BY <3>1 DEF Run
  <2> QED
    BY <1>2, <2>1, <2>2, <2>3, <2>4
<1>3. CASE m # 0
  <2>1. p # <<>>
    BY <1>1, <1>3
  <2>2. PICK f \in [1..m -> Seq(Chars)] :
          /\ f[1] = p[1] /\ FlattenSeq(p) = f[m]
          /\ \A k \in 2..m : f[k] = f[k - 1] \o p[k]
    <3>1. \E f \in [1..Len(p) -> Seq(Chars)] :
            /\ f[1] = p[1]
            /\ \A k \in 2..Len(p) : f[k] = f[k - 1] \o p[k]
            /\ FlattenSeq(p) = f[Len(p)]
      BY <1>1, <2>1, PartsJoin
    <3> QED
      BY ZenonT(40), <1>1, <3>1
  <2> DEFINE Reached(k) == \E fr \in 0..k :
               Run(InCdata(o, <<>>, 0), f[k], InCdata(o, SubSeq(t, 1, k), fr))
  <2>3. \A i \in 1..m : \A fr \in 0..(i - 1) : \E new \in 0..i :
          /\ p[i] \in Seq(Chars)
          /\ Run(InCdata(o, SubSeq(t, 1, i - 1), fr), p[i], InCdata(o, SubSeq(t, 1, i), new))
    <3> SUFFICES ASSUME NEW i \in 1..m, NEW fr \in 0..(i - 1)
                 PROVE  \E new \in 0..i :
                          /\ p[i] \in Seq(Chars)
                          /\ Run(InCdata(o, SubSeq(t, 1, i - 1), fr), p[i],
                                 InCdata(o, SubSeq(t, 1, i), new))
      OBVIOUS
    <3>1. p[i] \in Seq(Chars) /\ fr \in 0..i /\ i - 1 \in 0..i
      BY <1>1
    <3>2. CASE Closes(t, i)
      <4>1. p[i] = <<"]", "]", ">", "<![CDATA[", ">">>
        BY <3>2 DEF Pieces
      <4> QED
        BY <3>1, <3>2, <4>1, RunCut
    <3>3. CASE ~Closes(t, i)
      <4>1. p[i] = <<t[i]>>
        BY <3>3 DEF Pieces
      <4> QED
        BY <3>1, <3>3, <4>1, RunPlain
    <3> QED
      BY <3>2, <3>3
  <2>4. Reached(1)
    <3>1. 1 \in 1..m /\ 0 \in 0..(1 - 1)
      BY <1>1, <1>3
    <3>2. PICK new \in 0..1 :
            Run(InCdata(o, SubSeq(t, 1, 1 - 1), 0), p[1], InCdata(o, SubSeq(t, 1, 1), new))
      BY <2>3, <3>1
    <3>3. SubSeq(t, 1, 1 - 1) = <<>>
      OBVIOUS
    <3> QED
      BY <2>2, <3>2, <3>3
  <2>5. \A k \in 2..m : Reached(k - 1) => Reached(k)
    <3> SUFFICES ASSUME NEW k \in 2..m, Reached(k - 1) PROVE Reached(k)
      OBVIOUS
    <3>1. PICK fr \in 0..(k - 1) :
            Run(InCdata(o, <<>>, 0), f[k - 1], InCdata(o, SubSeq(t, 1, k - 1), fr))
      OBVIOUS
    <3>2. k \in 1..m /\ k - 1 \in 1..m
      BY <1>1
    <3>3. PICK new \in 0..k :
            /\ p[k] \in Seq(Chars)
            /\ Run(InCdata(o, SubSeq(t, 1, k - 1), fr), p[k], InCdata(o, SubSeq(t, 1, k), new))
      BY <2>3, <3>2
    <3>4. PICK before, part, a, b, d :
            /\ before = f[k - 1] /\ part = p[k] /\ a = InCdata(o, <<>>, 0)
            /\ b = InCdata(o, SubSeq(t, 1, k - 1), fr) /\ d = InCdata(o, SubSeq(t, 1, k), new)
      OBVIOUS
    <3>5. before \in Seq(Chars)
      BY <2>2, <3>2, <3>4
    <3>6. Run(a, before \o part, d)
      BY <3>1, <3>3, <3>4, <3>5, RunConcat
    <3>7. f[k] = before \o part
      BY <2>2, <3>4
    <3> QED
      BY <3>4, <3>6, <3>7
  <2> HIDE DEF Reached
  <2> DEFINE T == {k \in 1..m : ~Reached(k)}
  <2>6. T = {}
    <3> SUFFICES ASSUME T # {} PROVE FALSE
      OBVIOUS
    <3>1. T \subseteq Nat
      BY <1>1
    <3>2. PICK k \in T : \A j \in T : k <= j
      BY <3>1, LeastNumber
    <3>3. k \in 1..m /\ ~Reached(k)
      OBVIOUS
    <3>4. k # 1
      BY <2>4, <3>3
    <3>5. k \in 2..m /\ k - 1 \in 1..m /\ ~(k <= k - 1)
      BY <1>1, <3>3, <3>4
    <3>6. Reached(k - 1)
      BY <3>2, <3>5
    <3> QED
      BY <2>5, <3>3, <3>5, <3>6
  <2>7. Reached(m)
    BY <1>1, <1>3, <2>6
  <2>8. SubSeq(t, 1, m) = t
    OBVIOUS
  <2> QED
    BY <1>1, <2>2, <2>7, <2>8 DEF Reached
<1> QED
  BY <1>2, <1>3

LEMMA CdataRun ==
  ASSUME NEW o, NEW t \in Seq(Chars), NEW fr
  PROVE  /\ CdataWrap(t) \in Seq(Chars)
         /\ \E new : Run(InTag(o, <<>>, fr), CdataWrap(t), InTag(o, t, new))
<1>1. PICK open, brs, body : /\ open = <<"<![CDATA[">> /\ brs = <<"]", "]", ">">>
                             /\ body = Neutralize(t)
  OBVIOUS
<1>2. open \in Seq(Chars) /\ brs \in Seq(Chars) /\ body \in Seq(Chars)
  <2>1. "]" \in Chars /\ ">" \in Chars /\ "<![CDATA[" \in Chars
    BY DEF Chars
  <2> QED
    BY <1>1, <2>1, PiecesType
<1>3. Run(InTag(o, <<>>, fr), open, InCdata(o, <<>>, 0))
  <2>1. ReadChar(InTag(o, <<>>, fr), "<![CDATA[") = InCdata(o, <<>>, Len(<<>>))
    BY ReadInTag
  <2>2. Len(<<>>) = 0
    OBVIOUS
  <2> QED
    BY <1>1, <2>1, <2>2, RunChar
<1>4. PICK new \in 0..Len(t) : Run(InCdata(o, <<>>, 0), body, InCdata(o, t, new))
  BY <1>1, NeutralRun
<1>5. Run(InCdata(o, t, new), brs, InTag(o, t, new))
  <2>1. PICK br, gt : br = "]" /\ gt = ">"
    OBVIOUS
  <2>2. br \in Chars /\ gt \in Chars /\ br # gt
    BY <2>1 DEF Chars
  <2>3. PICK v1 : v1 = Append(t, br)
    OBVIOUS
  <2>4. PICK v2 : v2 = Append(v1, br)
    OBVIOUS
  <2>5. PICK m : m = Len(t) + 2
    OBVIOUS
  <2>6. /\ v1 \in Seq(Chars) /\ v2 \in Seq(Chars) /\ Len(v2) = m /\ m \in Nat
        /\ v2[m] = br /\ v2[m - 1] = br /\ SubSeq(v2, 1, m - 2) = t
    BY <2>2, <2>3, <2>4, <2>5
  <2>7. ReadChar(InCdata(o, t, new), br) = InCdata(o, v1, new)
    BY <2>1, <2>3, ReadInCdata
  <2>8. ReadChar(InCdata(o, v1, new), br) = InCdata(o, v2, new)
    BY <2>1, <2>4, ReadInCdata
  <2>9. ReadChar(InCdata(o, v2, new), gt) = InTag(o, t, new)
    <3>1. gt = ">" /\ m >= new + 2 /\ v2[m] = "]" /\ v2[m - 1] = "]"
      BY <2>1, <2>5, <2>6
    <3>2. PICK len : len = Len(v2)
      OBVIOUS
    <3>3. len = m
      BY <2>6, <3>2
    <3>4. ReadChar(InCdata(o, v2, new), gt) = InTag(o, SubSeq(v2, 1, len - 2), new)
      BY <3>1, <3>2, <3>3, ReadInCdata
    <3> QED
      BY <2>6, <3>3, <3>4
  <2>10. brs = <<br, br, gt>>
    BY <1>1, <2>1
  <2> DEFINE f == [k \in 0..3 |-> CASE k = 0 -> InCdata(o, t, new) [] k = 1 -> InCdata(o, v1, new)
                                    [] k = 2 -> InCdata(o, v2, new) [] OTHER -> InTag(o, t, new)]
  <2>11. /\ f[0] = InCdata(o, t, new) /\ f[1] = InCdata(o, v1, new)
         /\ f[2] = InCdata(o, v2, new) /\ f[3] = InTag(o, t, new)
    OBVIOUS
  <2> HIDE DEF f
  <2>12. Len(brs) = 3 /\ brs[1] = br /\ brs[2] = br /\ brs[3] = gt
    BY <2>10
  <2>13. \A k \in 1..3 : f[k] = ReadChar(f[k - 1], brs[k])
    <3> SUFFICES /\ f[1] = ReadChar(f[0], brs[1]) /\ f[2] = ReadChar(f[1], brs[2])
                 /\ f[3] = ReadChar(f[2], brs[3])
      OBVIOUS
    <3> QED
      BY <2>7, <2>8, <2>9, <2>11, <2>12
  <2> QED
    BY <2>11, <2>12, <2>13 DEF Run
<1>6. PICK ob : ob = open \o body
  OBVIOUS
<1>7. ob \in Seq(Chars) /\ Run(InTag(o, <<>>, fr), ob, InCdata(o, t, new))
  <2>1. ob \in Seq(Chars)
    BY <1>2, <1>6
  <2> QED
    BY <1>2, <1>3, <1>4, <1>6, <2>1, RunConcat
<1>8. Run(InTag(o, <<>>, fr), ob \o brs, InTag(o, t, new))
  BY <1>2, <1>5, <1>7, RunConcat
<1>9. CdataWrap(t) = ob \o brs
  BY <1>1, <1>6 DEF CdataWrap
<1>10. ob \o brs \in Seq(Chars)
  BY <1>2, <1>7
<1> QED
  BY <1>8, <1>9, <1>10

\* Between elements, reading s adds the texts m to what was read.
Reads(s, m) ==
  \A o \in Seq(Seq(Chars)) : \A fr :
    \E new : Run(InTag(o, <<>>, fr), s, InTag(o \o m, <<>>, new))

LEMMA ReadsConcat ==
  ASSUME NEW s \in Seq(Chars), NEW t \in Seq(Chars),
         NEW k \in Seq(Seq(Chars)), NEW m \in Seq(Seq(Chars)), Reads(s, k), Reads(t, m)
  PROVE  s \o t \in Seq(Chars) /\ k \o m \in Seq(Seq(Chars)) /\ Reads(s \o t, k \o m)
<1>0. s \o t \in Seq(Chars) /\ k \o m \in Seq(Seq(Chars))
  BY ConcatProperties
<1> SUFFICES ASSUME NEW o \in Seq(Seq(Chars)), NEW fr
             PROVE  \E new : Run(InTag(o, <<>>, fr), s \o t, InTag(o \o (k \o m), <<>>, new))
  BY <1>0 DEF Reads
<1>1. PICK mid : Run(InTag(o, <<>>, fr), s, InTag(o \o k, <<>>, mid))
  BY DEF Reads
<1>2. PICK ok : ok = o \o k
  OBVIOUS
<1>3. ok \in Seq(Seq(Chars))
  BY <1>2
<1>4. PICK new : Run(InTag(ok, <<>>, mid), t, InTag(ok \o m, <<>>, new))
  BY <1>3 DEF Reads
<1>5. ok \o m = o \o (k \o m)
  <2>1. (o \o k) \o m = o \o (k \o m)
    BY SMTT(40), ConcatAssociative
  <2> QED
    BY <1>2, <2>1
<1>6. PICK a, b, d : /\ a = InTag(o, <<>>, fr) /\ b = InTag(ok, <<>>, mid)
                     /\ d = InTag(ok \o m, <<>>, new)
  OBVIOUS
<1>7. Run(a, s \o t, d)
  BY <1>1, <1>2, <1>4, <1>6, RunConcat
<1> QED
  BY <1>5, <1>6, <1>7

LEMMA ReadsNothing ==
  ASSUME NEW ch \in {"<file", "<sample", "/>", ">"}
  PROVE  <<ch>> \in Seq(Chars) /\ Reads(<<ch>>, <<>>)
<1>1. ch \in Chars
  BY DEF Chars
<1>2. ASSUME NEW o \in Seq(Seq(Chars)), NEW fr
      PROVE  Run(InTag(o, <<>>, fr), <<ch>>, InTag(o \o <<>>, <<>>, fr))
  <2>1. o \o <<>> = o
    OBVIOUS
  <2>2. ReadChar(InTag(o, <<>>, fr), ch) = InTag(o, <<>>, fr)
    BY ReadInTag
  <2> QED
    BY <2>1, <2>2, RunChar
<1>3. Reads(<<ch>>, <<>>)
  BY <1>2 DEF Reads
<1> QED
  BY <1>1, <1>3

LEMMA ReadsQuoted ==
  ASSUME NEW t \in Seq(Chars)
  PROVE  /\ Quoted(t) \in Seq(Chars) /\ <<Escape(t)>> \in Seq(Seq(Chars))
         /\ Reads(Quoted(t), <<Escape(t)>>)
<1>1. PICK e : e = Escape(t)
  OBVIOUS
<1>2. e \in Seq(Chars)
  BY <1>1, EscapeFacts
<1>3. ASSUME NEW o \in Seq(Seq(Chars)), NEW fr
      PROVE  Run(InTag(o, <<>>, fr), Quoted(t), InTag(o \o <<e>>, <<>>, fr))
  <2>1. o \o <<e>> = Append(o, e)
    BY <1>2
  <2> QED
    BY <1>1, <2>1, QuotedRun
<1>4. Reads(Quoted(t), <<e>>)
  BY <1>3 DEF Reads
<1>5. Quoted(t) \in Seq(Chars) /\ <<e>> \in Seq(Seq(Chars))
  <2>1. Quoted(t) \in Seq(Chars)
    BY QuotedRun
  <2>2. <<e>> \in Seq(Seq(Chars))
    BY <1>2
  <2> QED
    BY <2>1, <2>2
<1> QED
  BY <1>1, <1>4, <1>5

LEMMA ReadsElement ==
  ASSUME NEW t \in Seq(Chars), NEW ch \in {"</sample>", "</file>"}
  PROVE  /\ CdataWrap(t) \o <<ch>> \in Seq(Chars) /\ <<t>> \in Seq(Seq(Chars))
         /\ Reads(CdataWrap(t) \o <<ch>>, <<t>>)
<1>1. PICK w, end : w = CdataWrap(t) /\ end = <<ch>>
  OBVIOUS
<1>2. w \in Seq(Chars) /\ end \in Seq(Chars)
  <2>1. ch \in Chars
    BY DEF Chars
  <2> QED
    BY <1>1, <2>1, CdataRun
<1>3. ASSUME NEW o \in Seq(Seq(Chars)), NEW fr
      PROVE  \E new : Run(InTag(o, <<>>, fr), w \o end, InTag(o \o <<t>>, <<>>, new))
  <2>1. o \o <<t>> = Append(o, t)
    OBVIOUS
  <2>2. PICK new : Run(InTag(o, <<>>, fr), w, InTag(o, t, new))
    BY <1>1, CdataRun
  <2>3. ReadChar(InTag(o, t, new), ch) = InTag(Append(o, t), <<>>, new)
    BY ReadInTag
  <2>4. PICK a, b, d : /\ a = InTag(o, <<>>, fr) /\ b = InTag(o, t, new)
                       /\ d = InTag(Append(o, t), <<>>, new)
    OBVIOUS
  <2>5. Run(b, end, d)
    BY <1>1, <2>3, <2>4, RunChar
  <2>6. Run(a, w \o end, d)
    BY <1>2, <2>2, <2>4, <2>5, RunConcat
  <2> QED
    BY <2>1, <2>4, <2>6
<1>4. Reads(w \o end, <<t>>)
  BY <1>3 DEF Reads
<1> QED
  BY <1>1, <1>2, <1>4

\* Elements read one after the other are read as their texts, one after the other.
LEMMA ReadsParts ==
  ASSUME NEW p \in Seq(Seq(Chars)), NEW m \in Seq(Seq(Seq(Chars))), Len(p) = Len(m),
         \A i \in 1..Len(p) : Reads(p[i], m[i])
  PROVE  Reads(FlattenSeq(p), FlattenSeq(m))
<1> PICK k : k = Len(p)
  OBVIOUS
<1>1. k \in Nat /\ Len(m) = k
  OBVIOUS
<1>2. CASE k = 0
  <2>1. p = <<>> /\ m = <<>>
    BY <1>1, <1>2, EmptySeq
  <2>2. FlattenSeq(p) = <<>> /\ FlattenSeq(m) = <<>>
    BY <2>1 DEF FlattenSeq
  <2>3. ASSUME NEW o \in Seq(Seq(Chars)), NEW fr
        PROVE  Run(InTag(o, <<>>, fr), <<>>, InTag(o \o <<>>, <<>>, fr))
    <3>1. PICK a : a = InTag(o, <<>>, fr)
      OBVIOUS
    <3>2. o \o <<>> = o
      OBVIOUS
    <3>3. Run(a, <<>>, a)
      <4> DEFINE f == [j \in {0} |-> a]
      <4>1. f[0] = a /\ Len(<<>>) = 0
        OBVIOUS
      <4> HIDE DEF f
      <4> QED
        BY <4>1 DEF Run
    <3> QED
      BY <3>1, <3>2, <3>3
  <2>4. Reads(<<>>, <<>>)
    BY <2>3 DEF Reads
  <2> QED
    BY <2>2, <2>4
<1>3. CASE k # 0
  <2>1. p # <<>> /\ m # <<>>
    BY <1>1, <1>3
  <2>2. PICK f \in [1..k -> Seq(Chars)] :
          /\ f[1] = p[1] /\ FlattenSeq(p) = f[k]
          /\ \A i \in 2..k : f[i] = f[i - 1] \o p[i]
    <3>1. \E f \in [1..Len(p) -> Seq(Chars)] :
            /\ f[1] = p[1]
            /\ \A i \in 2..Len(p) : f[i] = f[i - 1] \o p[i]
            /\ FlattenSeq(p) = f[Len(p)]
      BY <2>1, PartsJoin
    <3> QED
      BY <3>1
  <2>3. PICK g \in [1..k -> Seq(Seq(Chars))] :
          /\ g[1] = m[1] /\ FlattenSeq(m) = g[k]
          /\ \A i \in 2..k : g[i] = g[i - 1] \o m[i]
    <3>1. \E g \in [1..Len(m) -> Seq(Seq(Chars))] :
            /\ g[1] = m[1]
            /\ \A i \in 2..Len(m) : g[i] = g[i - 1] \o m[i]
            /\ FlattenSeq(m) = g[Len(m)]
      BY <2>1, PartsJoin
    <3> QED
      BY <1>1, <3>1
  <2> DEFINE T == {i \in 1..k : ~Reads(f[i], g[i])}
  <2>4. T = {}
    <3> SUFFICES ASSUME T # {} PROVE FALSE
      OBVIOUS
    <3>1. T \subseteq Nat
      BY <1>1
    <3>2. PICK i \in T : \A j \in T : i <= j
      BY <3>1, LeastNumber
    <3>3. i \in 1..k /\ ~Reads(f[i], g[i])
      OBVIOUS
    <3>4. Reads(p[i], m[i]) /\ p[i] \in Seq(Chars) /\ m[i] \in Seq(Seq(Chars))
      BY <1>1, <3>3
    <3>5. i # 1
      BY <2>2, <2>3, <3>3, <3>4
    <3>6. i \in 2..k /\ i - 1 \in 1..k /\ ~(i <= i - 1)
      BY <1>1, <3>3, <3>5
    <3>7. Reads(f[i - 1], g[i - 1])
      BY <3>2, <3>6
    <3>8. PICK s, t, u, v : s = f[i - 1] /\ t = p[i] /\ u = g[i - 1] /\ v = m[i]
      OBVIOUS
    <3>9. s \in Seq(Chars) /\ u \in Seq(Seq(Chars))
      BY <2>2, <2>3, <3>6, <3>8
    <3>10. Reads(s \o t, u \o v)
      BY <3>4, <3>7, <3>8, <3>9, ReadsConcat
    <3>11. f[i] = s \o t /\ g[i] = u \o v
      BY <2>2, <2>3, <3>6, <3>8
    <3> QED
      BY <3>3, <3>10, <3>11
  <2>5. Reads(f[k], g[k])
    BY SMTT(40), <1>1, <1>3, <2>4
  <2> QED
    BY <2>2, <2>3, <2>5
<1> QED
  BY <1>2, <1>3

LEMMA MoreChars ==
  ASSUME NEW t \in Seq(STRING)
  PROVE  t \in Seq(Chars)
<1>1. PICK m : m = Len(t)
  OBVIOUS
<1>2. m \in Nat /\ t \in [1..m -> STRING]
  BY <1>1
<1>3. t \in [1..m -> Chars]
  BY <1>2 DEF Chars
<1> QED
  BY <1>2, <1>3

\* The parts of an inventory entry
Tagged == [tag : STRING, text : Seq(STRING)]

\* The last part with a tag is one of the entry's parts.
LEMMA PartIsText ==
  ASSUME NEW entry \in Seq(Tagged), NEW tag, \E i \in DOMAIN entry : entry[i].tag = tag
  PROVE  Part(entry, tag) \in Seq(Chars)
<1> DEFINE hits == {i \in DOMAIN entry : entry[i].tag = tag}
           m == Len(entry)
           T == {m - i : i \in hits}
<1>1. m \in Nat /\ hits \subseteq 1..m /\ hits # {}
  OBVIOUS
<1> HIDE DEF hits, m
<1>2. T \subseteq Nat /\ T # {}
  <2>1. \A i \in hits : m - i \in Nat
    <3> SUFFICES ASSUME NEW i \in hits PROVE m - i \in Nat
      OBVIOUS
    <3>1. i \in 1..m
      BY <1>1
    <3> QED
      BY <1>1, <3>1
  <2> QED
    BY <1>1, <2>1
<1>3. PICK d \in T : \A e \in T : d <= e
  BY <1>2, LeastNumber
<1>4. PICK top \in hits : d = m - top
  OBVIOUS
<1>5. \A j \in hits : j <= top
  <2> SUFFICES ASSUME NEW j \in hits PROVE j <= top
    OBVIOUS
  <2>1. d <= m - j
    BY <1>3
  <2> QED
    BY <1>1, <1>4, <2>1
<1>6. Greatest(hits) \in hits
  BY <1>5 DEF Greatest
<1>7. PICK g : g = Greatest(hits)
  OBVIOUS
<1>8. g \in 1..Len(entry)
  BY <1>1, <1>6, <1>7 DEF m
<1>9. entry[g] \in Tagged
  BY <1>8
<1>10. entry[g].text \in Seq(STRING)
  BY <1>9 DEF Tagged
<1>11. Part(entry, tag) = entry[g].text
  BY <1>1, <1>7 DEF Part, hits
<1> QED
  BY <1>10, <1>11, MoreChars

LEMMA JoinedLiterals ==
  ASSUME NEW x, NEW y, NEW z
  PROVE  <<x>> \o <<y>> = <<x, y>> /\ <<x, y>> \o <<z>> = <<x, y, z>>
<1> PICK S : S = {x, y, z}
  OBVIOUS
<1>1. PICK a, b, d, e, f : a = <<x>> /\ b = <<y>> /\ d = <<x, y>> /\ e = <<z>> /\ f = <<x, y, z>>
  OBVIOUS
<1>2. /\ a \in Seq(S) /\ b \in Seq(S) /\ d \in Seq(S) /\ e \in Seq(S) /\ f \in Seq(S)
      /\ Len(a) = 1 /\ Len(b) = 1 /\ Len(d) = 2 /\ Len(e) = 1 /\ Len(f) = 3
      /\ a[1] = x /\ b[1] = y /\ d[1] = x /\ d[2] = y /\ e[1] = z
      /\ f[1] = x /\ f[2] = y /\ f[3] = z
  BY <1>1
<1>3. a \o b = d
  <2>1. PICK u : u = a \o b
    OBVIOUS
  <2>2. /\ u \in Seq(S) /\ Len(u) = Len(a) + Len(b)
        /\ \A i \in 1..(Len(a) + Len(b)) : u[i] = IF i <= Len(a) THEN a[i] ELSE b[i - Len(a)]
    BY <1>2, <2>1, ConcatProperties
  <2>3. Len(u) = 2 /\ \A i \in 1..2 : u[i] = IF i <= 1 THEN a[i] ELSE b[i - 1]
    BY <1>2, <2>2
  <2>4. \A i \in 1..2 : u[i] = d[i]
    <3>1. 1 \in 1..2 /\ 2 \in 1..2 /\ 2 - 1 = 1 /\ \A i \in 1..2 : i = 1 \/ i = 2
      OBVIOUS
    <3>2. u[1] = x /\ u[2] = y
      BY <1>2, <2>3
    <3> QED
      BY <1>2, <3>1, <3>2
  <2> QED
    BY <1>2, <2>1, <2>2, <2>3, <2>4, SeqEqual
<1>4. d \o e = f
  <2>1. PICK u : u = d \o e
    OBVIOUS
  <2>2. /\ u \in Seq(S) /\ Len(u) = Len(d) + Len(e)
        /\ \A i \in 1..(Len(d) + Len(e)) : u[i] = IF i <= Len(d) THEN d[i] ELSE e[i - Len(d)]
    BY <1>2, <2>1, ConcatProperties
  <2>3. Len(u) = 3 /\ \A i \in 1..3 : u[i] = IF i <= 2 THEN d[i] ELSE e[i - 2]
    BY <1>2, <2>2
  <2>4. \A i \in 1..3 : u[i] = f[i]
    <3>1. /\ 1 \in 1..3 /\ 2 \in 1..3 /\ 3 \in 1..3 /\ 3 - 2 = 1
          /\ \A i \in 1..3 : i = 1 \/ i = 2 \/ i = 3
      OBVIOUS
    <3>2. u[1] = x /\ u[2] = y /\ u[3] = z
      BY <1>2, <2>3
    <3> QED
      BY <1>2, <3>1, <3>2
  <2> QED
    BY <1>2, <2>1, <2>2, <2>3, <2>4, SeqEqual
<1> QED
  BY <1>1, <1>3, <1>4

\* What one entry should be read as
MeantFile(f) ==
  IF Complete(f) THEN <<Escape(Part(f, "ID")), Escape(Part(f, "Name")), Escape(Part(f, "Path"))>>
  ELSE <<FlattenSeq([j \in DOMAIN f |-> f[j].text])>>

LEMMA ReadsFile ==
  ASSUME NEW entry \in Seq(Tagged)
  PROVE  /\ RenderFile(entry) \in Seq(Chars) /\ MeantFile(entry) \in Seq(Seq(Chars))
         /\ Reads(RenderFile(entry), MeantFile(entry))
<1>1. CASE Complete(entry)
  <2>1. PICK x, y, z : x = Part(entry, "ID") /\ y = Part(entry, "Name") /\ z = Part(entry, "Path")
    OBVIOUS
  <2>2. x \in Seq(Chars) /\ y \in Seq(Chars) /\ z \in Seq(Chars)
    BY <1>1, <2>1, PartIsText DEF Complete
  <2>3. PICK qx, qy, qz, start, end : /\ qx = Quoted(x) /\ qy = Quoted(y) /\ qz = Quoted(z)
                                      /\ start = <<"<file">> /\ end = <<"/>">>
    OBVIOUS
  <2>4. PICK ex, ey, ez : ex = Escape(x) /\ ey = Escape(y) /\ ez = Escape(z)
    OBVIOUS
  <2>5. /\ qx \in Seq(Chars) /\ <<ex>> \in Seq(Seq(Chars)) /\ Reads(qx, <<ex>>)
        /\ qy \in Seq(Chars) /\ <<ey>> \in Seq(Seq(Chars)) /\ Reads(qy, <<ey>>)
        /\ qz \in Seq(Chars) /\ <<ez>> \in Seq(Seq(Chars)) /\ Reads(qz, <<ez>>)
    BY <2>2, <2>3, <2>4, ReadsQuoted
  <2>6. /\ start \in Seq(Chars) /\ Reads(start, <<>>) /\ end \in Seq(Chars) /\ Reads(end, <<>>)
        /\ <<>> \in Seq(Seq(Chars))
    BY <2>3, ReadsNothing, EmptySeq
  <2>7. PICK s1, m1 : s1 = start \o qx /\ m1 = <<>> \o <<ex>>
    OBVIOUS
  <2>8. s1 \in Seq(Chars) /\ m1 \in Seq(Seq(Chars)) /\ Reads(s1, m1)
    BY <2>5, <2>6, <2>7, ReadsConcat
  <2>9. PICK s2, m2 : s2 = s1 \o qy /\ m2 = m1 \o <<ey>>
    OBVIOUS
  <2>10. s2 \in Seq(Chars) /\ m2 \in Seq(Seq(Chars)) /\ Reads(s2, m2)
    BY <2>5, <2>8, <2>9, ReadsConcat
  <2>11. PICK s3, m3 : s3 = s2 \o qz /\ m3 = m2 \o <<ez>>
    OBVIOUS
  <2>12. s3 \in Seq(Chars) /\ m3 \in Seq(Seq(Chars)) /\ Reads(s3, m3)
    BY <2>5, <2>10, <2>11, ReadsConcat
  <2>13. PICK s4, m4 : s4 = s3 \o end /\ m4 = m3 \o <<>>
    OBVIOUS
  <2>14. s4 \in Seq(Chars) /\ m4 \in Seq(Seq(Chars)) /\ Reads(s4, m4)
    BY <2>6, <2>12, <2>13, ReadsConcat
  <2>15. m4 = <<ex, ey, ez>>
    <3>1. m1 = <<ex>>
      BY <2>7
    <3>2. m2 = <<ex, ey>>
      BY <2>9, <3>1, JoinedLiterals
    <3>3. m3 = <<ex, ey, ez>>
      BY <2>11, <3>2, JoinedLiterals
    <3>4. m3 \o <<>> = m3
      BY <2>12, ConcatEmptySeq
    <3> QED
      BY <2>13, <3>3, <3>4
  <2>16. MeantFile(entry) = <<ex, ey, ez>>
    BY <1>1, <2>1, <2>4 DEF MeantFile
  <2>17. RenderFile(entry) = s4
    BY <1>1, <2>1, <2>3, <2>7, <2>9, <2>11, <2>13 DEF RenderFile
  <2> QED
    BY <2>14, <2>15, <2>16, <2>17
<1>2. CASE ~Complete(entry)
  <2> DEFINE texts == [j \in DOMAIN entry |-> entry[j].text]
  <2>1. texts \in Seq(Seq(STRING))
    <3>1. PICK k : k = Len(entry)
      OBVIOUS
    <3>2. k \in Nat /\ DOMAIN entry = 1..k
      BY <3>1
    <3>3. \A j \in 1..k : entry[j].text \in Seq(STRING)
      <4> SUFFICES ASSUME NEW j \in 1..k PROVE entry[j].text \in Seq(STRING)
        OBVIOUS
      <4>1. entry[j] \in Tagged
        BY <3>1
      <4> QED
        BY <4>1 DEF Tagged
    <3>4. texts \in [1..k -> Seq(STRING)]
      BY <3>2, <3>3
    <3> HIDE DEF texts
    <3> QED
      BY <3>2, <3>4
  <2> HIDE DEF texts
  <2>2. PICK whole : whole = FlattenSeq(texts)
    OBVIOUS
  <2>3. whole \in Seq(Chars)
    BY <2>1, <2>2, PartsType, MoreChars
  <2>4. PICK file, gt, rest : /\ file = <<"<file">> /\ gt = <<">">>
                              /\ rest = CdataWrap(whole) \o <<"</file>">>
    OBVIOUS
  <2>5. /\ file \in Seq(Chars) /\ Reads(file, <<>>) /\ gt \in Seq(Chars) /\ Reads(gt, <<>>)
        /\ <<>> \in Seq(Seq(Chars))
    BY <2>4, ReadsNothing, EmptySeq
  <2>6. rest \in Seq(Chars) /\ <<whole>> \in Seq(Seq(Chars)) /\ Reads(rest, <<whole>>)
    BY <2>3, <2>4, ReadsElement
  <2>7. PICK s1, m1 : s1 = file \o gt /\ m1 = <<>> \o <<>>
    OBVIOUS
  <2>8. s1 \in Seq(Chars) /\ m1 \in Seq(Seq(Chars)) /\ Reads(s1, m1)
    BY <2>5, <2>7, ReadsConcat
  <2>9. PICK s2, m2 : s2 = s1 \o rest /\ m2 = m1 \o <<whole>>
    OBVIOUS
  <2>10. s2 \in Seq(Chars) /\ m2 \in Seq(Seq(Chars)) /\ Reads(s2, m2)
    BY <2>6, <2>8, <2>9, ReadsConcat
  <2>11. m2 = <<whole>>
    BY <2>7, <2>9
  <2>12. MeantFile(entry) = <<whole>>
    BY <1>2, <2>2 DEF MeantFile, texts
  <2>13. RenderFile(entry) = s2
    <3>1. PICK w, e : w = CdataWrap(whole) /\ e = <<"</file>">>
      OBVIOUS
    <3>2. w \in Seq(Chars) /\ e \in Seq(Chars)
      <4>1. "</file>" \in Chars
        BY DEF Chars
      <4> QED
        BY <2>3, <3>1, <4>1, CdataRun
    <3>3. (s1 \o w) \o e = s1 \o (w \o e)
      BY SMTT(40), <2>8, <3>2, ConcatAssociative
    <3>4. s1 = <<"<file", ">">>
      BY <2>4, <2>7, JoinedLiterals
    <3>5. RenderFile(entry) = (s1 \o w) \o e
      BY <1>2, <2>2, <3>1, <3>4 DEF RenderFile, texts
    <3> QED
      BY <2>4, <2>9, <3>1, <3>3, <3>5
  <2> QED
    BY <2>10, <2>11, <2>12, <2>13
<1> QED
  BY <1>1, <1>2

LEMMA ReadsSample ==
  ASSUME NEW sample \in [id : Seq(STRING), preview : Seq(STRING)]
  PROVE  /\ RenderSample(sample) \in Seq(Chars)
         /\ <<Escape(sample.id), sample.preview>> \in Seq(Seq(Chars))
         /\ Reads(RenderSample(sample), <<Escape(sample.id), sample.preview>>)
<1>1. PICK id, preview : id = sample.id /\ preview = sample.preview
  OBVIOUS
<1>2. id \in Seq(Chars) /\ preview \in Seq(Chars)
  <2>1. sample.id \in Seq(STRING) /\ sample.preview \in Seq(STRING)
    OBVIOUS
  <2> QED
    BY <1>1, <2>1, MoreChars
<1>3. PICK tag, gt, q, e, rest : /\ tag = <<"<sample">> /\ gt = <<">">> /\ q = Quoted(id)
                                 /\ e = Escape(id) /\ rest = CdataWrap(preview) \o <<"</sample>">>
  OBVIOUS
<1>4. /\ tag \in Seq(Chars) /\ Reads(tag, <<>>) /\ gt \in Seq(Chars) /\ Reads(gt, <<>>)
      /\ <<>> \in Seq(Seq(Chars))
  BY <1>3, ReadsNothing, EmptySeq
<1>5. q \in Seq(Chars) /\ <<e>> \in Seq(Seq(Chars)) /\ Reads(q, <<e>>)
  BY <1>2, <1>3, ReadsQuoted
<1>6. rest \in Seq(Chars) /\ <<preview>> \in Seq(Seq(Chars)) /\ Reads(rest, <<preview>>)
  BY <1>2, <1>3, ReadsElement
<1>7. PICK s1, m1 : s1 = tag \o q /\ m1 = <<>> \o <<e>>
  OBVIOUS
<1>8. s1 \in Seq(Chars) /\ m1 \in Seq(Seq(Chars)) /\ Reads(s1, m1)
  BY <1>4, <1>5, <1>7, ReadsConcat
<1>9. PICK s2, m2 : s2 = s1 \o gt /\ m2 = m1 \o <<>>
  OBVIOUS
<1>10. s2 \in Seq(Chars) /\ m2 \in Seq(Seq(Chars)) /\ Reads(s2, m2)
  BY <1>4, <1>8, <1>9, ReadsConcat
<1>11. PICK s3, m3 : s3 = s2 \o rest /\ m3 = m2 \o <<preview>>
  OBVIOUS
<1>12. s3 \in Seq(Chars) /\ m3 \in Seq(Seq(Chars)) /\ Reads(s3, m3)
  BY <1>6, <1>10, <1>11, ReadsConcat
<1>13. m3 = <<e, preview>>
  <2>1. m1 = <<e>>
    BY <1>5, <1>7, ConcatEmptySeq
  <2>2. m2 = <<e>>
    BY <1>8, <1>9, <2>1, ConcatEmptySeq
  <2> QED
    BY <1>11, <2>2, JoinedLiterals
<1>14. RenderSample(sample) = s3
  <2>1. PICK w, close : w = CdataWrap(preview) /\ close = <<"</sample>">>
    OBVIOUS
  <2>2. w \in Seq(Chars) /\ close \in Seq(Chars)
    <3>1. "</sample>" \in Chars
      BY DEF Chars
    <3>2. w \in Seq(Chars)
      BY <1>2, <2>1, CdataRun
    <3>3. close \in Seq(Chars)
      BY <2>1, <3>1
    <3> QED
      BY <3>2, <3>3
  <2>3. (s2 \o w) \o close = s2 \o (w \o close)
    BY SMTT(40), <1>10, <2>2, ConcatAssociative
  <2>4. RenderSample(sample) = (s2 \o w) \o close
    BY <1>1, <1>3, <1>7, <1>9, <2>1 DEF RenderSample
  <2> QED
    BY <1>3, <1>11, <2>1, <2>3, <2>4
<1> QED
  BY <1>1, <1>3, <1>12, <1>13, <1>14

\* The prompt of an analysis reads back as its files and samples.
LEMMA PromptReads ==
  ASSUME NEW r \in DOMAIN Requests
  PROVE  LET read == ReadXml(AnalysisPrompt(Requests[r])) IN
         read.mode = "tag" /\ read.out = Meant(Requests[r])
<1> PICK files, samples : files = Requests[r].files /\ samples = Requests[r].samples
  OBVIOUS
<1>1. files \in Seq(Seq(Tagged)) /\ samples \in Seq([id : Seq(STRING), preview : Seq(STRING)])
  BY RequestsAssumption DEF Tagged
<1> DEFINE p1 == [i \in DOMAIN files |-> RenderFile(files[i])]
           m1 == [i \in DOMAIN files |-> MeantFile(files[i])]
           p2 == [i \in DOMAIN samples |-> RenderSample(samples[i])]
           m2 == [i \in DOMAIN samples |-> <<Escape(samples[i].id), samples[i].preview>>]
<1>2. /\ p1 \in Seq(Seq(Chars)) /\ m1 \in Seq(Seq(Seq(Chars))) /\ Len(p1) = Len(m1)
      /\ \A i \in 1..Len(p1) : Reads(p1[i], m1[i])
  <2>1. PICK k : k = Len(files)
    OBVIOUS
  <2>2. k \in Nat /\ DOMAIN files = 1..k /\ \A i \in 1..k : files[i] \in Seq(Tagged)
    BY <1>1, <2>1
  <2>3. \A i \in 1..k : /\ RenderFile(files[i]) \in Seq(Chars)
                        /\ MeantFile(files[i]) \in Seq(Seq(Chars))
                        /\ Reads(RenderFile(files[i]), MeantFile(files[i]))
    BY <2>2, ReadsFile
  <2>4. /\ p1 \in [1..k -> Seq(Chars)] /\ m1 \in [1..k -> Seq(Seq(Chars))]
        /\ \A i \in 1..k : p1[i] = RenderFile(files[i]) /\ m1[i] = MeantFile(files[i])
    BY <2>2, <2>3
  <2> HIDE DEF p1, m1
  <2>5. p1 \in Seq(Seq(Chars)) /\ m1 \in Seq(Seq(Seq(Chars))) /\ Len(p1) = k /\ Len(m1) = k
    BY <2>2, <2>4
  <2> QED
    BY <2>3, <2>4, <2>5
<1>3. /\ p2 \in Seq(Seq(Chars)) /\ m2 \in Seq(Seq(Seq(Chars))) /\ Len(p2) = Len(m2)
      /\ \A i \in 1..Len(p2) : Reads(p2[i], m2[i])
  <2>1. PICK k : k = Len(samples)
    OBVIOUS
  <2>2. /\ k \in Nat /\ DOMAIN samples = 1..k
        /\ \A i \in 1..k : samples[i] \in [id : Seq(STRING), preview : Seq(STRING)]
    <3>1. PICK R : R = [id : Seq(STRING), preview : Seq(STRING)]
      OBVIOUS
    <3>2. samples \in Seq(R)
      BY <1>1, <3>1
    <3>3. k \in Nat /\ DOMAIN samples = 1..k /\ \A i \in 1..k : samples[i] \in R
      BY <2>1, <3>2
    <3> QED
      BY <3>1, <3>3
  <2> DEFINE Want(i) == <<Escape(samples[i].id), samples[i].preview>>
  <2>3. \A i \in 1..k : /\ RenderSample(samples[i]) \in Seq(Chars)
                        /\ Want(i) \in Seq(Seq(Chars))
                        /\ Reads(RenderSample(samples[i]), Want(i))
    BY <2>2, ReadsSample
  <2>4. m2 = [i \in DOMAIN samples |-> Want(i)]
    OBVIOUS
  <2> HIDE DEF Want, m2
  <2>5. /\ p2 \in [1..k -> Seq(Chars)] /\ m2 \in [1..k -> Seq(Seq(Chars))]
        /\ \A i \in 1..k : p2[i] = RenderSample(samples[i]) /\ m2[i] = Want(i)
    BY <2>2, <2>3, <2>4
  <2> HIDE DEF p2
  <2>6. p2 \in Seq(Seq(Chars)) /\ m2 \in Seq(Seq(Seq(Chars))) /\ Len(p2) = k /\ Len(m2) = k
    BY <2>2, <2>5
  <2> QED
    BY <2>3, <2>5, <2>6
<1>4. AnalysisPrompt(Requests[r]) = FlattenSeq(p1) \o FlattenSeq(p2)
  BY DEF AnalysisPrompt
<1>5. Meant(Requests[r]) = FlattenSeq(m1) \o FlattenSeq(m2)
  BY DEF Meant, MeantFile
<1> HIDE DEF p1, m1, p2, m2
<1>6. PICK s, t, u, v : /\ s = FlattenSeq(p1) /\ t = FlattenSeq(p2)
                        /\ u = FlattenSeq(m1) /\ v = FlattenSeq(m2)
  OBVIOUS
<1>7. /\ s \in Seq(Chars) /\ t \in Seq(Chars)
      /\ u \in Seq(Seq(Chars)) /\ v \in Seq(Seq(Chars)) /\ Reads(s, u) /\ Reads(t, v)
  BY <1>2, <1>3, <1>6, PartsType, ReadsParts
<1>8. PICK st, uv : st = s \o t /\ uv = u \o v
  OBVIOUS
<1>9. st \in Seq(Chars) /\ uv \in Seq(Seq(Chars)) /\ Reads(st, uv)
  BY <1>7, <1>8, ReadsConcat
<1>10. PICK new : Run(InTag(<<>>, <<>>, 0), st, InTag(<<>> \o uv, <<>>, new))
  BY <1>9, EmptySeq DEF Reads
<1>11. <<>> \o uv = uv
  BY <1>9, ConcatEmptySeq
<1>12. NewReader = InTag(<<>>, <<>>, 0)
  BY DEF NewReader, InTag
<1>13. ReadXml(st) = InTag(uv, <<>>, new)
  BY <1>9, <1>10, <1>11, <1>12, RunIsRead
<1>14. ReadXml(st).mode = "tag" /\ ReadXml(st).out = uv
  BY <1>13 DEF InTag
<1> QED
  BY <1>4, <1>5, <1>6, <1>8, <1>14

\* A caller that is asking for an analysis keeps the prompt of its request.
PromptBuilt(now) ==
  now.pc \in {"sending", "sleeping", "pausing"} /\ now.kind = "analyze" =>
    now.req \in DOMAIN Requests /\ now.prompt = AnalysisPrompt(Requests[now.req])
PromptsBuilt == \A c \in Callers : PromptBuilt(caller[c])

LEMMA OnePromptChanges ==
  ASSUME CallsInv, PromptsBuilt, NEW c \in Callers, NEW now, Set(c, now), PromptBuilt(now)
  PROVE  PromptsBuilt'
<1>1. caller = [d \in Callers |-> caller[d]] /\ \A d \in Callers : PromptBuilt(caller[d])
  BY DEF CallsInv, CallsTyped, PromptsBuilt
<1>2. \A d \in Callers : caller'[d] = now \/ caller'[d] = caller[d]
  BY <1>1 DEF Set
<1>3. \A d \in Callers : PromptBuilt(caller'[d])
  <2> SUFFICES ASSUME NEW d \in Callers PROVE PromptBuilt(caller'[d])
    OBVIOUS
  <2>1. PICK v : v = caller'[d]
    OBVIOUS
  <2>2. PromptBuilt(v)
    BY <1>1, <1>2, <2>1
  <2> QED
    BY <2>1, <2>2
<1> QED
  BY <1>3 DEF PromptsBuilt, PromptBuilt

\* A caller whose call goes on keeps its request and its prompt.
LEMMA SamePrompt ==
  ASSUME CallsInv, PromptsBuilt, NEW c \in Callers, NEW now, Set(c, now),
         caller[c].pc \in {"sending", "sleeping", "pausing"},
         now.kind = caller[c].kind, now.req = caller[c].req, now.prompt = caller[c].prompt
  PROVE  PromptsBuilt'
<1>1. PICK v : v = caller[c]
  OBVIOUS
<1>2. PromptBuilt(v)
  BY <1>1 DEF PromptsBuilt
<1>3. PromptBuilt(now)
  BY <1>1, <1>2 DEF PromptBuilt
<1> QED
  BY <1>3, OnePromptChanges

LEMMA FailedKeepsPrompt ==
  ASSUME CallsInv, PromptsBuilt, NEW c \in Callers, NEW class, NEW hint, NEW t,
         Failed(c, class, hint, t), caller[c].pc = "sending"
  PROVE  PromptsBuilt'
<1>1. DOMAIN caller[c] = Fields
  BY DEF CallsInv, CallsTyped
<1>2. CASE caller[c].round + 1 < MaxAttempts
  <2>1. PICK now : now = [caller[c] EXCEPT !.pc = "pausing", !.round = @ + 1]
    OBVIOUS
  <2>2. /\ Set(c, now)
        /\ now.kind = caller[c].kind /\ now.req = caller[c].req /\ now.prompt = caller[c].prompt
    BY <1>1, <1>2, <2>1 DEF Failed, Fields
  <2> QED
    BY <2>2, SamePrompt
<1>3. CASE ~(caller[c].round + 1 < MaxAttempts)
  <2>1. PICK now : now = [NoCall EXCEPT !.pc = "done", !.out = "error", !.class = class,
                            !.hint = hint, !.shown = t]
    OBVIOUS
  <2>2. Set(c, now) /\ now.pc = "done"
    BY <1>3, <2>1, NoCallFacts DEF Failed, Fields
  <2> QED
    BY <2>2, OnePromptChanges DEF PromptBuilt
<1> QED
  BY <1>2, <1>3

LEMMA PromptsStep ==
  CallsInv /\ PromptsBuilt /\ [CallsNext]_callsVars => PromptsBuilt'
<1> SUFFICES ASSUME CallsInv, PromptsBuilt, [CallsNext]_callsVars PROVE PromptsBuilt'
  OBVIOUS
<1>1. ASSUME UNCHANGED caller PROVE PromptsBuilt'
  BY <1>1 DEF PromptsBuilt, PromptBuilt
<1>2. ASSUME NEW c \in Callers, RequestFails(c) PROVE PromptsBuilt'
  <2>1. PICK failure \in RequestFailures :
          \/ Set(c, [caller[c] EXCEPT !.pc = "sleeping", !.attempts = @ + 1])
          \/ \E t \in ErrorTexts(failure) : Failed(c, Class(failure), Hints(failure), t)
    BY <1>2 DEF RequestFails
  <2>2. caller[c].pc = "sending" /\ DOMAIN caller[c] = Fields
    BY <1>2 DEF RequestFails, CallsInv, CallsTyped
  <2>3. CASE Set(c, [caller[c] EXCEPT !.pc = "sleeping", !.attempts = @ + 1])
    <3>1. PICK now : now = [caller[c] EXCEPT !.pc = "sleeping", !.attempts = @ + 1]
      OBVIOUS
    <3>2. /\ now.kind = caller[c].kind /\ now.req = caller[c].req /\ now.prompt = caller[c].prompt
      BY <2>2, <3>1 DEF Fields
    <3> QED
      BY <2>2, <2>3, <3>1, <3>2, SamePrompt
  <2>4. CASE \E t \in ErrorTexts(failure) : Failed(c, Class(failure), Hints(failure), t)
    <3>1. PICK t : Failed(c, Class(failure), Hints(failure), t)
      BY <2>4
    <3>2. PICK class, hint : class = Class(failure) /\ hint = Hints(failure)
      OBVIOUS
    <3> QED
      BY <2>2, <3>1, <3>2, FailedKeepsPrompt
  <2> QED
    BY <2>1, <2>3, <2>4
<1>3. ASSUME NEW c \in Callers, SendAgain(c) PROVE PromptsBuilt'
  <2>1. DOMAIN caller[c] = Fields /\ caller[c].pc \in {"sleeping", "pausing"}
    BY <1>3 DEF SendAgain, CallsInv, CallsTyped
  <2>2. PICK now : now = [caller[c] EXCEPT !.pc = "sending",
                            !.attempts = IF caller[c].pc = "pausing" THEN 0 ELSE @]
    OBVIOUS
  <2>3. /\ Set(c, now)
        /\ now.kind = caller[c].kind /\ now.req = caller[c].req /\ now.prompt = caller[c].prompt
    BY <1>3, <2>1, <2>2 DEF SendAgain, Fields
  <2> QED
    BY <2>1, <2>3, SamePrompt
<1>4. ASSUME NEW c \in Callers, AnswerArrives(c) PROVE PromptsBuilt'
  <2> DEFINE ok == [NoCall EXCEPT !.out = "fresh", !.of = caller[c].req,
                                  !.req = caller[c].req, !.kind = caller[c].kind]
  <2>1. \/ Set(c, [NoCall EXCEPT !.pc = "done", !.out = "panic"])
        \/ Failed(c, "other", FALSE, <<"w">>)
        \/ Set(c, [ok EXCEPT !.pc = IF ok.kind = "analyze" THEN "storing" ELSE "done"])
    BY <1>4 DEF AnswerArrives
  <2>2. CASE Set(c, [NoCall EXCEPT !.pc = "done", !.out = "panic"])
    <3>1. PICK now : now = [NoCall EXCEPT !.pc = "done", !.out = "panic"]
      OBVIOUS
    <3>2. Set(c, now) /\ now.pc = "done"
      BY <2>2, <3>1, NoCallFacts DEF Fields
    <3> QED
      BY <3>2, OnePromptChanges DEF PromptBuilt
  <2>3. CASE Failed(c, "other", FALSE, <<"w">>)
    <3>1. PICK t : t = <<"w">>
      OBVIOUS
    <3>2. caller[c].pc = "sending"
      BY <1>4 DEF AnswerArrives
    <3> QED
      BY <2>3, <3>1, <3>2, FailedKeepsPrompt
  <2>4. CASE Set(c, [ok EXCEPT !.pc = IF ok.kind = "analyze" THEN "storing" ELSE "done"])
    <3>1. PICK now : now = [ok EXCEPT !.pc = IF ok.kind = "analyze" THEN "storing" ELSE "done"]
      OBVIOUS
    <3>2. DOMAIN ok = Fields
      BY NoCallFacts
    <3>3. now.pc \in {"storing", "done"}
      <4> HIDE DEF ok
      <4> QED
        BY <3>1, <3>2 DEF Fields
    <3> QED
      BY <2>4, <3>1, <3>3, OnePromptChanges DEF PromptBuilt
  <2> QED
    BY <2>1, <2>2, <2>3, <2>4
<1>5. ASSUME NEW c \in Callers, Store(c) PROVE PromptsBuilt'
  <2>1. DOMAIN caller[c] = Fields
    BY DEF CallsInv, CallsTyped
  <2>2. PICK now : now = [caller[c] EXCEPT !.pc = "done"]
    OBVIOUS
  <2>3. Set(c, now) /\ now.pc = "done"
    BY <1>5, <2>1, <2>2 DEF Store, Fields
  <2> QED
    BY <2>3, OnePromptChanges DEF PromptBuilt
<1>6. ASSUME NEW c \in Callers, Again(c) PROVE PromptsBuilt'
  <2>1. PICK now : now = NoCall
    OBVIOUS
  <2> QED
    BY <1>6, <2>1, NoCallFacts, OnePromptChanges DEF Again, PromptBuilt
<1>7. ASSUME NEW c \in Callers, NEW kind, NEW r, Send(c, kind, r),
             kind = "analyze" => r \in DOMAIN Requests
      PROVE  PromptsBuilt'
  <2>1. PICK p : p = IF kind = "analyze" THEN AnalysisPrompt(Requests[r])
                     ELSE VerificationPrompt(Requests[r])
    OBVIOUS
  <2>2. PICK now : now = [NoCall EXCEPT !.pc = "sending", !.kind = kind, !.req = r, !.prompt = p]
    OBVIOUS
  <2>3. Set(c, now)
    BY <1>7, <2>1, <2>2 DEF Send
  <2>4. now.kind = kind /\ now.req = r /\ now.prompt = p
    BY <2>2, NoCallFacts DEF Fields
  <2>5. PromptBuilt(now)
    BY <1>7, <2>1, <2>4 DEF PromptBuilt
  <2> QED
    BY <2>3, <2>5, OnePromptChanges
<1>8. ASSUME NEW c \in Callers, NEW r \in DOMAIN Requests, Lookup(c, r) PROVE PromptsBuilt'
  <2>1. CASE Fresh(Key(r))
    <3>1. PICK entry : entry = cache[Key(r)]
      OBVIOUS
    <3>2. PICK now : now = [NoCall EXCEPT !.pc = "done", !.req = r, !.out = "cached",
                              !.of = entry.of, !.age = entry.age]
      OBVIOUS
    <3>3. Set(c, now)
      BY <1>8, <2>1, <3>1, <3>2 DEF Lookup
    <3>4. now.pc = "done"
      BY <3>2, NoCallFacts DEF Fields
    <3> QED
      BY <3>3, <3>4, OnePromptChanges DEF PromptBuilt
  <2>2. CASE ~Fresh(Key(r))
    BY <1>7, <1>8, <2>2 DEF Lookup
  <2> QED
    BY <2>1, <2>2
<1>9. ASSUME NEW c \in Callers, NEW r \in Verified, Verify(c, r) PROVE PromptsBuilt'
  <2>1. Send(c, "verify", r)
    BY <1>9 DEF Verify
  <2> QED
    BY <1>7, <2>1
<1>10. CASE CreateProvider \/ Tick \/ ClockSetBack \/ UNCHANGED callsVars
  BY <1>1, <1>10 DEF CreateProvider, Tick, ClockSetBack, callsVars
<1> QED
  BY <1>2, <1>3, <1>4, <1>5, <1>6, <1>8, <1>9, <1>10 DEF CallsNext

\* Whatever names, paths and previews contain, quotes, tags and "]]>" included, the
\* prompt that build_analysis_prompt_base sends reads back as exactly its files and
\* samples (xml_escape_attr, cdata_wrap).
THEOREM PromptsReadBack ==
  CallsSpec => []PromptReadsBack
<1>1. CallsInit => CallsInv /\ PromptsBuilt
  <2> SUFFICES ASSUME CallsInit PROVE PromptsBuilt
    BY CallsInitInv
  <2>1. \A c \in Callers : caller[c] = NoCall
    BY DEF CallsInit
  <2> QED
    BY <2>1, NoCallFacts DEF PromptsBuilt, PromptBuilt
<1>2. CallsInv /\ PromptsBuilt /\ [CallsNext]_callsVars => (CallsInv /\ PromptsBuilt)'
  BY CallsStepInv, PromptsStep
<1>3. CallsInv /\ PromptsBuilt => PromptReadsBack
  <2> SUFFICES ASSUME PromptsBuilt, NEW c \in Callers,
                      caller[c].pc = "sending", caller[c].kind = "analyze"
               PROVE  LET read == ReadXml(caller[c].prompt) IN
                      read.mode = "tag" /\ read.out = Meant(Requests[caller[c].req])
    BY DEF PromptReadsBack
  <2>1. PICK r : r = caller[c].req
    OBVIOUS
  <2>2. r \in DOMAIN Requests /\ caller[c].prompt = AnalysisPrompt(Requests[r])
    BY <2>1 DEF PromptsBuilt, PromptBuilt
  <2> QED
    BY <2>1, <2>2, PromptReads
<1> QED
  BY <1>1, <1>2, <1>3, PTL DEF CallsSpec
==============================================================================
