---------------------------- MODULE AnalysisCalls ----------------------------
(* Calls of an AI provider by concurrent callers (src/services/ai): the       *)
(* factory builds a client from the configuration; each caller looks into the *)
(* AICache, else sends its prompt with the client's own retries inside        *)
(* retry_with_backoff, parses the answer and stores it.  The retry rule of    *)
(* each provider is that of AIClient.                                         *)
EXTENDS Prompts, FiniteSets

CONSTANTS
  Callers, Requests,
  Configs,          \* the AIConfigs the factory is given
  ClientRetries,    \* ai.retry_attempts
  MaxAttempts,      \* RetryConfig::max_attempts
  TTL,              \* lifetime of a cache entry, in ticks
  MaxTime,          \* bound on ticks
  AnswerTexts,      \* texts an answer may have
  ErrorBodies,      \* bodies of error statuses
  MaxErrorBody,     \* DEFAULT_ERROR_BODY_MAX_LEN
  Verified          \* the requests whose matches are verified

ASSUME BodiesAssumption == ErrorBodies \subseteq Seq(STRING) /\ MaxErrorBody \in Nat

\* An inventory entry is a sequence of tagged parts, a sample has a path and a preview.
ASSUME RequestsAssumption ==
  \A r \in DOMAIN Requests :
    /\ Requests[r].files \in Seq(Seq([tag : STRING, text : Seq(STRING)]))
    /\ Requests[r].samples \in Seq([id : Seq(STRING), preview : Seq(STRING)])

VARIABLES
  config,           \* the AIConfig
  client,         \* the client built, "none" before, "refused" if there is none
  caller,           \* caller -> its call
  cache,            \* key -> [of, stamp, age]
  clock,            \* SystemTime, in ticks
  ticks,            \* ticks passed
  setBack           \* history: the clock was set back

callsVars == <<config, client, caller, cache, clock, ticks, setBack>>

Hosted == {"openai", "openrouter", "azure"}

\* The client of one call; only its state functions are used.
Client(c) == INSTANCE AIClient
               WITH Providers <- Hosted \cup {"local"}, RetryAttempts <- ClientRetries,
                    provider <- client, call <- caller[c].pc, attempts <- caller[c].attempts

-----------------------------------------------------------------------------
(* Building a client                                                         *)

\* normalize_ai_provider, of a name already trimmed and in lower case.
Canonical(name) == IF name = "ollama" THEN "local" ELSE name

\* is_private_host_str: a dotted address by its first two numbers, an IPv6 address
\* by its first segment (::1 has kind "name"), a name by whether it is localhost
\* or has one of the suffixes of local networks.
PrivateV4(a, b) ==
  a = 127 \/ a = 10 \/ (a = 172 /\ b \in 16..31) \/ (a = 192 /\ b = 168) \/ (a = 169 /\ b = 254)
PrivateV6(segment) == segment \in 64512..65023 \/ segment \in 65152..65215
PrivateHost(host) ==
  CASE host.kind = "v4" -> PrivateV4(host.a, host.b)
    [] host.kind = "v6" -> PrivateV6(host.a)
    [] host.kind = "name" -> host.a = 1

\* validate_ai_config of the factory.
ConfigComplete(cfg) ==
  /\ Canonical(cfg.provider) # "local" => cfg.key = "set"
  /\ cfg.model /\ cfg.params

\* from_config of the clients.  local takes any URL that is not blank, so that one
\* that does not parse only fails when it is used.
WebUrl(cfg) == cfg.scheme \in {"http", "https"}
OpenAIAccepts(cfg)     == cfg.key # "none" /\ WebUrl(cfg)
OpenRouterAccepts(cfg) == cfg.key # "none" /\ WebUrl(cfg)
AzureAccepts(cfg)      == cfg.key = "set" /\ cfg.model /\ WebUrl(cfg)
LocalAccepts(cfg)      == cfg.scheme # "blank"

Built(cfg) ==
  LET p == Canonical(cfg.provider)
      accepted == CASE p = "openai" -> OpenAIAccepts(cfg) [] p = "openrouter" -> OpenRouterAccepts(cfg)
                    [] p = "azure" -> AzureAccepts(cfg)   [] p = "local" -> LocalAccepts(cfg)
                    [] OTHER -> FALSE
  IN  IF ConfigComplete(cfg) /\ accepted THEN p ELSE "refused"

NoCall == [pc |-> "idle", kind |-> "analyze", req |-> 0, attempts |-> 0, round |-> 0,
           prompt |-> <<>>, out |-> "none", class |-> "none", hint |-> FALSE,
           shown |-> <<>>, of |-> 0, age |-> 0]

CallsInit ==
  /\ config \in Configs
  /\ client = "none"
  /\ caller = [c \in Callers |-> NoCall]
  /\ cache = <<>>
  /\ clock = 1 /\ ticks = 0 /\ setBack = FALSE

\* create_ai_provider.
CreateProvider ==
  /\ client = "none"
  /\ client' = Built(config)
  /\ UNCHANGED <<config, caller, cache, clock, ticks, setBack>>

-----------------------------------------------------------------------------
(* One call                                                                  *)

\* generate_key hashes the file lists; the samples are left out.
Key(r) == Requests[r].files

\* AICache::get: an entry counts while it is younger than the TTL; one from the
\* future (elapsed() fails) does not.
Fresh(key) ==
  /\ key \in DOMAIN cache
  /\ clock >= cache[key].stamp /\ clock - cache[key].stamp < TTL

Set(c, call) == caller' = [caller EXCEPT ![c] = call]

\* The prompt is built and the first request sent.
Send(c, kind, r) ==
  Set(c, [NoCall EXCEPT !.pc = "sending", !.kind = kind, !.req = r,
            !.prompt = IF kind = "analyze" THEN AnalysisPrompt(Requests[r])
                       ELSE VerificationPrompt(Requests[r])])

\* Mutant: an entry from the future counts as new, an old one as fresh.
LookupAnyAge(c, r) ==
  /\ caller[c].pc = "idle" /\ client \in Hosted \cup {"local"}
  /\ IF Key(r) \in DOMAIN cache
     THEN Set(c, [NoCall EXCEPT !.pc = "done", !.req = r, !.out = "cached",
                    !.of = cache[Key(r)].of, !.age = cache[Key(r)].age])
     ELSE Send(c, "analyze", r)
  /\ UNCHANGED <<config, client, cache, clock, ticks, setBack>>

\* A caller asks for an analysis, through the cache; or for a verification.
Lookup(c, r) ==
  /\ caller[c].pc = "idle" /\ client \in Hosted \cup {"local"}
  /\ IF Fresh(Key(r))
     THEN Set(c, [NoCall EXCEPT !.pc = "done", !.req = r, !.out = "cached",
                    !.of = cache[Key(r)].of, !.age = cache[Key(r)].age])
     ELSE Send(c, "analyze", r)
  /\ UNCHANGED <<config, client, cache, clock, ticks, setBack>>

Verify(c, r) ==
  /\ caller[c].pc = "idle" /\ client \in Hosted \cup {"local"}
  /\ Send(c, "verify", r)
  /\ UNCHANGED <<config, client, cache, clock, ticks, setBack>>

\* A 2xx answer may be too large, cut off, no JSON, or JSON without the content of
\* a message.
BadBodies == {"tooLarge", "cut", "notJson", "noContent"}

\* The failures of a request; one to an URL that does not parse is never sent.
RequestFailures ==
  {"transport"} \cup
  (IF WebUrl(config) THEN {"clientError", "serverError"} \cup BadBodies ELSE {})
Kind(failure) == IF failure \in BadBodies THEN "badBody" ELSE failure

\* What is remembered of the last failure.
Class(failure) == IF failure \in {"transport", "noContent"} THEN failure ELSE "other"

\* Mutant: the hint is given for any host.
HintsAnyHost(failure) ==
  /\ client \in Hosted
  /\ failure \in {"transport", "noContent"}

\* maybe_attach_local_hint applies to what the retry loop returns as an error (for
\* openai an error status, too) and depends on the host; a body without content
\* gets the hint from append_local_hint whatever the host.
Hints(failure) ==
  /\ client \in Hosted
  /\ \/ failure = "noContent"
     \/ /\ failure = "transport" \/ (client = "openai" /\ Kind(failure) # "badBody")
        /\ PrivateHost(config.host)

\* The texts of errors are sequences over "url" (an URL up to its path), "?", "#",
\* " " and words.

\* truncate_error_body
Truncate(body) == IF Len(body) <= MaxErrorBody THEN body ELSE SubSeq(body, 1, MaxErrorBody)

\* sanitize_url_in_error: what follows the ? of an URL, up to the next space, goes.
Scan(st, ch) ==
  CASE ch = " " -> [mode |-> "text", out |-> Append(st.out, ch)]
    [] ch # " " /\ st.mode = "query" -> st
    [] st.mode = "url" /\ ch = "?" -> [mode |-> "query", out |-> st.out]
    [] st.mode = "url" /\ ch = "#" -> [mode |-> "text", out |-> Append(st.out, ch)]
    [] OTHER -> [mode |-> IF ch = "url" THEN "url" ELSE st.mode, out |-> Append(st.out, ch)]
SanitizeUrls(text) ==
  LET scan[i \in 0..Len(text)] ==
        IF i = 0 THEN [mode |-> "text", out |-> <<>>] ELSE Scan(scan[i - 1], text[i])
  IN  scan[Len(text)].out

\* sanitize_base_url: scheme, host and path of an URL that parses
SanitizeBaseUrl(cfg) == IF WebUrl(cfg) THEN <<"url">> ELSE <<"w">>

\* What a caller may be shown of a failure.  reqwest names the URL it was given; the
\* local client names its base URL if it cannot connect, and tells a missing model
\* without the body.
ErrorTexts(failure) ==
  LET request == IF config.query THEN <<"w", "url", "?", "w">> ELSE <<"w", "url">> IN
  CASE failure = "transport" ->
         {SanitizeUrls(request)} \cup (IF client = "local" THEN {SanitizeBaseUrl(config)} ELSE {})
    [] Kind(failure) = "badBody" -> {<<"w">>}
    [] OTHER -> {SanitizeUrls(Truncate(body)) : body \in ErrorBodies}
                  \cup (IF client = "local" THEN {<<"w">>} ELSE {})

\* retry_with_backoff, after the client gave up or the answer did not parse: the
\* whole operation again after a pause, or the last error.
Failed(c, class, hint, text) ==
  Set(c, IF caller[c].round + 1 < MaxAttempts
         THEN [caller[c] EXCEPT !.pc = "pausing", !.round = @ + 1]
         ELSE [NoCall EXCEPT !.pc = "done", !.out = "error", !.class = class, !.hint = hint,
                             !.shown = text])

\* A request fails: the client's own retry rule, then the outer one.
RequestFails(c) ==
  /\ caller[c].pc = "sending"
  /\ \E failure \in RequestFailures :
       IF Client(c)!Retries(Kind(failure))
       THEN Set(c, [caller[c] EXCEPT !.pc = "sleeping", !.attempts = @ + 1])
       ELSE \E text \in ErrorTexts(failure) : Failed(c, Class(failure), Hints(failure), text)
  /\ UNCHANGED <<config, client, cache, clock, ticks, setBack>>

SendAgain(c) ==
  /\ caller[c].pc \in {"sleeping", "pausing"}
  /\ Set(c, [caller[c] EXCEPT !.pc = "sending",
               !.attempts = IF caller[c].pc = "pausing" THEN 0 ELSE @])
  /\ UNCHANGED <<config, client, cache, clock, ticks, setBack>>

\* An answer arrives and is parsed; an analysis goes on to AICache::set.
AnswerArrives(c) ==
  /\ caller[c].pc = "sending"
  /\ RequestFailures # {"transport"}
  /\ \E text \in AnswerTexts :
       LET parsed == ParseAnswer(text)
           ok     == [NoCall EXCEPT !.out = "fresh", !.of = caller[c].req,
                                    !.req = caller[c].req, !.kind = caller[c].kind]
       IN  \/ parsed = "panic" /\ Set(c, [NoCall EXCEPT !.pc = "done", !.out = "panic"])
           \/ parsed = "error" /\ Failed(c, "other", FALSE, <<"w">>)
           \/ /\ parsed = "ok"
              /\ Set(c, [ok EXCEPT !.pc = IF ok.kind = "analyze" THEN "storing" ELSE "done"])
  /\ UNCHANGED <<config, client, cache, clock, ticks, setBack>>

\* AICache::set, under the write lock; the stamp is taken there.
Store(c) ==
  /\ caller[c].pc = "storing"
  /\ LET key == Key(caller[c].req) IN
     cache' = [k \in DOMAIN cache \cup {key} |->
                 IF k = key THEN [of |-> caller[c].req, stamp |-> clock, age |-> 0] ELSE cache[k]]
  /\ Set(c, [caller[c] EXCEPT !.pc = "done"])
  /\ UNCHANGED <<config, client, clock, ticks, setBack>>

\* A caller that has its result asks again.
Again(c) ==
  /\ caller[c].pc = "done"
  /\ Set(c, NoCall)
  /\ UNCHANGED <<config, client, cache, clock, ticks, setBack>>

Tick ==
  /\ ticks < MaxTime
  /\ ticks' = ticks + 1 /\ clock' = clock + 1
  /\ cache' = [k \in DOMAIN cache |-> [cache[k] EXCEPT !.age = @ + 1]]
  /\ UNCHANGED <<config, client, caller, setBack>>

\* The system clock is corrected.
ClockSetBack ==
  /\ ~setBack /\ clock > 0
  /\ clock' = clock - 1 /\ setBack' = TRUE
  /\ UNCHANGED <<config, client, caller, cache, ticks>>

CallsNext ==
  \/ CreateProvider
  \/ \E c \in Callers :
       \/ RequestFails(c) \/ SendAgain(c) \/ AnswerArrives(c) \/ Store(c) \/ Again(c)
       \/ \E r \in DOMAIN Requests : Lookup(c, r)
       \/ \E r \in Verified : Verify(c, r)
  \/ Tick \/ ClockSetBack

CallsSpec == CallsInit /\ [][CallsNext]_callsVars

-----------------------------------------------------------------------------
(* Properties                                                                *)

\* The XML of a prompt, read back: the quoted attributes and the character data
\* of each element.
ReadChar(st, ch) ==
  LET emit(text) == [st EXCEPT !.out = Append(@, text), !.text = <<>>]
      n == Len(st.text)
  IN  CASE st.mode = "quote" -> IF ch = "\"" THEN [emit(st.text) EXCEPT !.mode = "tag"]
                                ELSE [st EXCEPT !.text = Append(@, ch)]
        [] st.mode = "cdata" ->
             IF ch = ">" /\ n >= st.from + 2 /\ st.text[n] = "]" /\ st.text[n - 1] = "]"
             THEN [st EXCEPT !.mode = "tag", !.text = SubSeq(@, 1, n - 2)]
             ELSE [st EXCEPT !.text = Append(@, ch)]
        [] st.mode = "tag" /\ ch = "\"" -> [st EXCEPT !.mode = "quote"]
        [] st.mode = "tag" /\ ch = "<![CDATA[" -> [st EXCEPT !.mode = "cdata", !.from = n]
        [] st.mode = "tag" /\ ch \in {"</sample>", "</file>"} -> emit(st.text)
        [] st.mode = "tag" /\ ch \in {"<file", "<sample", "/>", ">"} -> st
        [] OTHER -> [st EXCEPT !.mode = "malformed"]
ReadXml(prompt) ==
  LET read[i \in 0..Len(prompt)] ==
        IF i = 0 THEN [mode |-> "tag", out |-> <<>>, text |-> <<>>, from |-> 0]
        ELSE ReadChar(read[i - 1], prompt[i])
  IN  read[Len(prompt)]

Meant(request) ==
  FlattenSeq([i \in DOMAIN request.files |->
    LET f == request.files[i] IN
    IF Complete(f) THEN <<Escape(Part(f, "ID")), Escape(Part(f, "Name")), Escape(Part(f, "Path"))>>
    ELSE <<FlattenSeq([j \in DOMAIN f |-> f[j].text])>>]) \o
  FlattenSeq([i \in DOMAIN request.samples |->
    <<Escape(request.samples[i].id), request.samples[i].preview>>])

\* "the surrounding XML structure remains parseable": whatever names and previews
\* contain, the prompt of an analysis reads back as exactly its files and samples.
PromptReadsBack ==
  \A c \in Callers :
    /\ caller[c].pc = "sending" /\ caller[c].kind = "analyze"
    /\ caller[c].attempts = 0 /\ caller[c].round = 0
    => LET read == ReadXml(caller[c].prompt) IN
      read.mode = "tag" /\ read.out = Meant(Requests[caller[c].req])

\* A caller gets the result of a request about the same files, and from the cache
\* only one that was stored less than the TTL ago, unless the clock was set back.
CachedIsCurrent ==
  \A c \in Callers :
    /\ caller[c].out \in {"cached", "fresh"} => Key(caller[c].of) = Key(caller[c].req)
    /\ caller[c].out = "cached" /\ ~setBack => caller[c].age < TTL

\* "Hosted Provider Errors Hint Toward Local Provider": over all the retries, the
\* error of a hosted provider carries the hint if the last failure was a transport
\* failure at a private host or a body without content; a public host's failures
\* and the local provider's never do.
HintIsSound ==
  \A c \in Callers : caller[c].out = "error" =>
    LET private == PrivateHost(config.host) IN
    /\ caller[c].hint => client # "local" /\ (private \/ caller[c].class = "noContent")
    /\ client # "local" /\ (caller[c].class = "noContent" \/ (caller[c].class = "transport" /\ private))
         => caller[c].hint

\* "This helper removes everything from the `?` up to the next whitespace": wherever
\* a body is cut and whichever provider and failure it is, no error shows the query of
\* an URL, which may hold a key.
NoQueryShown ==
  \A c \in Callers : LET t == caller[c].shown IN
    \A i, j \in DOMAIN t : i < j /\ t[i] = "url" /\ t[j] = "?" => \E k \in i..j : t[k] \in {" ", "#"}

\* What an error says is of use to the one who reads it, and to nobody else.
ErrorsAreSound == HintIsSound /\ NoQueryShown
=============================================================================
