----------------------------- MODULE ConfigFields -----------------------------
(* The fields of a configuration, their defaults and what may be written in   *)
(* them: src/config/mod.rs (sections), field_validator.rs (one key and its    *)
(* value) and validator.rs (a whole section); the primitives they share are   *)
(* in validation.rs.  The two validators do not accept the same values.       *)
(*                                                                            *)
(* A configuration is a record: ai.provider, ai.api_key and ai.base_url, on   *)
(* which the layers depend, and rest, the other fields that differ from their *)
(* defaults.  Numbers are naturals: seconds of offset and temperatures in     *)
(* hundredths, ratios in percent, sizes in KiB; what does not parse is -1.    *)
EXTENDS Integers, TLC

CONSTANT Cpus       \* num_cpus::get

ASSUME CpusAssumption == Cpus \in Nat \ {0}

None == "none"
Unparsable == -1
Unlimited == 2147483647

-----------------------------------------------------------------------------
(* Sections and their defaults *)

\* The value a key has unless something sets it; a section passes on the keys of
\* the others.
TranslationDefaults(key) ==
  CASE key = "translation.batch_size"              -> 40
    [] key = "translation.default_target_language" -> None
ParallelDefaults(key) ==
  CASE key = "parallel.max_workers"            -> Cpus
    [] key = "parallel.overflow_strategy"      -> "Block"
    [] key = "parallel.task_queue_size"        -> 1000
    [] key = "parallel.enable_task_priorities" -> "false"
    [] key = "parallel.auto_balance_workers"   -> "true"
    [] OTHER                                   -> TranslationDefaults(key)
GeneralDefaults(key) ==
  CASE key = "general.backup_enabled"              -> "false"
    [] key = "general.max_concurrent_jobs"         -> 4
    [] key = "general.task_timeout_seconds"        -> 300
    [] key = "general.enable_progress_bar"         -> "true"
    [] key = "general.worker_idle_timeout_seconds" -> 60
    [] key = "general.max_subtitle_bytes"          -> 51200
    [] key = "general.max_audio_bytes"             -> 2097152
    [] OTHER                                       -> ParallelDefaults(key)
SyncDefaults(key) ==
  CASE key = "sync.default_method"             -> "auto"
    [] key = "sync.max_offset_seconds"         -> 6000
    [] key = "sync.vad.enabled"                -> "true"
    [] key = "sync.vad.sensitivity"            -> 25
    [] key = "sync.vad.padding_chunks"         -> 3
    [] key = "sync.vad.min_speech_duration_ms" -> 300
    [] OTHER                                   -> GeneralDefaults(key)
FormatsDefaults(key) ==
  CASE key = "formats.default_output"                -> "srt"
    [] key = "formats.preserve_styling"              -> "false"
    [] key = "formats.default_encoding"              -> "utf-8"
    [] key = "formats.encoding_detection_confidence" -> 80
    [] OTHER                                         -> SyncDefaults(key)
AIDefaults(key) ==
  CASE key = "ai.model"                   -> "gpt"
    [] key = "ai.max_sample_length"       -> 3000
    [] key = "ai.temperature"             -> 30
    [] key = "ai.max_tokens"              -> 10000
    [] key = "ai.retry_attempts"          -> 3
    [] key = "ai.retry_delay_ms"          -> 1000
    [] key = "ai.request_timeout_seconds" -> 120
    [] key = "ai.api_version"             -> None
    [] OTHER                              -> FormatsDefaults(key)

\* Config::default
Default == [provider |-> "openai", key |-> None, url |-> "https", rest |-> <<>>]

Value(c, key) == IF key \in DOMAIN c.rest THEN c.rest[key] ELSE AIDefaults(key)

-----------------------------------------------------------------------------
(* Primitives *)

\* validate_range; a bound left open is Unlimited.
InRange(value, bounds) == bounds[1] <= value /\ value <= bounds[2]
Positive == <<1, Unlimited>>

\* validate_float_range, validate_uint_range, validate_u64_range and
\* validate_usize_range: the text is parsed, then compared.
TextInRange(text, bounds) == text # Unparsable /\ InRange(text, bounds)

Temperatures == <<0, 200>>

\* validate_ai_model: not blank, at most a hundred characters.
ModelValid(model) == model \notin {"", "tooLong"}

\* parse_bool
Truths == {"true", "1", "yes", "on", "enabled"}
Falsehoods == {"false", "0", "no", "off", "disabled"}

\* validate_api_key, where a key is not empty; validate_url_format.
KeyValid(k) == k # "short"
UrlValid(u) == u # "bad"

\* normalize_ai_provider
Normalize(p) == IF p = "ollama" THEN "local" ELSE p

-----------------------------------------------------------------------------
(* validate_field *)

AIBounds ==
  ("ai.temperature" :> Temperatures) @@ ("ai.max_tokens" :> Positive)
    @@ ("ai.max_sample_length" :> <<100, 10000>>) @@ ("ai.retry_attempts" :> <<1, 10>>)
    @@ ("ai.retry_delay_ms" :> <<100, 30000>>) @@ ("ai.request_timeout_seconds" :> <<10, 600>>)
SyncBounds ==
  ("sync.max_offset_seconds" :> <<10, 360000>>) @@ ("sync.vad.sensitivity" :> <<0, 100>>)
    @@ ("sync.vad.padding_chunks" :> <<0, 10>>)
    @@ ("sync.vad.min_speech_duration_ms" :> <<0, Unlimited>>)
GeneralBounds ==
  ("general.max_concurrent_jobs" :> <<1, 64>>) @@ ("general.task_timeout_seconds" :> <<30, 3600>>)
    @@ ("general.worker_idle_timeout_seconds" :> <<10, 3600>>)
    @@ ("general.max_subtitle_bytes" :> <<1, 1048576>>) @@ ("general.max_audio_bytes" :> <<1, 10485760>>)
ParallelBounds ==
  ("parallel.max_workers" :> <<1, 64>>) @@ ("parallel.task_queue_size" :> <<100, 10000>>)
    @@ ("translation.batch_size" :> <<1, 1000>>)
Bounds ==
  AIBounds @@ SyncBounds @@ GeneralBounds @@ ParallelBounds
    @@ ("formats.encoding_detection_confidence" :> <<0, 100>>)

Choices ==
  ("ai.provider" :> {"openai", "anthropic", "local", "ollama", "openrouter", "azure-openai"})
    @@ ("sync.default_method" :> {"auto", "vad", "manual"})
    @@ ("formats.default_output" :> {"srt", "ass", "vtt", "webvtt"})
    @@ ("formats.default_encoding" :> {"utf-8", "gbk", "big5", "shift_jis"})
    @@ ("parallel.overflow_strategy" :> {"Block", "Drop", "Expand"})

Switches ==
  {"sync.vad.enabled", "formats.preserve_styling", "general.backup_enabled",
   "general.enable_progress_bar", "parallel.enable_task_priorities", "parallel.auto_balance_workers"}

\* Empty means that there is no default; blanks are refused.
TargetLanguageValid(value) == value # "blank"

\* One key and the text given for it.
FieldAccepts(key, value) ==
  CASE key \in DOMAIN Bounds       -> TextInRange(value, Bounds[key])
    [] key \in DOMAIN Choices      -> value \in Choices[key]
    [] key \in Switches            -> value \in Truths \cup Falsehoods
    [] key = "ai.model"            -> ModelValid(value)
    [] key = "ai.api_key"          -> KeyValid(value)
    [] key = "ai.base_url"         -> UrlValid(value)
    [] key = "ai.api_version"      -> value # ""
    [] key = "translation.default_target_language" -> TargetLanguageValid(value)
    [] OTHER                       -> FALSE

\* validate_all_fields; every default is accepted.
FieldValid(c) ==
  /\ FieldAccepts("ai.provider", c.provider)
  /\ KeyValid(c.key) /\ UrlValid(c.url)
  /\ \A key \in DOMAIN c.rest : FieldAccepts(key, c.rest[key])

-----------------------------------------------------------------------------
(* validate_config *)

Within(c, key, lo, hi) == InRange(Value(c, key), <<lo, hi>>)

SyncValid(c) ==
  /\ Value(c, "sync.default_method") \in {"vad", "auto", "manual"}
  /\ Within(c, "sync.max_offset_seconds", 1, 360000)
VadValid(c) ==
  /\ Within(c, "sync.vad.sensitivity", 0, 100)
  /\ Within(c, "sync.vad.padding_chunks", 0, 10)
  /\ Within(c, "sync.vad.min_speech_duration_ms", 0, 5000)
GeneralValid(c) ==
  /\ Within(c, "general.max_concurrent_jobs", 1, 64)
  /\ Within(c, "general.task_timeout_seconds", 30, 3600)
  /\ Within(c, "general.worker_idle_timeout_seconds", 10, 3600)
FormatsValid(c) ==
  /\ Value(c, "formats.default_output") \in {"srt", "ass", "vtt", "webvtt"}
  /\ Value(c, "formats.default_encoding") \in {"utf-8", "gbk", "big5", "shift_jis"}
  /\ Within(c, "formats.encoding_detection_confidence", 0, 100)
ParallelValid(c) ==
  /\ Within(c, "parallel.max_workers", 1, 64)
  /\ Within(c, "parallel.task_queue_size", 100, Unlimited)
TranslationValid(c) ==
  /\ Within(c, "translation.batch_size", 1, 1000)
  /\ Value(c, "translation.default_target_language") \notin {"", "blank"}

\* The settings of a hosted provider's requests; require_https_for_hosted_provider.
ModelSettingsValid(c) ==
  ModelValid(Value(c, "ai.model")) /\ InRange(Value(c, "ai.temperature"), Temperatures)
Https == {"https", "hostedUrl"}
HttpsOrEmpty(u) == u \in Https \cup {""}
OpenAIKeys == {None, "", "sk", "hostedKey", "subxKey"}

AIValid(c) ==
  /\ KeyValid(c.key) /\ ModelSettingsValid(c)
  /\ c.provider # "anthropic" => InRange(Value(c, "ai.max_tokens"), Positive)
  /\ CASE c.provider = "openai"            -> c.key \in OpenAIKeys /\ HttpsOrEmpty(c.url)
       [] c.provider = "openrouter"        -> HttpsOrEmpty(c.url)
       [] c.provider = "azure-openai"      -> HttpsOrEmpty(c.url) /\ Value(c, "ai.api_version") # ""
       [] c.provider = "anthropic"         -> TRUE
       [] Normalize(c.provider) = "local"  -> c.url # "" /\ UrlValid(c.url)
       [] OTHER                            -> FALSE
  /\ Within(c, "ai.retry_attempts", 1, 10)
  /\ Within(c, "ai.request_timeout_seconds", 10, 600)

\* validate_config_consistency
Consistent(c) == ~(c.provider = "openai" /\ c.key = "")

Strict(c) ==
  /\ AIValid(c) /\ SyncValid(c) /\ VadValid(c) /\ GeneralValid(c)
  /\ FormatsValid(c) /\ ParallelValid(c) /\ TranslationValid(c)
  /\ Consistent(c)

-----------------------------------------------------------------------------
(* Dotted keys *)

\* parse_bool, and the empty text that removes an optional value.
Parsed(key, value) ==
  CASE key \in Switches -> IF value \in Truths THEN "true" ELSE "false"
    [] key = "translation.default_target_language" /\ value = "" -> None
    [] OTHER            -> value

\* The same configuration with value under a key of rest.
With(c, key, value) ==
  [c EXCEPT !.rest = [k \in DOMAIN @ \cup {key} |-> IF k = key THEN value ELSE @[k]]]

\* set_value_internal, for a key and a value validate_field accepts.
SetValue(c, key, value) ==
  CASE key = "ai.provider" -> [c EXCEPT !.provider = Normalize(value)]
    [] key = "ai.api_key"  -> [c EXCEPT !.key = IF value = "" THEN None ELSE value]
    [] key = "ai.base_url" -> [c EXCEPT !.url = value]
    [] OTHER               -> With(c, key, Parsed(key, value))

\* read_config_value_from, which knows every key of SetValue but ai.api_version.
Gettable ==
  DOMAIN Bounds \cup DOMAIN Choices \cup Switches
    \cup {"ai.api_key", "ai.base_url", "ai.model", "translation.default_target_language"}
GetValue(c, key) ==
  CASE key = "ai.provider" -> c.provider
    [] key = "ai.api_key"  -> c.key
    [] key = "ai.base_url" -> c.url
    [] OTHER               -> Value(c, key)
=============================================================================
