-------------------------- MODULE ConfigServiceProofs --------------------------
(* What the configuration service keeps and persists, for every set of        *)
(* threads, every file, environment and edit, and in every interleaving.      *)
EXTENDS ConfigService, TLAPS

-----------------------------------------------------------------------------
(* Validity. *)

\* A section's values in the default configuration.
LEMMA DefaultWithin ==
  ASSUME NEW key, NEW lo, NEW hi
  PROVE  Within(Default, key, lo, hi) <=> lo <= AIDefaults(key) /\ AIDefaults(key) <= hi
  BY DEF Within, InRange, Value, Default

LEMMA DefaultValue ==
  ASSUME NEW key
  PROVE  Value(Default, key) = AIDefaults(key)
  BY DEF Value, Default

\* Config::default passes validate_config on every machine with at most 64 CPUs
\* (max_workers is their number), and on no other.
LEMMA DefaultIsStrict == Strict(Default) <=> Cpus <= 64
<1>1. SyncValid(Default)
  BY DefaultWithin, DefaultValue DEF SyncValid, AIDefaults, FormatsDefaults, SyncDefaults
<1>2. VadValid(Default)
  BY DefaultWithin DEF VadValid, AIDefaults, FormatsDefaults, SyncDefaults
<1>3. GeneralValid(Default)
  BY DefaultWithin DEF GeneralValid, AIDefaults, FormatsDefaults, SyncDefaults, GeneralDefaults
<1>4. FormatsValid(Default)
  BY DefaultWithin, DefaultValue DEF FormatsValid, AIDefaults, FormatsDefaults
<1>5. ParallelValid(Default) <=> Cpus <= 64
  BY DefaultWithin, CpusAssumption DEF ParallelValid, Unlimited, AIDefaults, FormatsDefaults,
     SyncDefaults, GeneralDefaults, ParallelDefaults
<1>6. TranslationValid(Default)
  <2>1. Within(Default, "translation.batch_size", 1, 1000)
    BY DefaultWithin DEF AIDefaults, FormatsDefaults, SyncDefaults, GeneralDefaults,
       ParallelDefaults, TranslationDefaults
  <2>2. Value(Default, "translation.default_target_language") = None
    BY DefaultValue DEF AIDefaults, FormatsDefaults, SyncDefaults, GeneralDefaults,
       ParallelDefaults, TranslationDefaults
  <2> QED
    BY <2>1, <2>2 DEF TranslationValid, None
<1>7. AIValid(Default)
  <2>1. ModelSettingsValid(Default)
    <3>1. Value(Default, "ai.model") = "gpt"
      BY DefaultValue DEF AIDefaults
    <3>2. ModelValid(Value(Default, "ai.model"))
      BY <3>1 DEF ModelValid
    <3>3. InRange(Value(Default, "ai.temperature"), Temperatures)
      BY DefaultValue DEF AIDefaults, InRange, Temperatures
    <3> QED
      BY <3>2, <3>3 DEF ModelSettingsValid
  <2>2. InRange(Value(Default, "ai.max_tokens"), Positive)
    BY DefaultValue DEF InRange, Positive, Unlimited, AIDefaults
  <2>3. /\ Within(Default, "ai.retry_attempts", 1, 10)
        /\ Within(Default, "ai.request_timeout_seconds", 10, 600)
    BY DefaultWithin DEF AIDefaults
  <2>4. /\ Default.provider = "openai" /\ KeyValid(Default.key)
        /\ Default.key \in OpenAIKeys /\ HttpsOrEmpty(Default.url)
    BY DEF Default, KeyValid, None, OpenAIKeys, HttpsOrEmpty, Https
  <2> QED
    BY <2>1, <2>2, <2>3, <2>4 DEF AIValid, Normalize
<1>8. Consistent(Default)
  BY DEF Consistent, Default, None
<1> QED
  BY <1>1, <1>2, <1>3, <1>4, <1>5, <1>6, <1>7, <1>8 DEF Strict
-----------------------------------------------------------------------------
(* The invariant. *)

Operations == {None, "get", "set", "reload", "save", "saveTo", "reset"}
Places == {"idle", "check", "load", "store", "clear", "repair", "truncate", "write", "remember"}

Shapes ==
  /\ env \in Environments
  /\ pc \in [Threads -> Places] /\ op \in [Threads -> Operations]
  /\ DOMAIN hand = Threads
  /\ IsConfig(file.cfg) /\ IsConfig(cached) /\ \A t \in Threads : IsConfig(hand[t])

\* Who is about to write has something valid in hand.
ValidInHand ==
  /\ cached # NoConfig => Strict(cached)
  /\ \A t \in Threads :
       /\ pc[t] \in {"store", "remember"} => Strict(hand[t])
       /\ pc[t] \in {"truncate", "write"} => Strict(hand[t]) \/ Resets(t)

\* Only save_config brings the environment to a write.
Contained ==
  ~saved =>
    /\ Clean(file.cfg) /\ Private(cached)
    /\ \A t \in Threads :
         /\ pc[t] = "store" => Private(hand[t])
         /\ pc[t] \in {"truncate", "write"} => op[t] = "saveTo" \/ Clean(hand[t])
         /\ pc[t] = "remember" => Clean(hand[t])

Follows(c) == Agrees(c, file.cfg) \/ Agrees(c, Overlay(Base(file)))

\* Without overlap one thread at most is in an operation.
Alone ==
  ~overlapped =>
    \A t, u \in Threads : pc[t] # "idle" /\ pc[u] # "idle" => t = u

\* How file, cache and hand stand to each other on the way through an operation.
InStep(t) ==
  /\ pc[t] \in {"check", "load", "repair"} => cached = NoConfig \/ Follows(cached)
  /\ pc[t] = "store" => hand[t] = Overlay(Base(file))
  /\ pc[t] = "repair" => op[t] = "set"
  /\ pc[t] \in {"truncate", "write"} =>
       op[t] \in {"set", "reset"} \/ (op[t] = "saveTo" /\ cached = hand[t])
  /\ pc[t] = "write" => file.upto = 0
  /\ pc[t] = "remember" => Agrees(hand[t], file.cfg)

Following ==
  ~overlapped /\ ~failed => CacheFollowsFile /\ \A t \in Threads : InStep(t)

IInv == Shapes /\ ValidInHand /\ Contained /\ Alone /\ Following

-----------------------------------------------------------------------------
(* Layers. *)

LEMMA OverFacts ==
  ASSUME NEW c, IsConfig(c), NEW var
  PROVE  /\ IsConfig(Over(c, "provider", var)) /\ IsConfig(Over(c, "key", var))
         /\ IsConfig(Over(c, "url", var))
         /\ Over(c, "provider", var).key = c.key /\ Over(c, "provider", var).url = c.url
         /\ Over(c, "key", var).key \in {c.key, env[var]} /\ (env[var] = Unset => Over(c, "key", var).key = c.key)
         /\ Over(c, "key", var).url = c.url /\ Over(c, "key", var).provider = c.provider
         /\ Over(c, "url", var).url \in {c.url, env[var]}
         /\ Over(c, "url", var).key = c.key /\ Over(c, "url", var).provider = c.provider
         /\ \A f \in {"provider", "key", "url"} : Over(c, f, var).rest = c.rest
  BY DEF Over, IsConfig, NoConfig

\* One key of rest changes and nothing else.
LEMMA WithFacts ==
  ASSUME NEW c, IsConfig(c), NEW key, NEW v
  PROVE  /\ IsConfig(With(c, key, v))
         /\ With(c, key, v).provider = c.provider /\ With(c, key, v).key = c.key
         /\ With(c, key, v).url = c.url
         /\ \A k : Value(With(c, key, v), k) = IF k = key THEN v ELSE Value(c, k)
<1> DEFINE rest == [k \in DOMAIN c.rest \cup {key} |-> IF k = key THEN v ELSE c.rest[k]]
           w == With(c, key, v)
<1>1. w = [c EXCEPT !.rest = rest]
  BY DEF With
<1>2. \A k : (k \in DOMAIN rest <=> k \in DOMAIN c.rest \/ k = key)
          /\ (k \in DOMAIN rest => rest[k] = IF k = key THEN v ELSE c.rest[k])
  OBVIOUS
<1>3. IsConfig(w) /\ w.provider = c.provider /\ w.key = c.key /\ w.url = c.url /\ w.rest = rest
  <2> HIDE DEF rest, w
  <2> QED
    BY <1>1 DEF IsConfig, NoConfig
<1> HIDE DEF rest, w
<1>4. \A k : Value(w, k) = IF k = key THEN v ELSE Value(c, k)
  BY <1>2, <1>3 DEF Value
<1> QED
  BY <1>3, <1>4 DEF w

LEMMA OverRestFacts ==
  ASSUME NEW c, IsConfig(c), NEW key, NEW var
  PROVE  /\ IsConfig(OverRest(c, key, var))
         /\ OverRest(c, key, var).provider = c.provider /\ OverRest(c, key, var).key = c.key
         /\ OverRest(c, key, var).url = c.url
         /\ \A k : Value(OverRest(c, key, var), k) \in {Value(c, k), env[var]}
  BY WithFacts DEF OverRest

LEMMA SwitchFacts ==
  ASSUME NEW c, IsConfig(c), NEW var, NEW p
  PROVE  /\ IsConfig(Switch(c, var, p))
         /\ Switch(c, var, p).provider \in {c.provider, p}
  BY DEF Switch, IsConfig, NoConfig

LEMMA DefaultIsClean == IsConfig(Default) /\ Clean(Default)
<1>1. Value(Default, "ai.model") = "gpt" /\ Value(Default, "ai.api_version") = None
  BY DefaultValue DEF AIDefaults
<1>2. IsConfig(Default) /\ Default.key = None /\ Default.url = "https"
  BY DEF IsConfig, NoConfig, Default
<1>3. Exposed(Default) = {None, "https", "gpt"}
  BY <1>1, <1>2 DEF Exposed
<1> QED
  BY <1>2, <1>3 DEF Clean, FromEnv, Hosted, None

LEMMA NoConfigIsClean == IsConfig(NoConfig) /\ Clean(NoConfig) /\ Private(NoConfig)
<1>1. Value(NoConfig, "ai.model") = "gpt" /\ Value(NoConfig, "ai.api_version") = None
  BY DEF Value, NoConfig, AIDefaults
<1>2. Exposed(NoConfig) = {None, "gpt"}
  BY <1>1 DEF Exposed, NoConfig
<1> QED
  BY <1>2 DEF IsConfig, Clean, Private, NoConfig, FromEnv, Hosted, None

\* The first part of a configuration says nothing the whole does not say.
LEMMA PrefixFacts ==
  ASSUME NEW c, IsConfig(c), NEW k \in Nat
  PROVE  /\ IsConfig(Prefix(c, k).cfg) /\ Prefix(c, k).upto = k
         /\ Clean(c) \/ k = 0 => Clean(Prefix(c, k).cfg)
<1> DEFINE kept == [x \in DOMAIN c.rest \cap (IF k >= 3 THEN {"ai.model"} ELSE {}) |-> c.rest[x]]
           p == Prefix(c, k).cfg
           Key == {None, c.key}
<1>1. /\ p = [provider |-> IF k >= 1 THEN c.provider ELSE None, key |-> IF k >= 2 THEN c.key ELSE None,
               url |-> IF k >= 4 THEN c.url ELSE None, rest |-> IF k >= 5 THEN c.rest ELSE kept]
      /\ Prefix(c, k).upto = k
  BY DEF Prefix
<1>2. \A x : (x \in DOMAIN kept <=> x \in DOMAIN c.rest /\ k >= 3 /\ x = "ai.model")
          /\ (x \in DOMAIN kept => kept[x] = c.rest[x])
  OBVIOUS
<1> HIDE DEF kept, p
<1>3. /\ IsConfig(p) /\ p.key \in {c.key, None} /\ p.url \in {c.url, None}
      /\ p.rest = c.rest \/ p.rest = kept
      /\ k = 0 => p.key = None /\ p.url = None /\ p.rest = kept
  BY <1>1 DEF IsConfig, NoConfig
<1>4. \A x : /\ Value(p, x) \in {Value(c, x), AIDefaults(x)}
             /\ k = 0 => Value(p, x) = AIDefaults(x)
  BY <1>2, <1>3 DEF Value
<1>5. AIDefaults("ai.model") = "gpt" /\ AIDefaults("ai.api_version") = None
  BY DEF AIDefaults
<1>6. Exposed(p) \subseteq Exposed(c) \cup {None, "gpt"} /\ (k = 0 => Exposed(p) \subseteq {None, "gpt"})
  BY <1>3, <1>4, <1>5 DEF Exposed
<1>7. {None, "gpt"} \cap FromEnv = {}
  BY DEF FromEnv, Hosted, None
<1>8. Clean(c) \/ k = 0 => Clean(p)
  BY <1>6, <1>7 DEF Clean
<1> QED
  BY <1>1, <1>3, <1>8 DEF p

\* Before the layers of the environment there is nothing of it.
LEMMA BaseIsClean ==
  ASSUME IsConfig(file.cfg)
  PROVE  IsConfig(Base(file)) /\ (Clean(file.cfg) => Clean(Base(file)))
<1>1. IsConfig(Default) /\ Clean(Default)
  BY DefaultIsClean
<1>2. CASE file = Absent
  <2>1. Base(file) = Default
    BY <1>2 DEF Base, Absent, IsFull
  <2> QED
    BY <1>1, <2>1
<1>3. CASE file # Absent /\ IsFull(file)
  <2>1. Base(file) = file.cfg
    BY <1>3 DEF Base
  <2> QED
    BY <2>1
<1>4. CASE file # Absent /\ ~IsFull(file)
  <2> DEFINE p == IF file.upto >= 1 THEN file.cfg.provider ELSE Default.provider
             u == IF file.upto >= 4 THEN file.cfg.url ELSE Default.url
  <2>1. Base(file) = [Default EXCEPT !.provider = p, !.url = u, !.rest = file.cfg.rest]
    BY <1>4 DEF Base
  <2>2. /\ IsConfig(Base(file)) /\ Base(file).key = Default.key /\ Base(file).url = u
        /\ Base(file).rest = file.cfg.rest
    <3> HIDE DEF p, u
    <3> QED
      BY <2>1 DEF Default, IsConfig, NoConfig
  <2>3. \A x : Value(Base(file), x) = Value(file.cfg, x)
    BY <2>2 DEF Value
  <2>4. Exposed(Base(file)) \subseteq Exposed(Default) \cup Exposed(file.cfg)
    BY <2>2, <2>3 DEF Exposed
  <2> QED
    BY <1>1, <2>2, <2>4 DEF Clean
<1> QED
  BY <1>2, <1>3, <1>4

\* The hosted providers' variables reach no configuration whose provider is local,
\* whichever layer said so and under which name.
LEMMA OverlayIsPrivate ==
  ASSUME env \in Environments, NEW c, IsConfig(c)
  PROVE  IsConfig(Overlay(c)) /\ (Clean(c) => Private(Overlay(c)))
<1>e. \A x \in {"SUBX_AI_APIKEY", "SUBX_AI_BASE_URL", "SUBX_AI_MODEL",
               "LOCAL_LLM_API_KEY", "LOCAL_LLM_BASE_URL"} :
        env[x] \notin Hosted
  BY SourcesAssumption
<1> DEFINE o1 == Over(c, "provider", "SUBX_AI_PROVIDER")
           o2 == Over(o1, "key", "SUBX_AI_APIKEY")
           o3 == Over(o2, "url", "SUBX_AI_BASE_URL")
           o4 == OverRest(o3, "ai.model", "SUBX_AI_MODEL")
           u  == Unified(c)
<1>1. /\ IsConfig(o3) /\ o3.key \in {c.key, env["SUBX_AI_APIKEY"]}
      /\ o3.url \in {c.url, env["SUBX_AI_BASE_URL"]} /\ o3.rest = c.rest
  <2>1. IsConfig(o1) /\ o1.key = c.key /\ o1.url = c.url /\ o1.rest = c.rest
    BY OverFacts
  <2> HIDE DEF o1
  <2>2. IsConfig(o2) /\ o2.key \in {o1.key, env["SUBX_AI_APIKEY"]} /\ o2.url = o1.url /\ o2.rest = o1.rest
    BY <2>1, OverFacts
  <2> HIDE DEF o2
  <2>3. IsConfig(o3) /\ o3.url \in {o2.url, env["SUBX_AI_BASE_URL"]} /\ o3.key = o2.key
        /\ o3.rest = o2.rest
    BY <2>2, OverFacts
  <2> QED
    BY <2>1, <2>2, <2>3
<1>2. u = [o4 EXCEPT !.provider = Normalize(o4.provider)]
  BY DEF Unified
<1> HIDE DEF o3
<1>m. /\ IsConfig(o4) /\ o4.key = o3.key /\ o4.url = o3.url
      /\ \A x : Value(o4, x) \in {Value(o3, x), env["SUBX_AI_MODEL"]}
  BY <1>1, OverRestFacts
<1> HIDE DEF o4, u
<1>3. IsConfig(u) /\ u.key = o3.key /\ u.url = o3.url /\ u.rest = o4.rest
  BY <1>m, <1>2 DEF IsConfig, NoConfig
<1>v. \A x : Value(u, x) \in {Value(c, x), env["SUBX_AI_MODEL"]}
  BY <1>1, <1>m, <1>3 DEF Value
<1>4. Overlay(c) = IF u.provider = "local" THEN LocalVars(u) ELSE HostedVars(u)
  BY DEF Overlay, u
<1>5. CASE u.provider = "local"
  <2> DEFINE url == IF env["SUBX_AI_BASE_URL"] = Unset /\ env["LOCAL_LLM_BASE_URL"] # Unset
                    THEN env["LOCAL_LLM_BASE_URL"] ELSE u.url
             key == IF env["SUBX_AI_APIKEY"] = Unset /\ env["LOCAL_LLM_API_KEY"] # Unset
                    THEN env["LOCAL_LLM_API_KEY"] ELSE u.key
  <2>1. Overlay(c) = [u EXCEPT !.url = url, !.key = key]
    BY <1>4, <1>5 DEF LocalVars
  <2>2. url \in {u.url, env["LOCAL_LLM_BASE_URL"]} /\ key \in {u.key, env["LOCAL_LLM_API_KEY"]}
    OBVIOUS
  <2> HIDE DEF url, key
  <2>3. /\ IsConfig(Overlay(c)) /\ Overlay(c).url = url /\ Overlay(c).key = key
        /\ Overlay(c).rest = u.rest
    BY <1>3, <2>1 DEF IsConfig, NoConfig
  <2>v. \A x : Value(Overlay(c), x) = Value(u, x)
    BY <2>3 DEF Value
  <2>4. ASSUME Clean(c) PROVE key \notin Hosted /\ url \notin Hosted
    <3>1. c.key \notin Hosted /\ c.url \notin Hosted
      BY <2>4 DEF Clean, Exposed, FromEnv
    <3> QED
      BY <1>e, <1>1, <1>3, <2>2, <3>1
  <2>5. ASSUME Clean(c), NEW x \in {"ai.model", "ai.api_version"}
        PROVE  Value(Overlay(c), x) \notin Hosted
    <3>1. Value(c, x) \notin Hosted
      BY <2>5 DEF Clean, Exposed, FromEnv
    <3> QED
      BY <1>e, <1>v, <2>v, <3>1
  <2> QED
    BY <2>3, <2>4, <2>5 DEF Private, Exposed
<1>6. CASE u.provider # "local"
  <2> DEFINE router == Switch(u, "OPENROUTER_API_KEY", "openrouter")
             openai == IF router.key = None THEN Over(router, "key", "OPENAI_API_KEY") ELSE router
             based  == Over(openai, "url", "OPENAI_BASE_URL")
             azure  == Switch(based, "AZURE_OPENAI_API_KEY", "azure-openai")
             ended  == Over(azure, "url", "AZURE_OPENAI_ENDPOINT")
             dated  == OverRest(ended, "ai.api_version", "AZURE_OPENAI_API_VERSION")
  <2>1. Overlay(c) = OverRest(dated, "ai.model", "AZURE_OPENAI_DEPLOYMENT_ID")
    BY <1>4, <1>6 DEF HostedVars
  <2>2. IsConfig(router) /\ router.provider # "local"
    BY <1>3, <1>6, SwitchFacts
  <2> HIDE DEF router
  <2>3. IsConfig(openai) /\ openai.provider # "local"
    BY <2>2, OverFacts
  <2> HIDE DEF openai
  <2>4. IsConfig(based) /\ based.provider # "local"
    BY <2>3, OverFacts
  <2> HIDE DEF based
  <2>5. IsConfig(azure) /\ azure.provider # "local"
    BY <2>4, SwitchFacts
  <2> HIDE DEF azure
  <2>e. IsConfig(ended) /\ ended.provider # "local"
    BY <2>5, OverFacts
  <2> HIDE DEF ended
  <2>d. IsConfig(dated) /\ dated.provider # "local"
    BY <2>e, OverRestFacts
  <2> HIDE DEF dated
  <2>6. IsConfig(Overlay(c)) /\ Overlay(c).provider # "local"
    BY <2>1, <2>d, OverRestFacts
  <2> QED
    BY <2>6 DEF Private
<1> QED
  BY <1>5, <1>6

\* What load_and_validate returns.
LEMMA LoadedFacts ==
  ASSUME Shapes, Loaded # NoConfig
  PROVE  /\ IsConfig(Loaded) /\ Strict(Loaded) /\ Loaded = Overlay(Base(file))
         /\ Clean(file.cfg) => Private(Loaded)
<1>1. Loaded = Overlay(Base(file)) /\ Strict(Overlay(Base(file)))
  BY DEF Loaded
<1>2. IsConfig(Base(file)) /\ (Clean(file.cfg) => Clean(Base(file)))
  BY BaseIsClean DEF Shapes
<1>3. env \in Environments
  BY DEF Shapes
<1>4. IsConfig(Overlay(Base(file))) /\ (Clean(Base(file)) => Private(Overlay(Base(file))))
  BY <1>2, <1>3, OverlayIsPrivate
<1> QED
  BY <1>1, <1>2, <1>4

\* What set_config_value gets to write.
LEMMA EditedFacts ==
  ASSUME Shapes, Repairable # NoConfig, NEW e \in Edits, Edited(Repairable, e) # NoConfig
  PROVE  /\ IsConfig(Edited(Repairable, e)) /\ Strict(Edited(Repairable, e))
         /\ Clean(file.cfg) => Clean(Edited(Repairable, e))
<1> DEFINE r == Repairable
           value == IF e.key = "ai.provider" THEN Normalize(e.value) ELSE e.value
           new == SetValue(r, e.key, value)
<1>1. IsConfig(Default) /\ Clean(Default)
  BY DefaultIsClean
<1>2. IsConfig(r) /\ (Clean(file.cfg) => Clean(r))
  <2> DEFINE p == Normalize(file.cfg.provider)
             c == [file.cfg EXCEPT !.provider = p]
  <2>1. r = Default \/ r = c
    BY DEF Repairable
  <2>2. IsConfig(file.cfg)
    BY DEF Shapes
  <2>3. /\ IsConfig(c) /\ c.key = file.cfg.key /\ c.url = file.cfg.url
        /\ c.rest = file.cfg.rest
    <3> HIDE DEF p
    <3> QED
      BY <2>2 DEF IsConfig, NoConfig
  <2>4. Exposed(c) = Exposed(file.cfg)
    BY <2>3 DEF Exposed, Value
  <2> HIDE DEF c
  <2> QED
    BY <1>1, <2>1, <2>3, <2>4 DEF Clean
<1>3. Edited(r, e) = new /\ Strict(new)
  BY DEF Edited
<1> HIDE DEF r
<1>4. e.key \in {"ai.api_key", "ai.base_url", "ai.model", "ai.api_version"} => value \notin FromEnv
  BY SourcesAssumption
<1>5. CASE e.key = "ai.provider"
  <2> DEFINE p == Normalize(value)
  <2>1. new = [r EXCEPT !.provider = p]
    BY <1>5 DEF SetValue
  <2>2. IsConfig(new) /\ new.key = r.key /\ new.url = r.url /\ new.rest = r.rest
    <3> HIDE DEF p, new
    <3> QED
      BY <1>2, <2>1 DEF IsConfig, NoConfig
  <2>3. Exposed(new) = Exposed(r)
    BY <2>2 DEF Exposed, Value
  <2> QED
    BY <1>2, <1>3, <2>2, <2>3 DEF Clean, r
<1>6. CASE e.key = "ai.api_key"
  <2> DEFINE k == IF value = "" THEN None ELSE value
  <2>1. new = [r EXCEPT !.key = k]
    BY <1>6 DEF SetValue
  <2>2. k \notin FromEnv
    BY <1>4, <1>6 DEF None, FromEnv, Hosted
  <2>3. IsConfig(new) /\ new.key = k /\ new.url = r.url /\ new.rest = r.rest
    <3> HIDE DEF k, new
    <3> QED
      BY <1>2, <2>1 DEF IsConfig, NoConfig
  <2>4. Exposed(new) \subseteq Exposed(r) \cup {k}
    BY <2>3 DEF Exposed, Value
  <2> QED
    BY <1>2, <1>3, <2>2, <2>3, <2>4 DEF Clean, r
<1>7. CASE e.key = "ai.base_url"
  <2>1. new = [r EXCEPT !.url = value]
    BY <1>7 DEF SetValue
  <2>2. IsConfig(new) /\ new.url = value /\ new.key = r.key /\ new.rest = r.rest
    <3> HIDE DEF value, new
    <3> QED
      BY <1>2, <2>1 DEF IsConfig, NoConfig
  <2>3. Exposed(new) \subseteq Exposed(r) \cup {value}
    BY <2>2 DEF Exposed, Value
  <2> QED
    BY <1>2, <1>3, <1>4, <1>7, <2>2, <2>3 DEF Clean, r
<1>8. CASE e.key \notin {"ai.provider", "ai.api_key", "ai.base_url"}
  <2> DEFINE v == Parsed(e.key, value)
  <2>1. new = With(r, e.key, v)
    BY <1>8 DEF SetValue
  <2>p. e.key \in {"ai.model", "ai.api_version"} => v = value
    BY DEF Parsed, Switches
  <2>2. /\ IsConfig(new) /\ new.url = r.url /\ new.key = r.key
        /\ \A k : Value(new, k) = IF k = e.key THEN v ELSE Value(r, k)
    <3> HIDE DEF new, v
    <3> QED
      BY <1>2, <2>1, WithFacts
  <2> HIDE DEF v
  <2>3. Exposed(new) \subseteq Exposed(r) \cup (IF e.key \in {"ai.model", "ai.api_version"} THEN {value} ELSE {})
    BY <2>p, <2>2 DEF Exposed
  <2> QED
    BY <1>2, <1>3, <1>4, <2>2, <2>3 DEF Clean, r
<1> QED
  BY <1>5, <1>6, <1>7, <1>8

\* What a write, whole or torn, leaves in the file.
LEMMA WrittenFacts ==
  ASSUME NEW c, IsConfig(c), NEW f \in Written(c) \cup Torn(c)
  PROVE  IsConfig(f.cfg) /\ (Clean(c) => Clean(f.cfg))
<1>1. f = Broken \/ \E k \in 0..5 : f = Prefix(c, k)
  BY DEF Written, Torn, Full
<1>2. CASE f = Broken
  BY <1>2, NoConfigIsClean DEF Broken
<1>3. CASE \E k \in 0..5 : f = Prefix(c, k)
  BY <1>3, PrefixFacts
<1> QED
  BY <1>1, <1>2, <1>3

LEMMA FullAgrees ==
  ASSUME NEW c, IsConfig(c)
  PROVE  Agrees(c, Full(c).cfg)
<1> DEFINE d == Full(c).cfg
<1>1. d.provider = c.provider /\ d.key = c.key /\ d.url = c.url /\ d.rest = c.rest
  BY DEF Full, Prefix
<1> HIDE DEF d
<1>2. ASSUME NEW key PROVE GetValue(c, key) = GetValue(d, key)
  BY <1>1 DEF GetValue, Value
<1> QED
  BY <1>2 DEF Agrees, d

\* The layers are a function of the file and the environment.
LEMMA LayersStay ==
  ASSUME UNCHANGED <<env, file>>
  PROVE  Overlay(Base(file))' = Overlay(Base(file))
<1>1. \A c : Unified(c)' = Unified(c)
  BY DEF Unified, Over, OverRest
<1>2. \A c : LocalVars(c)' = LocalVars(c)
  BY DEF LocalVars
<1>3. \A c : HostedVars(c)' = HostedVars(c)
  BY DEF HostedVars, Over, OverRest, Switch
<1>4. \A c : Overlay(c)' = Overlay(c)
  BY <1>1, <1>2, <1>3 DEF Overlay
<1> QED
  BY <1>4
-----------------------------------------------------------------------------
(* The steps. *)

LEMMA InitIInv == Init => IInv
<1> SUFFICES ASSUME Init PROVE IInv
  OBVIOUS
<1>1. IsConfig(NoConfig)
  BY DEF IsConfig
<1>2. Shapes
  BY <1>1, SourcesAssumption DEF Init, Shapes, Places, Operations, None
<1>3. ValidInHand
  BY DEF Init, ValidInHand
<1>4. Contained
  <2>1. Clean(file.cfg)
    BY SourcesAssumption DEF Init
  <2>2. Private(NoConfig)
    BY NoConfigIsClean
  <2> QED
    BY <2>1, <2>2 DEF Init, Contained
<1>5. Alone /\ Following
  BY DEF Init, Alone, Following, CacheFollowsFile, InStep
<1> QED
  BY <1>2, <1>3, <1>4, <1>5 DEF IInv

\* A thread moves itself alone.
LEMMA OthersStay ==
  ASSUME NEW t \in Threads, Call(t) \/ Step(t), Shapes
  PROVE  /\ DOMAIN pc' = Threads /\ DOMAIN op' = Threads /\ DOMAIN hand' = Threads
         /\ \A u \in Threads \ {t} : pc'[u] = pc[u] /\ op'[u] = op[u] /\ hand'[u] = hand[u]
  BY DEF Shapes, Call, Step, Check, Load, Store, Clear, Repair, Truncate, Write, Remember,
     Goto, Take, Refused, Got, AfterWrite

\* Where an operation goes, and with what: the steps as the invariant sees them.
LEMMA Moves ==
  ASSUME NEW t \in Threads, Step(t), Shapes
  PROVE  \/ Check(t) /\ cached # NoConfig /\ hand'[t] = cached
            /\ \/ op[t] = "save" /\ pc'[t] = "check" /\ op'[t] = "saveTo"
               \/ op[t] = "saveTo" /\ pc'[t] = "truncate" /\ op'[t] = op[t]
               \/ op[t] \notin {"save", "saveTo"} /\ pc'[t] = "idle" /\ op'[t] = op[t]
         \/ Check(t) /\ cached = NoConfig /\ pc'[t] = "load" /\ op' = op /\ hand' = hand
         \/ Load(t) /\ pc'[t] = "idle" /\ hand'[t] = NoConfig
         \/ Load(t) /\ Loaded # NoConfig /\ pc'[t] = "store" /\ hand'[t] = Loaded
         \/ Store(t) /\ hand'[t] = hand[t]
            /\ \/ op[t] = "save" /\ pc'[t] = "check" /\ op'[t] = "saveTo"
               \/ op[t] = "saveTo" /\ pc'[t] = "truncate" /\ op'[t] = op[t]
               \/ op[t] \notin {"save", "saveTo"} /\ pc'[t] = "idle" /\ op'[t] = op[t]
         \/ Clear(t) /\ pc'[t] = "check"
         \/ Repair(t) /\ pc'[t] = "idle" /\ hand'[t] = NoConfig
         \/ Repair(t) /\ pc'[t] = "truncate" /\ Repairable # NoConfig
            /\ \E e \in Edits : Edited(Repairable, e) # NoConfig /\ hand'[t] = Edited(Repairable, e)
         \/ Truncate(t) /\ pc'[t] = "write" /\ hand' = hand /\ file' = Prefix(hand[t], 0) /\ failed' = failed
         \/ Truncate(t) /\ pc'[t] = "idle" /\ hand'[t] = NoConfig /\ file' = file /\ failed'
         \/ Write(t) /\ hand' = hand /\ file' \in Written(hand[t]) /\ failed' = failed
            /\ \/ op[t] = "set" /\ pc'[t] = "remember"
               \/ op[t] = "reset" /\ pc'[t] = "clear"
               \/ op[t] \notin {"set", "reset"} /\ pc'[t] = "idle"
         \/ Write(t) /\ pc'[t] = "idle" /\ hand'[t] = NoConfig /\ failed'
            /\ file' \in Written(hand[t]) \cup Torn(hand[t])
         \/ Remember(t) /\ pc'[t] = "idle" /\ hand' = hand
<1>s. DOMAIN pc = Threads /\ DOMAIN op = Threads /\ DOMAIN hand = Threads
  BY DEF Shapes
<1>1. CASE Check(t)
  BY <1>1, <1>s DEF Check, Got, Goto, Take
<1>2. CASE Load(t)
  <2> DEFINE l == Loaded
  <2> HIDE DEF l
  <2>1. \/ Refused(t)
        \/ l # NoConfig /\ Goto(t, "store") /\ Take(t, l)
    BY <1>2 DEF Load, l
  <2> QED
    BY <1>2, <1>s, <2>1 DEF Refused, Goto, Take, l
<1>3. CASE Store(t)
  BY <1>3, <1>s DEF Store, Got, Goto, Take
<1>4. CASE Clear(t)
  BY <1>4, <1>s DEF Clear, Goto
<1>5. CASE Repair(t)
  <2> DEFINE r == Repairable
  <2> HIDE DEF r
  <2>1. PICK e \in Edits :
          LET new == IF r = NoConfig THEN NoConfig ELSE Edited(r, e)
          IN  \/ new = NoConfig /\ Refused(t)
              \/ new # NoConfig /\ Goto(t, "truncate") /\ Take(t, new)
    BY <1>5 DEF Repair, r
  <2> DEFINE new == Edited(r, e)
  <2> HIDE DEF new
  <2>2. \/ Refused(t)
        \/ r # NoConfig /\ new # NoConfig /\ Goto(t, "truncate") /\ Take(t, new)
    BY <2>1 DEF new
  <2>3. \/ pc'[t] = "idle" /\ hand'[t] = NoConfig
        \/ r # NoConfig /\ new # NoConfig /\ pc'[t] = "truncate" /\ hand'[t] = new
    BY <1>s, <2>2 DEF Refused, Goto, Take
  <2> QED
    BY <1>5, <2>3 DEF r, new
<1>6. CASE Truncate(t)
  BY <1>6, <1>s DEF Truncate, Refused, Goto, Take
<1>7. CASE Write(t)
  <2> DEFINE w == Written(hand[t])
             tn == Torn(hand[t])
  <2> HIDE DEF w, tn
  <2>1. \/ file' \in w /\ AfterWrite(t) /\ UNCHANGED <<hand, failed>>
        \/ file' \in w \cup tn /\ Refused(t) /\ failed' = TRUE
    BY <1>7 DEF Write, w, tn
  <2>2. CASE file' \in w /\ AfterWrite(t) /\ UNCHANGED <<hand, failed>>
    <3>1. \/ op[t] = "set" /\ pc'[t] = "remember"
          \/ op[t] = "reset" /\ pc'[t] = "clear"
          \/ op[t] \notin {"set", "reset"} /\ pc'[t] = "idle"
      BY <2>2, <1>s DEF AfterWrite, Goto
    <3> QED
      BY <1>7, <2>2, <3>1 DEF w
  <2>3. CASE file' \in w \cup tn /\ Refused(t) /\ failed' = TRUE
    BY <1>7, <1>s, <2>3 DEF Refused, Goto, Take, w, tn
  <2> QED
    BY <2>1, <2>2, <2>3
<1>8. CASE Remember(t)
  BY <1>8, <1>s DEF Remember, Goto
<1> QED
  BY <1>1, <1>2, <1>3, <1>4, <1>5, <1>6, <1>7, <1>8 DEF Step

\* What a call begins with.
LEMMA CallMoves ==
  ASSUME NEW t \in Threads, Call(t), Shapes
  PROVE  /\ pc[t] = "idle" /\ UNCHANGED <<file, env, cached, saved, failed>>
         /\ overlapped' = (overlapped \/ \E u \in Threads \ {t} : pc[u] # "idle")
         /\ \/ pc'[t] \in {"check", "clear", "repair"} /\ hand'[t] = NoConfig
            \/ pc'[t] = "truncate" /\ hand'[t] = Default /\ op'[t] = "reset"
         /\ op'[t] \in Operations
         /\ pc'[t] = "repair" => op'[t] = "set"
<1>1. PICK o \in {"get", "set", "reload", "save", "reset"} :
        /\ op' = [op EXCEPT ![t] = o]
        /\ pc' = [pc EXCEPT ![t] = CASE o = "get" -> "check" [] o = "set" -> "repair" [] o = "reload" -> "clear"
                    [] o = "save" -> "check" [] o = "reset" -> "truncate"]
        /\ hand' = [hand EXCEPT ![t] = IF o = "reset" THEN Default ELSE NoConfig]
  BY DEF Call, Goto, Take
<1>2. DOMAIN pc = Threads /\ DOMAIN op = Threads /\ DOMAIN hand = Threads
  BY DEF Shapes
<1>3. /\ pc[t] = "idle" /\ UNCHANGED <<file, env, cached, saved, failed>>
      /\ overlapped' = (overlapped \/ \E u \in Threads \ {t} : pc[u] # "idle")
  BY DEF Call
<1>4. /\ \/ pc'[t] \in {"check", "clear", "repair"} /\ hand'[t] = NoConfig
         \/ pc'[t] = "truncate" /\ hand'[t] = Default /\ op'[t] = "reset"
      /\ op'[t] \in Operations
      /\ pc'[t] = "repair" => op'[t] = "set"
  BY <1>1, <1>2 DEF Operations
<1> QED
  BY <1>3, <1>4

LEMMA ShapesStep ==
  ASSUME Shapes, Next
  PROVE  Shapes'
<1>c. IsConfig(NoConfig) /\ IsConfig(Default)
  BY DEF IsConfig, NoConfig, Default
<1>1. ASSUME NEW t \in Threads, Call(t) PROVE Shapes'
  <2>1. IsConfig(hand'[t])
    BY <1>1, <1>c, CallMoves
  <2>2. pc' \in [Threads -> Places] /\ op' \in [Threads -> Operations]
    BY <1>1 DEF Call, Goto, Shapes, Places, Operations
  <2>3. UNCHANGED <<file, env, cached>>
    BY <1>1 DEF Call
  <2> QED
    BY <1>1, <2>1, <2>2, <2>3, OthersStay DEF Shapes
<1>2. ASSUME NEW t \in Threads, Step(t) PROVE Shapes'
  <2>1. pc' \in [Threads -> Places] /\ op' \in [Threads -> Operations]
    BY <1>2 DEF Step, Check, Load, Store, Clear, Repair, Truncate, Write, Remember,
       Goto, Refused, Got, AfterWrite, Shapes, Places, Operations
  <2>2. env' = env
    BY <1>2 DEF Step, Check, Load, Store, Clear, Repair, Truncate, Write, Remember
  <2>3. IsConfig(hand[t]) /\ IsConfig(cached) /\ IsConfig(file.cfg)
    BY DEF Shapes
  <2>4. IsConfig(cached')
    BY <1>2, <1>c, <2>3 DEF Step, Check, Load, Store, Clear, Repair, Truncate, Write, Remember
  <2>5. IsConfig(file'.cfg)
    <3>1. \/ file' = file \/ file' = Prefix(hand[t], 0) \/ file' \in Written(hand[t]) \cup Torn(hand[t])
      BY <1>2 DEF Step, Check, Load, Store, Clear, Repair, Truncate, Write, Remember
    <3> QED
      BY <2>3, <3>1, PrefixFacts, WrittenFacts
  <2>6. IsConfig(hand'[t])
    <3>1. \/ hand'[t] \in {hand[t], cached, NoConfig}
          \/ Loaded # NoConfig /\ hand'[t] = Loaded
          \/ /\ Repairable # NoConfig
             /\ \E e \in Edits : Edited(Repairable, e) # NoConfig /\ hand'[t] = Edited(Repairable, e)
      <4>1. Clear(t) => hand' = hand
        BY DEF Clear
      <4> QED
        BY <1>2, <4>1, Moves
    <3> QED
      BY <1>c, <2>3, <3>1, LoadedFacts, EditedFacts
  <2> QED
    BY <1>2, <2>1, <2>2, <2>4, <2>5, <2>6, OthersStay DEF Shapes
<1>3. CASE Crash
  <2>1. IsConfig(file'.cfg)
    <3>1. file' = file \/ \E t \in Threads : file' \in Written(hand[t]) \cup Torn(hand[t])
      BY <1>3 DEF Crash
    <3> QED
      BY <3>1, WrittenFacts DEF Shapes
  <2> QED
    BY <1>3, <1>c, <2>1 DEF Crash, Shapes, Places, Operations
<1>4. CASE Quiet
  BY <1>4 DEF Quiet, vars, Shapes
<1> QED
  BY <1>1, <1>2, <1>3, <1>4 DEF Next

\* Nothing unvalidated reaches the cache or a write.
LEMMA ValidStep ==
  ASSUME Shapes, ValidInHand, Next
  PROVE  ValidInHand'
<1>1. ASSUME NEW t \in Threads, Call(t) PROVE ValidInHand'
  <2>1. /\ cached' = cached /\ pc'[t] \notin {"store", "remember"}
        /\ pc'[t] \in {"truncate", "write"} => Resets(t)'
    BY <1>1, CallMoves DEF Resets
  <2> QED
    BY <1>1, <2>1, OthersStay DEF ValidInHand, Resets
<1>2. ASSUME NEW t \in Threads, Step(t) PROVE ValidInHand'
  <2>1. cached' # NoConfig => Strict(cached')
    BY <1>2 DEF Step, Check, Load, Store, Clear, Repair, Truncate, Write, Remember, ValidInHand
  <2>2. /\ pc'[t] \in {"store", "remember"} => Strict(hand'[t])
        /\ pc'[t] \in {"truncate", "write"} => Strict(hand'[t]) \/ Resets(t)'
    <3>1. /\ Store(t) => Strict(hand[t])
          /\ Truncate(t) => op' = op /\ (Strict(hand[t]) \/ Resets(t))
          /\ Write(t) /\ op[t] = "set" => Strict(hand[t])
      BY DEF Store, Truncate, Write, ValidInHand, Resets
    <3>2. cached # NoConfig => Strict(cached)
      BY DEF ValidInHand
    <3>3. Loaded # NoConfig => Strict(Loaded)
      BY LoadedFacts
    <3>4. \A e \in Edits : Repairable # NoConfig /\ Edited(Repairable, e) # NoConfig
                             => Strict(Edited(Repairable, e))
      BY EditedFacts
    <3> QED
      BY <1>2, <3>1, <3>2, <3>3, <3>4, Moves DEF Resets
  <2> QED
    BY <1>2, <2>1, <2>2, OthersStay DEF ValidInHand, Resets
<1>3. CASE Crash
  BY <1>3 DEF Crash, ValidInHand
<1>4. CASE Quiet
  BY <1>4 DEF Quiet, vars, ValidInHand, Resets
<1> QED
  BY <1>1, <1>2, <1>3, <1>4 DEF Next

\* Nothing of the environment reaches the file but through save_config.
LEMMA ContainedStep ==
  ASSUME Shapes, Contained, Next
  PROVE  Contained'
<1> DEFINE Held(t) ==
      /\ pc[t] = "store" => Private(hand[t])
      /\ pc[t] \in {"truncate", "write"} => op[t] = "saveTo" \/ Clean(hand[t])
      /\ pc[t] = "remember" => Clean(hand[t])
<1>d. Private(NoConfig) /\ Clean(Default)
  BY NoConfigIsClean, DefaultIsClean
<1>p. ASSUME NEW c, Clean(c) PROVE Private(c)
  BY <1>p DEF Clean, Private, FromEnv
<1>1. ASSUME NEW t \in Threads, Call(t) PROVE Contained'
  <2>1. UNCHANGED <<file, cached, saved>> /\ Held(t)'
    BY <1>1, <1>d, CallMoves
  <2> QED
    BY <1>1, <2>1, OthersStay DEF Contained
<1>2. ASSUME NEW t \in Threads, Step(t) PROVE Contained'
  <2> SUFFICES ASSUME ~saved' PROVE Contained'
    BY DEF Contained
  <2>1. ~saved /\ (Write(t) => op[t] # "saveTo")
    <3>1. CASE Write(t)
      <4>1. saved' = (saved \/ op[t] = "saveTo")
        BY <3>1 DEF Write
      <4> QED
        BY <4>1
    <3>2. CASE ~Write(t)
      <4>1. saved' = saved
        BY <1>2, <3>2 DEF Step, Check, Load, Store, Clear, Repair, Truncate, Remember
      <4> QED
        BY <3>2, <4>1
    <3> QED
      BY <3>1, <3>2
  <2>2. Clean(file.cfg) /\ Private(cached) /\ \A u \in Threads : Held(u)
    BY <2>1 DEF Contained
  <2>3. IsConfig(hand[t])
    BY DEF Shapes
  <2>4. Private(cached')
    <3>1. CASE Store(t)
      BY <2>2, <3>1 DEF Store
    <3>2. CASE Remember(t)
      BY <1>p, <2>2, <3>2 DEF Remember
    <3>3. CASE ~Store(t) /\ ~Remember(t)
      BY <1>2, <1>d, <2>2, <3>3 DEF Step, Check, Load, Clear, Repair, Truncate, Write
    <3> QED
      BY <3>1, <3>2, <3>3
  <2>5. Clean(file'.cfg)
    <3>1. CASE Truncate(t)
      <4>1. file' = file \/ file' = Prefix(hand[t], 0)
        BY <3>1 DEF Truncate
      <4> QED
        BY <2>2, <2>3, <4>1, PrefixFacts
    <3>2. CASE Write(t)
      <4>1. Clean(hand[t])
        BY <2>1, <2>2, <3>2 DEF Write
      <4>2. file' \in Written(hand[t]) \cup Torn(hand[t])
        BY <3>2 DEF Write
      <4> QED
        BY <2>3, <4>1, <4>2, WrittenFacts
    <3>3. CASE ~Truncate(t) /\ ~Write(t)
      BY <1>2, <2>2, <3>3 DEF Step, Check, Load, Store, Clear, Repair, Remember
    <3> QED
      BY <3>1, <3>2, <3>3
  <2>6. Held(t)'
    <3>1. Truncate(t) => op' = op /\ (op[t] = "saveTo" \/ Clean(hand[t]))
      BY <2>2 DEF Truncate
    <3>2. Write(t) => Clean(hand[t])
      BY <2>1, <2>2 DEF Write
    <3>3. Loaded # NoConfig => Private(Loaded)
      BY <2>2, LoadedFacts
    <3>4. \A e \in Edits : Repairable # NoConfig /\ Edited(Repairable, e) # NoConfig
                             => Clean(Edited(Repairable, e))
      BY <2>2, EditedFacts
    <3> QED
      BY <1>2, <3>1, <3>2, <3>3, <3>4, Moves
  <2> QED
    BY <1>2, <2>2, <2>4, <2>5, <2>6, OthersStay DEF Contained
<1>3. CASE Crash
  <2> SUFFICES ASSUME ~saved' PROVE Contained'
    BY DEF Contained
  <2>1. ~saved /\ ~\E t \in Threads : pc[t] = "write" /\ op[t] = "saveTo"
    BY <1>3 DEF Crash
  <2>2. Clean(file'.cfg)
    <3>1. file' = file \/ \E t \in Threads : pc[t] = "write" /\ file' \in Written(hand[t]) \cup Torn(hand[t])
      BY <1>3 DEF Crash
    <3>2. \A t \in Threads : pc[t] = "write" => Clean(hand[t])
      BY <2>1 DEF Contained
    <3> QED
      BY <2>1, <3>1, <3>2, WrittenFacts DEF Shapes, Contained
  <2> QED
    BY <1>3, <1>d, <2>2 DEF Crash, Contained
<1>4. CASE Quiet
  BY <1>4 DEF Quiet, vars, Contained
<1> QED
  BY <1>1, <1>2, <1>3, <1>4 DEF Next

LEMMA AloneStep ==
  ASSUME Shapes, Alone, Next
  PROVE  Alone'
<1> SUFFICES ASSUME ~overlapped' PROVE Alone'
  BY DEF Alone
<1>1. ASSUME NEW t \in Threads, Call(t) PROVE Alone'
  <2>1. \A u \in Threads \ {t} : pc[u] = "idle"
    BY <1>1, CallMoves
  <2> QED
    BY <1>1, <2>1, OthersStay DEF Alone
<1>2. ASSUME NEW t \in Threads, Step(t) PROVE Alone'
  <2>1. pc[t] # "idle" /\ overlapped' = overlapped
    BY <1>2 DEF Step, Check, Load, Store, Clear, Repair, Truncate, Write, Remember
  <2>2. \A u \in Threads \ {t} : pc[u] = "idle"
    BY <2>1 DEF Alone
  <2> QED
    BY <1>2, <2>2, OthersStay DEF Alone
<1>3. CASE Crash
  BY <1>3 DEF Crash, Alone
<1>4. CASE Quiet
  BY <1>4 DEF Quiet, vars, Alone
<1> QED
  BY <1>1, <1>2, <1>3, <1>4 DEF Next

\* What is in step stays so, as long as nobody else is in an operation.
LEMMA FollowingStep ==
  ASSUME Shapes, Alone, Following, Next
  PROVE  Following'
<1> SUFFICES ASSUME ~overlapped', ~failed' PROVE (CacheFollowsFile /\ \A t \in Threads : InStep(t))'
  BY DEF Following
<1>i. ASSUME NEW u \in Threads, pc'[u] = "idle" PROVE InStep(u)'
  BY <1>i DEF InStep
<1>1. ASSUME NEW t \in Threads, Call(t) PROVE (CacheFollowsFile /\ \A u \in Threads : InStep(u))'
  <2>1. (\A u \in Threads : pc[u] = "idle") /\ ~overlapped /\ ~failed
    BY <1>1, CallMoves
  <2>2. CacheFollowsFile
    BY <2>1 DEF Following
  <2>3. cached = NoConfig \/ Follows(cached)
    BY <2>1, <2>2 DEF CacheFollowsFile, Follows
  <2>4. cached' = NoConfig \/ Follows(cached)'
    <3>1. UNCHANGED <<env, file, cached>>
      BY <1>1 DEF Call
    <3> QED
      BY <2>3, <3>1, LayersStay DEF Follows
  <2>5. InStep(t)'
    BY <1>1, <2>4, CallMoves DEF InStep
  <2>6. \A u \in Threads \ {t} : pc'[u] = "idle"
    BY <1>1, <2>1, OthersStay
  <2>7. pc'[t] # "idle"
    BY <1>1, CallMoves
  <2> QED
    BY <1>i, <2>5, <2>6, <2>7 DEF CacheFollowsFile
<1>2. ASSUME NEW t \in Threads, Step(t) PROVE (CacheFollowsFile /\ \A u \in Threads : InStep(u))'
  <2>1. pc[t] # "idle" /\ ~overlapped /\ ~failed
    <3>1. pc[t] # "idle" /\ overlapped' = overlapped
      BY <1>2 DEF Step, Check, Load, Store, Clear, Repair, Truncate, Write, Remember
    <3>2. failed => failed'
      BY <1>2 DEF Step, Check, Load, Store, Clear, Repair, Truncate, Write, Remember
    <3> QED
      BY <3>1, <3>2
  <2>2. \A u \in Threads \ {t} : pc[u] = "idle"
    BY <2>1 DEF Alone
  <2>3. InStep(t)
    BY <2>1 DEF Following
  <2>4. \A u \in Threads \ {t} : InStep(u)'
    BY <1>2, <1>i, <2>2, OthersStay
  <2> SUFFICES /\ InStep(t)'
               /\ pc'[t] = "idle" => cached' = NoConfig \/ Follows(cached)'
    BY <2>4 DEF CacheFollowsFile, Follows
  <2>s. UNCHANGED <<env, file, cached>> /\ (cached = NoConfig \/ Follows(cached))
          => cached' = NoConfig \/ Follows(cached)'
    BY LayersStay DEF Follows
  <2>5. CASE Check(t)
    <3>1. UNCHANGED <<env, file, cached>> /\ pc[t] = "check"
      BY <2>5 DEF Check
    <3>2. cached = NoConfig \/ Follows(cached)
      BY <2>3, <3>1 DEF InStep
    <3>3. cached' = NoConfig \/ Follows(cached)'
      BY <2>s, <3>1, <3>2
    <3>4. \/ pc'[t] \in {"check", "idle", "load"}
          \/ pc'[t] = "truncate" /\ op'[t] = "saveTo" /\ hand'[t] = cached'
      BY <1>2, <2>5, <3>1, Moves DEF Check, Load, Store, Clear, Repair, Truncate, Write, Remember
    <3> QED
      BY <3>3, <3>4 DEF InStep
  <2>6. CASE Load(t)
    <3>1. UNCHANGED <<env, file, cached>> /\ pc[t] = "load"
      BY <2>6 DEF Load
    <3>2. cached = NoConfig \/ Follows(cached)
      BY <2>3, <3>1 DEF InStep
    <3>3. cached' = NoConfig \/ Follows(cached)'
      BY <2>s, <3>1, <3>2
    <3>4. pc'[t] = "idle" \/ (Loaded # NoConfig /\ pc'[t] = "store" /\ hand'[t] = Loaded)
      BY <1>2, <2>6, <3>1, Moves DEF Check, Store, Clear, Repair, Truncate, Write, Remember
    <3>5. Loaded # NoConfig => Loaded = Overlay(Base(file))'
      BY <3>1, LoadedFacts, LayersStay
    <3> QED
      BY <3>3, <3>4, <3>5 DEF InStep
  <2>7. CASE Store(t)
    <3>1. UNCHANGED <<env, file>> /\ pc[t] = "store" /\ cached' = hand[t]
      BY <2>7 DEF Store
    <3>2. cached' = Overlay(Base(file))'
      BY <2>3, <3>1, LayersStay DEF InStep
    <3>3. Follows(cached)'
      BY <3>2 DEF Follows, Agrees
    <3>4. \/ pc'[t] \in {"check", "idle"}
          \/ pc'[t] = "truncate" /\ op'[t] = "saveTo" /\ hand'[t] = cached'
      BY <1>2, <2>7, <3>1, Moves DEF Check, Load, Clear, Repair, Truncate, Write, Remember
    <3> QED
      BY <3>3, <3>4 DEF InStep
  <2>8. CASE Clear(t)
    <3>1. pc'[t] = "check" /\ cached' = NoConfig
      BY <2>8 DEF Clear, Goto, Shapes
    <3> QED
      BY <3>1 DEF InStep
  <2>9. CASE Repair(t)
    <3>1. UNCHANGED <<env, file, cached, op>> /\ pc[t] = "repair"
      BY <2>9 DEF Repair
    <3>2. (cached = NoConfig \/ Follows(cached)) /\ op[t] = "set"
      BY <2>3, <3>1 DEF InStep
    <3>3. cached' = NoConfig \/ Follows(cached)'
      BY <2>s, <3>1, <3>2
    <3>4. pc'[t] \in {"idle", "truncate"}
      BY <1>2, <2>9, <3>1, Moves DEF Check, Load, Store, Clear, Truncate, Write, Remember
    <3> QED
      BY <3>1, <3>2, <3>3, <3>4 DEF InStep
  <2>10. CASE Truncate(t)
    <3>1. UNCHANGED <<cached, op>> /\ pc[t] = "truncate"
      BY <2>10 DEF Truncate
    <3>2. pc'[t] = "write" /\ hand' = hand /\ file' = Prefix(hand[t], 0)
      BY <1>2, <2>10, <3>1, Moves DEF Check, Load, Store, Clear, Repair, Write, Remember
    <3>3. file'.upto = 0
      BY <3>2, PrefixFacts DEF Shapes
    <3>4. op'[t] \in {"set", "reset"} \/ (op'[t] = "saveTo" /\ cached' = hand'[t])
      BY <2>3, <3>1, <3>2 DEF InStep
    <3> QED
      BY <3>2, <3>3, <3>4 DEF InStep
  <2>11. CASE Write(t)
    <3>1. UNCHANGED <<cached, op>> /\ pc[t] = "write"
      BY <2>11 DEF Write
    <3>2. /\ hand' = hand /\ file' \in Written(hand[t])
          /\ \/ op[t] = "set" /\ pc'[t] = "remember"
             \/ op[t] = "reset" /\ pc'[t] = "clear"
             \/ op[t] \notin {"set", "reset"} /\ pc'[t] = "idle"
      BY <1>2, <2>11, <3>1, Moves DEF Check, Load, Store, Clear, Repair, Truncate, Remember
    <3>3. file' = Full(hand[t])
      BY <2>3, <3>1, <3>2 DEF InStep, Written
    <3>4. Agrees(hand[t], file'.cfg)
      BY <3>3, FullAgrees DEF Shapes
    <3>5. op[t] \in {"set", "reset"} \/ cached = hand[t]
      BY <2>3, <3>1 DEF InStep
    <3> QED
      BY <3>1, <3>2, <3>4, <3>5 DEF InStep, Follows
  <2>12. CASE Remember(t)
    <3>1. UNCHANGED <<env, file>> /\ pc[t] = "remember" /\ cached' = hand[t] /\ pc'[t] = "idle"
      BY <2>12 DEF Remember, Goto, Shapes
    <3>2. Agrees(cached', file'.cfg)
      BY <2>3, <3>1 DEF InStep
    <3> QED
      BY <3>1, <3>2, <1>i DEF Follows
  <2> QED
    BY <1>2, <2>5, <2>6, <2>7, <2>8, <2>9, <2>10, <2>11, <2>12 DEF Step
<1>3. CASE Crash
  BY <1>3 DEF Crash
<1>4. CASE Quiet
  <2>1. UNCHANGED vars
    BY <1>4 DEF Quiet
  <2>2. CacheFollowsFile /\ \A t \in Threads : InStep(t)
    BY <2>1 DEF vars, Following
  <2>3. UNCHANGED <<env, file>>
    BY <2>1 DEF vars
  <2> QED
    BY <2>1, <2>2, <2>3, LayersStay DEF vars, CacheFollowsFile, InStep, Follows
<1> QED
  BY <1>1, <1>2, <1>3, <1>4 DEF Next

-----------------------------------------------------------------------------
(* Theorems. *)

LEMMA InductiveIInv == Spec => []IInv
<1>1. IInv /\ [Next]_vars => IInv'
  <2> SUFFICES ASSUME IInv, [Next]_vars PROVE IInv'
    OBVIOUS
  <2>1. CASE Next
    BY <2>1, ShapesStep, ValidStep, ContainedStep, AloneStep, FollowingStep DEF IInv
  <2>2. CASE UNCHANGED vars
    <3>1. (Shapes /\ ValidInHand /\ Contained /\ Alone)'
      BY <2>2 DEF vars, IInv, Shapes, ValidInHand, Resets, Contained, Alone
    <3>2. Following'
      <4>1. UNCHANGED <<env, file>>
        BY <2>2 DEF vars
      <4> QED
        BY <2>2, <4>1, LayersStay DEF vars, IInv, Following, CacheFollowsFile, InStep, Follows
    <3> QED
      BY <3>1, <3>2 DEF IInv
  <2> QED
    BY <2>1, <2>2
<1> QED
  BY InitIInv, <1>1, PTL DEF Spec

\* get_config, set_config_value and save_config cache and write nothing that
\* validate_config refuses, whatever the threads interleave and whatever fails;
\* reset_to_defaults writes the defaults, refused or not, and caches nothing refused.
THEOREM OnlyValidIsAlwaysKept == Spec => []OnlyValidIsKept
<1>1. IInv => OnlyValidIsKept
  BY DEF IInv, ValidInHand, OnlyValidIsKept
<1> QED
  BY <1>1, InductiveIInv, PTL

\* Until save_config is asked to, no value of an environment variable gets into
\* the file, and none of a hosted provider's into a cached local configuration.
THEOREM EnvironmentIsContained == Spec => []EnvironmentContained
<1>1. IInv => EnvironmentContained
  BY DEF IInv, Contained, EnvironmentContained, EnvNotPersisted, LocalIsPrivate
<1> QED
  BY <1>1, InductiveIInv, PTL

\* One operation at a time, with no failed write, leaves a cache that says what
\* the file says, with or without the environment over it.
THEOREM CacheAlwaysFollowsFile == Spec => []CacheFollowsFile
<1>1. IInv => CacheFollowsFile
  BY DEF IInv, Following, CacheFollowsFile
<1> QED
  BY <1>1, InductiveIInv, PTL
=============================================================================
