---------------------------- MODULE ConfigService ----------------------------
(* ProductionConfigService (src/config/service.rs): a configuration file, the *)
(* environment laid over it, and a cache shared by the threads of a process.  *)
(* The cache has a lock, the file has none: a step is one access to either.   *)
(* Configurations, their fields and their validators are in ConfigFields.     *)
EXTENDS ConfigFields, FiniteSets

CONSTANTS
  Threads,
  Budget,           \* bound on the operations started
  InitialFiles,     \* contents of the file at the start
  Environments,     \* environments considered: variable -> value or Unset
  Edits             \* the [key, value] pairs given to set_config_value

Unset == "unset"
NoConfig == [provider |-> None, key |-> None, url |-> None, rest |-> <<>>]

\* What users and variables write in a field.  "sk" starts with sk-, "plain"
\* does not, "short" is too short; what the hosted providers' variables, SUBX_AI_*
\* and LOCAL_LLM_* say is recognisable.
Hosted == {"hostedKey", "hostedUrl", "hostedModel", "hostedVersion"}
FromEnv == Hosted \cup {"subxKey", "subxUrl", "subxModel", "localKey", "localUrl"}

\* A file is absent, unparsable, or ends after the first upto of cfg's provider,
\* key, model, URL and rest (the order of the structs).
Absent == [cfg |-> NoConfig, upto |-> 9]
Broken == [cfg |-> NoConfig, upto |-> 8]
Prefix(c, k) ==
  [cfg |-> [provider |-> IF k >= 1 THEN c.provider ELSE None, key |-> IF k >= 2 THEN c.key ELSE None,
            url |-> IF k >= 4 THEN c.url ELSE None,
            rest |-> IF k >= 5 THEN c.rest
                     ELSE [x \in DOMAIN c.rest \cap (IF k >= 3 THEN {"ai.model"} ELSE {}) |-> c.rest[x]]],
   upto |-> k]
Full(c) == Prefix(c, 5)
IsFull(f) == f.upto = 5

\* What makes the values of the variables recognisable: files and edits have none
\* of them, and those of the hosted providers' variables are in no other variable.
IsConfig(c) == DOMAIN c = DOMAIN NoConfig
Exposed(c) == {c.key, c.url, Value(c, "ai.model"), Value(c, "ai.api_version")}
Clean(c) == Exposed(c) \cap FromEnv = {}

ASSUME SourcesAssumption ==
  /\ \A f \in InitialFiles : IsConfig(f.cfg) /\ Clean(f.cfg)
  /\ \A e \in Edits : e.key \in {"ai.api_key", "ai.base_url", "ai.model", "ai.api_version"} => e.value \notin FromEnv
  /\ \A v \in Environments :
       \A x \in {"SUBX_AI_APIKEY", "SUBX_AI_BASE_URL", "SUBX_AI_MODEL",
                 "LOCAL_LLM_API_KEY", "LOCAL_LLM_BASE_URL"} :
         v[x] \notin Hosted

VARIABLES
  file, env,
  cached,           \* cached_config, or NoConfig
  op, pc,           \* each thread's operation and control state
  hand,             \* the configuration a thread has in hand
  left,             \* operations that may still start
  saved,            \* history: save_config wrote the merged configuration
  overlapped,       \* history: two operations overlapped
  failed            \* history: a write failed, or the process died

vars == <<file, env, cached, op, pc, hand, left, saved, overlapped, failed>>

-----------------------------------------------------------------------------
(* Layers *)

\* The merged sources before the overrides: an incomplete file yields the
\* defaults and, of its ai section, all that is looked up but the key.
Base(f) ==
  CASE f = Absent -> Default
    [] IsFull(f)  -> f.cfg
    [] OTHER      -> [Default EXCEPT
         !.provider = IF f.upto >= 1 THEN f.cfg.provider ELSE @,
         !.url      = IF f.upto >= 4 THEN f.cfg.url ELSE @,
         !.rest     = f.cfg.rest]

Over(c, field, var) == IF env[var] = Unset THEN c ELSE [c EXCEPT ![field] = env[var]]
OverRest(c, key, var) == IF env[var] = Unset THEN c ELSE With(c, key, env[var])
Switch(c, var, p) ==
  IF env[var] = Unset THEN c ELSE [c EXCEPT !.provider = p, !.key = env[var]]

\* SUBX_AI_* on top, then the provider's canonical name.
Unified(c) ==
  LET o == Over(Over(Over(c, "provider", "SUBX_AI_PROVIDER"), "key", "SUBX_AI_APIKEY"),
                "url", "SUBX_AI_BASE_URL")
  IN  [OverRest(o, "ai.model", "SUBX_AI_MODEL") EXCEPT !.provider = Normalize(@)]

LocalVars(c) ==
  [c EXCEPT !.url = IF env["SUBX_AI_BASE_URL"] = Unset /\ env["LOCAL_LLM_BASE_URL"] # Unset
                    THEN env["LOCAL_LLM_BASE_URL"] ELSE @,
            !.key = IF env["SUBX_AI_APIKEY"] = Unset /\ env["LOCAL_LLM_API_KEY"] # Unset
                    THEN env["LOCAL_LLM_API_KEY"] ELSE @]

HostedVars(c) ==
  LET router == Switch(c, "OPENROUTER_API_KEY", "openrouter")
      openai == IF router.key = None THEN Over(router, "key", "OPENAI_API_KEY") ELSE router
      azure  == Switch(Over(openai, "url", "OPENAI_BASE_URL"), "AZURE_OPENAI_API_KEY", "azure-openai")
      dated  == OverRest(Over(azure, "url", "AZURE_OPENAI_ENDPOINT"),
                         "ai.api_version", "AZURE_OPENAI_API_VERSION")
  IN  OverRest(dated, "ai.model", "AZURE_OPENAI_DEPLOYMENT_ID")

\* Mutant: the provider is compared before it is canonical.
OverlayAliased(c) ==
  IF Over(c, "provider", "SUBX_AI_PROVIDER").provider = "local"
  THEN LocalVars(Unified(c)) ELSE HostedVars(Unified(c))

\* "hosted-provider env vars MUST NOT ... populate any ai.* field" of local.
Overlay(c) ==
  LET u == Unified(c)
  IN  IF u.provider = "local" THEN LocalVars(u) ELSE HostedVars(u)

\* load_and_validate: the configuration, or NoConfig for an error.
Loaded ==
  LET c == Overlay(Base(file))
  IN  IF file = Broken \/ ~Strict(c) THEN NoConfig ELSE c

\* load_for_repair: the file alone, fields validated, sections not.
Repairable ==
  LET c == [file.cfg EXCEPT !.provider = Normalize(@)]
  IN  CASE file = Absent                   -> Default
        [] IsFull(file) /\ FieldValid(c)   -> c
        [] OTHER                           -> NoConfig

\* Mutant: the configuration is not validated after the change.
EditedUnchecked(c, e) ==
  IF FieldAccepts(e.key, e.value) THEN SetValue(c, e.key, e.value) ELSE NoConfig

\* validate_and_set_value
Edited(c, e) ==
  LET value == IF e.key = "ai.provider" THEN Normalize(e.value) ELSE e.value
      new == SetValue(c, e.key, value)
  IN  IF FieldAccepts(e.key, value) /\ Strict(new) THEN new ELSE NoConfig

-----------------------------------------------------------------------------
(* Operations *)

Init ==
  /\ file \in InitialFiles
  /\ env \in Environments
  /\ cached = NoConfig
  /\ op = [t \in Threads |-> None] /\ pc = [t \in Threads |-> "idle"]
  /\ hand = [t \in Threads |-> NoConfig]
  /\ left = Budget
  /\ saved = FALSE /\ overlapped = FALSE /\ failed = FALSE

Goto(t, where) == pc' = [pc EXCEPT ![t] = where]
Take(t, c) == hand' = [hand EXCEPT ![t] = c]

\* get_config, set_config_value, reload, save_config and reset_to_defaults.
Call(t) ==
  /\ pc[t] = "idle" /\ left > 0
  /\ left' = left - 1
  /\ \E o \in {"get", "set", "reload", "save", "reset"} :
       /\ op' = [op EXCEPT ![t] = o]
       /\ Goto(t, CASE o = "get" -> "check" [] o = "set" -> "repair" [] o = "reload" -> "clear"
                    [] o = "save" -> "check" [] o = "reset" -> "truncate")
       /\ Take(t, IF o = "reset" THEN Default ELSE NoConfig)
  /\ overlapped' = (overlapped \/ \E u \in Threads \ {t} : pc[u] # "idle")
  /\ UNCHANGED <<file, env, cached, saved, failed>>

\* An error is returned.
Refused(t) == Goto(t, "idle") /\ Take(t, NoConfig)

\* get_config returned c: save_config then calls save_config_to_file, which asks
\* again and writes.
Got(t, c) ==
  /\ Goto(t, CASE op[t] = "save" -> "check" [] op[t] = "saveTo" -> "truncate" [] OTHER -> "idle")
  /\ op' = [op EXCEPT ![t] = IF @ = "save" THEN "saveTo" ELSE @]
  /\ Take(t, c)

\* The cache is read under its lock.
Check(t) ==
  /\ pc[t] = "check"
  /\ \/ cached # NoConfig /\ Got(t, cached)
     \/ cached = NoConfig /\ Goto(t, "load") /\ UNCHANGED <<op, hand>>
  /\ UNCHANGED <<file, env, cached, left, saved, overlapped, failed>>

\* The sources are read and validated without a lock.
Load(t) ==
  /\ pc[t] = "load"
  /\ \/ Loaded = NoConfig /\ Refused(t)
     \/ Loaded # NoConfig /\ Goto(t, "store") /\ Take(t, Loaded)
  /\ UNCHANGED <<file, env, cached, op, left, saved, overlapped, failed>>

\* What was loaded becomes the cache, whatever happened in between.
Store(t) ==
  /\ pc[t] = "store"
  /\ cached' = hand[t]
  /\ Got(t, hand[t])
  /\ UNCHANGED <<file, env, left, saved, overlapped, failed>>

\* Mutant: the cache survives.
ClearNothing(t) ==
  /\ pc[t] = "clear"
  /\ Goto(t, "check")
  /\ UNCHANGED <<file, env, cached, op, hand, left, saved, overlapped, failed>>

\* reload: the cache is emptied and get_config called.
Clear(t) ==
  /\ pc[t] = "clear"
  /\ cached' = NoConfig
  /\ Goto(t, "check")
  /\ UNCHANGED <<file, env, op, hand, left, saved, overlapped, failed>>

\* set_config_value up to the write: tolerant load, edit, validation.
Repair(t) ==
  /\ pc[t] = "repair"
  /\ \E e \in Edits :
       LET new == IF Repairable = NoConfig THEN NoConfig ELSE Edited(Repairable, e)
       IN  \/ new = NoConfig /\ Refused(t)
           \/ new # NoConfig /\ Goto(t, "truncate") /\ Take(t, new)
  /\ UNCHANGED <<file, env, cached, op, left, saved, overlapped, failed>>

\* secure_write_config_file opens the file, which empties it, or cannot.
Truncate(t) ==
  /\ pc[t] = "truncate"
  /\ \/ file' = Prefix(hand[t], 0) /\ Goto(t, "write") /\ UNCHANGED <<hand, failed>>
     \/ Refused(t) /\ failed' = TRUE /\ UNCHANGED file
  /\ UNCHANGED <<env, cached, op, left, saved, overlapped>>

\* What a write over the present contents can leave: if another handle wrote
\* since this one emptied the file, the longer of the two shows behind.
Written(c) == {Full(c)} \cup (IF file.upto # 0 THEN {Broken} ELSE {})
Torn(c) == {Broken} \cup {Prefix(c, k) : k \in 0..4}

AfterWrite(t) ==
  Goto(t, CASE op[t] = "set" -> "remember" [] op[t] = "reset" -> "clear" [] OTHER -> "idle")

\* It writes; or writes in part, or fails to set the permissions.
Write(t) ==
  /\ pc[t] = "write"
  /\ \/ file' \in Written(hand[t]) /\ AfterWrite(t) /\ UNCHANGED <<hand, failed>>
     \/ file' \in Written(hand[t]) \cup Torn(hand[t]) /\ Refused(t) /\ failed' = TRUE
  /\ saved' = (saved \/ op[t] = "saveTo")
  /\ UNCHANGED <<env, cached, op, left, overlapped>>

\* set_config_value: "only strict-valid configurations are allowed to enter".
Remember(t) ==
  /\ pc[t] = "remember"
  /\ cached' = hand[t]
  /\ Goto(t, "idle")
  /\ UNCHANGED <<file, env, op, hand, left, saved, overlapped, failed>>

\* The process dies, perhaps in a write, and starts again.
Crash ==
  /\ \E t \in Threads : pc[t] # "idle"
  /\ cached' = NoConfig
  /\ pc' = [t \in Threads |-> "idle"] /\ hand' = [t \in Threads |-> NoConfig]
  /\ op' = [t \in Threads |-> None]
  /\ file' \in {file} \cup UNION {Torn(hand[t]) : t \in {u \in Threads : pc[u] = "write"}}
  /\ saved' = (saved \/ \E t \in Threads : pc[t] = "write" /\ op[t] = "saveTo")
  /\ failed' = TRUE
  /\ UNCHANGED <<env, left, overlapped>>

Step(t) ==
  \/ Check(t) \/ Load(t) \/ Store(t) \/ Clear(t) \/ Repair(t)
  \/ Truncate(t) \/ Write(t) \/ Remember(t)

Quiet == left = 0 /\ (\A t \in Threads : pc[t] = "idle") /\ UNCHANGED vars

Next == (\E t \in Threads : Call(t) \/ Step(t)) \/ Crash \/ Quiet

Spec == Init /\ [][Next]_vars

-----------------------------------------------------------------------------
(* Properties *)

\* What reset_to_defaults writes is validated by nobody before it is in the file.
Resets(t) == op[t] = "reset" /\ hand[t] = Default

\* "only configurations that have passed cross-section validation may enter the
\* cache", and but for the defaults of a reset none else is written to the file:
\* in every interleaving of loads, edits and failures.
OnlyValidIsKept ==
  /\ cached # NoConfig => Strict(cached)
  /\ \A t \in Threads :
       /\ pc[t] \in {"truncate", "write"} => Strict(hand[t]) \/ Resets(t)
       /\ pc[t] = "remember" => Strict(hand[t])

\* "must not bake env-only secrets into the persisted file": set_config_value
\* and reset_to_defaults never write what only the environment says.
EnvNotPersisted == Clean(file.cfg)

Private(c) == c.provider = "local" => Exposed(c) \cap Hosted = {}

\* "hosted-provider env vars MUST NOT populate any ai.* field" once the provider,
\* from whatever source and under whatever name, is local.
LocalIsPrivate == Private(cached)

\* The environment stays out of the file, and the hosted providers' variables
\* out of a local configuration, until save_config merges them on request.
EnvironmentContained == ~saved => EnvNotPersisted /\ LocalIsPrivate

Agrees(c, d) == \A key \in Gettable : GetValue(c, key) = GetValue(d, key)

\* If operations do not overlap and no write fails, get_config_value says of
\* every key what the file says, with or without the environment over it.
CacheFollowsFile ==
  (\A t \in Threads : pc[t] = "idle") /\ ~overlapped /\ ~failed /\ cached # NoConfig =>
    Agrees(cached, file.cfg) \/ Agrees(cached, Overlay(Base(file)))
=============================================================================
