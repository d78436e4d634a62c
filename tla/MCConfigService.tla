--------------------------- MODULE MCConfigService ---------------------------
(* Files a user may have written, environments of each kind, and edits that   *)
(* each validator accepts or refuses.                                         *)
EXTENDS ConfigService

ThreadSymmetry == Permutations(Threads)

Settings(p, k, u, r) == [provider |-> p, key |-> k, url |-> u, rest |-> r]

MCFiles ==
  {Absent, Broken, Prefix(Settings("local", "plain", "http", "ai.model" :> "llama"), 4)}
    \cup {Full(Settings("ollama", None, "http", "general.max_concurrent_jobs" :> 64)),
          Full(Settings("openai", "", "http", "sync.vad.min_speech_duration_ms" :> 6000)),
          Full(Settings("openrouter", "plain", "https", "parallel.overflow_strategy" :> "Reject"))}

Variables == {"SUBX_AI_PROVIDER", "SUBX_AI_APIKEY", "SUBX_AI_BASE_URL",
              "LOCAL_LLM_BASE_URL", "LOCAL_LLM_API_KEY", "OPENROUTER_API_KEY",
              "OPENAI_API_KEY", "OPENAI_BASE_URL", "AZURE_OPENAI_API_KEY",
              "AZURE_OPENAI_ENDPOINT", "AZURE_OPENAI_API_VERSION",
              "AZURE_OPENAI_DEPLOYMENT_ID", "SUBX_AI_MODEL"}
Empty == [v \in Variables |-> Unset]

MCEnvironments ==
  {Empty,
   [Empty EXCEPT !["OPENAI_API_KEY"] = "hostedKey", !["OPENAI_BASE_URL"] = "hostedUrl"],
   [Empty EXCEPT !["SUBX_AI_PROVIDER"] = "ollama", !["SUBX_AI_BASE_URL"] = "subxUrl",
                 !["LOCAL_LLM_BASE_URL"] = "localUrl", !["LOCAL_LLM_API_KEY"] = "localKey",
                 !["OPENROUTER_API_KEY"] = "hostedKey", !["SUBX_AI_MODEL"] = "subxModel",
                 !["AZURE_OPENAI_DEPLOYMENT_ID"] = "hostedModel"],
   [Empty EXCEPT !["SUBX_AI_APIKEY"] = "subxKey", !["AZURE_OPENAI_API_KEY"] = "hostedKey",
                 !["AZURE_OPENAI_ENDPOINT"] = "hostedUrl", !["OPENROUTER_API_KEY"] = "hostedKey",
                 !["AZURE_OPENAI_API_VERSION"] = "hostedVersion",
                 !["AZURE_OPENAI_DEPLOYMENT_ID"] = "hostedModel"]}

Edit(k, v) == [key |-> k, value |-> v]
MCEdits ==
  {Edit("ai.provider", "ollama"), Edit("ai.provider", "bogus"), Edit("ai.api_key", "sk"),
   Edit("ai.api_key", "short"), Edit("ai.model", ""), Edit("ai.base_url", "http"),
   Edit("sync.vad.min_speech_duration_ms", 6000), Edit("general.max_concurrent_jobs", 65),
   Edit("translation.batch_size", Unparsable)}
=============================================================================
