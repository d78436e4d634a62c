------------------------------ MODULE AIClient ------------------------------
(* One chat_completion call of an AI provider (src/services/ai): a request is *)
(* sent, and sent again after a pause while the provider's own retry rule     *)
(* says so; it ends with the text of an answer or with an error.  A caller    *)
(* conjoins Issue or Hangup with its own step on the reply.                   *)
EXTENDS Naturals

CONSTANTS
  Providers,        \* the providers considered
  RetryAttempts     \* ai.retry_attempts

ASSUME ClientAssumption ==
  /\ Providers \subseteq {"openai", "openrouter", "azure", "local"}
  /\ RetryAttempts \in 1..10

VARIABLES
  provider,         \* the provider the engine was built with
  call,             \* the call: "idle", "sending" or "sleeping"
  attempts          \* failed attempts of the call

clientVars == <<provider, call, attempts>>

\* What becomes of one HTTP request, apart from an answer: no response at all, a
\* response with a 4xx or a 5xx status, or a 2xx whose body is too large, is not
\* JSON or has no message content.
Failures == {"transport", "clientError", "serverError", "badBody"}

ClientInit == provider \in Providers /\ call = "idle" /\ attempts = 0

\* Mutant: the limit counts down twice.
RetriesHalf(failure) ==
  CASE provider = "azure" -> failure = "transport" /\ attempts + 2 < RetryAttempts
    [] OTHER -> failure # "badBody" /\ attempts + 2 < RetryAttempts

\* openai uses the shared trait, whose limit counts requests and which turns
\* every error status into an error; the others have loops of their own, whose
\* limit counts retries: openrouter and local repeat on 5xx, azure on no status.
Retries(failure) ==
  CASE provider = "openai" -> failure # "badBody" /\ attempts + 1 < RetryAttempts
    [] provider = "azure"  -> failure = "transport" /\ attempts < RetryAttempts
    [] OTHER -> failure \in {"transport", "serverError"} /\ attempts < RetryAttempts

\* The classes of the error a failed request ends in.  An error that quotes the
\* response's body may contain the marker by which is_unknown_cue_id_error
\* recognises its own errors.
ErrorClasses(failure) ==
  {failure} \cup (IF provider # "openai" /\ failure \in {"clientError", "serverError"}
                  THEN {"unknown"} ELSE {})

Issue  == call' = "sending" /\ attempts' = 0 /\ UNCHANGED provider
Hangup == call' = "idle" /\ UNCHANGED <<provider, attempts>>

\* Mutant: the attempt is not counted.
BackoffUncounted ==
  /\ call = "sending"
  /\ \E failure \in Failures : Retries(failure)
  /\ call' = "sleeping"
  /\ UNCHANGED <<provider, attempts>>

Backoff ==
  /\ call = "sending"
  /\ \E failure \in Failures : Retries(failure)
  /\ call' = "sleeping"
  /\ attempts' = attempts + 1
  /\ UNCHANGED provider

Resend == call = "sleeping" /\ call' = "sending" /\ UNCHANGED <<provider, attempts>>

\* The current request is answered; the current request fails for good.
Answered == call = "sending"
FailsWith(class) ==
  /\ call = "sending"
  /\ \E failure \in Failures : ~Retries(failure) /\ class \in ErrorClasses(failure)
=============================================================================
