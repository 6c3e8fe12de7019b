------------------------------ MODULE LLMRetry ------------------------------
(***************************************************************************)
(* One completion, as the clients ask for it.  OpenRouterClient.call and   *)
(* GroqClient.call ask again after rate limits, server errors and broken   *)
(* connections; OllamaClient.call asks once, and so do the clients that    *)
(* leave retries to the SDK of their provider, of which only the last      *)
(* response is seen here.  A call ends with an answer, with a tool call    *)
(* recovered from a rejected generation (Groq), or with an exception,      *)
(* which ends the task (LLMError of AgentLoop).  Time is counted in units  *)
(* of the first backoff.                                                   *)
(***************************************************************************)
EXTENDS Naturals

CONSTANTS
    OpenRouterRetries,  \* max_retries of OpenRouterClient
    GroqRetries,        \* max_retries of GroqClient
    Cap,                \* the longest wait of GroqClient
    RetryAfters         \* values of a Retry-After header that is a number

ASSUME LLMRetryAssumption ==
    /\ OpenRouterRetries \in Nat
    /\ GroqRetries \in Nat
    /\ Cap \in Nat \ {0}
    /\ RetryAfters \subseteq Nat \ {0}

VARIABLES
    provider,  \* the client
    phase,     \* asking, answered, recovered, raised or cancelled
    attempt,   \* the variable of the for loop
    backoff,   \* the next wait without a Retry-After header
    slept,     \* the waits so far
    response   \* the last response

vars == <<provider, phase, attempt, backoff, slept, response>>

\* Responses by status code, a body that is not JSON, and an httpx error.
Responses == {"none", "ok", "not json", "redirect", "tool_use_failed", "4xx", "429", "5xx", "network"}
Errors    == {"tool_use_failed", "4xx", "429", "5xx", "network"}
NoHeader  == 0
\* The clients, and how often each of them asks again.
MaxRetries == [openrouter |-> OpenRouterRetries, groq |-> GroqRetries,
               ollama |-> 0, openai |-> 0, gemini |-> 0, anthropic |-> 0]
Lesser(a, b) == IF a < b THEN a ELSE b

Init ==
    /\ provider \in DOMAIN MaxRetries
    /\ phase = "asking"
    /\ attempt = 0 /\ backoff = 1 /\ slept = 0
    /\ response = "none"

\* OpenRouter: every httpx.HTTPError, which raise_for_status raises for any other
\* status than 2xx.  Groq: no 4xx but 429, and a redirect is read as an answer.
Retried(r) ==
    IF provider = "groq" THEN r \in {"429", "5xx", "network"} ELSE r \in Errors \cup {"redirect"}

\* The wait before the next attempt.
Wait(r, header) ==
    LET asked == IF r = "429" /\ header # NoHeader THEN header ELSE backoff
    IN IF provider = "groq" THEN Lesser(asked, Cap) ELSE asked

LastAttempt == attempt = MaxRetries[provider]

\* The loop runs out with data = {}, from which an empty answer is made.
FallThrough == "answered"
\* raise_for_status, or raise: on the last attempt every path raises.
OutOfAttempts == "raised"

\* A failure that is tried again, unless this was the last attempt.
Fails(r, header) ==
    /\ phase = "asking"
    /\ Retried(r)
    /\ response' = r
    /\ IF LastAttempt
       THEN phase' = OutOfAttempts /\ UNCHANGED <<attempt, backoff, slept>>
       ELSE /\ slept' = slept + Wait(r, header)
            /\ backoff' = IF provider = "groq" THEN Lesser(2 * backoff, Cap) ELSE 2 * backoff
            /\ attempt' = attempt + 1
            /\ UNCHANGED phase
    /\ UNCHANGED provider

\* resp.json() raises an error that is no HTTPError.
NotJson(r) ==
    /\ phase = "asking"
    /\ r = "not json" \/ (r = "redirect" /\ provider = "groq")
    /\ phase' = "raised"
    /\ response' = r
    /\ UNCHANGED <<provider, attempt, backoff, slept>>

Answers(r) ==
    /\ phase = "asking"
    /\ r = "ok" \/ (r = "redirect" /\ provider = "groq")
    /\ phase' = "answered"
    /\ response' = r
    /\ UNCHANGED <<provider, attempt, backoff, slept>>

\* Groq rejects the generation of the model; a tool call is parsed out of it
\* (_parse_groq_failed_generation).
Recovers(r) ==
    /\ phase = "asking"
    /\ provider = "groq" /\ r = "tool_use_failed"
    /\ phase' = "recovered"
    /\ response' = r
    /\ UNCHANGED <<provider, attempt, backoff, slept>>

\* A client error, or a generation that cannot be parsed.
Refused(r) ==
    /\ phase = "asking"
    /\ provider = "groq" /\ r \in {"tool_use_failed", "4xx"}
    /\ phase' = "raised"
    /\ response' = r
    /\ UNCHANGED <<provider, attempt, backoff, slept>>

\* The deadline of the task or the user cancels the call.
Cancel ==
    /\ phase = "asking"
    /\ phase' = "cancelled"
    /\ UNCHANGED <<provider, attempt, backoff, slept, response>>

Next ==
    \/ \E r \in Responses :
         \/ \E header \in RetryAfters \cup {NoHeader} : Fails(r, header)
         \/ NotJson(r) \/ Answers(r) \/ Recovers(r) \/ Refused(r)
    \/ Cancel

Spec == Init /\ [][Next]_vars

-----------------------------------------------------------------------------
\* The locals of call().
TypeOK ==
    /\ provider \in DOMAIN MaxRetries
    /\ phase \in {"asking", "answered", "recovered", "raised", "cancelled"}
    /\ attempt \in 0..MaxRetries[provider]
    /\ backoff \in Nat \ {0}
    /\ slept \in Nat
    /\ response \in Responses

\* The loop never runs out of attempts without an exception, which would make an
\* empty answer of a failure: an answer comes from a response without an error.
AnswersAreAnswers ==
    /\ phase = "answered" => response \notin Errors
    /\ phase = "recovered" => response = "tool_use_failed"

\* A call gives up on a passing failure only after all attempts; Groq is not
\* asked again after a client error, however few attempts were made.
GivesUpRightly ==
    /\ phase = "raised" /\ response \in {"429", "5xx", "network"} => attempt = MaxRetries[provider]
    /\ provider = "groq" /\ response \in {"tool_use_failed", "4xx"} => phase # "asking"

\* "Cap wait time to 30 seconds": Groq can make a call wait no longer than that
\* per attempt, and the waits without a header are the powers of two below it.
WaitsAreCapped ==
    provider = "groq" => backoff <= Cap /\ slept <= attempt * Cap
=============================================================================
