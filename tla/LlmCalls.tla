-------------------------------- MODULE LlmCalls -------------------------------
(***************************************************************************)
(* A call to a language model: the tag is resolved to a client, the client *)
(* translates the tag's parameters into the provider's fields, and posts   *)
(* the body until an answer or a failure that is not worth retrying.  Three *)
(* callers share it: chat, the embedder and the reranker, which turns      *)
(* every failure into scores that keep the order.  Token counts are        *)
(* numbers, texts and the remaining parameters are left out.               *)
(***************************************************************************)
EXTENDS Integers, Sequences

CONSTANTS
    Tokens,      \* token counts a user may configure
    Retries,     \* values of max_retries
    RetryOn      \* params.retry_on_status

VARIABLES
    tag,         \* what config.yaml holds for the tag
    cached,      \* the factory has a client for it
    request,     \* the call: who asks, where it is, the failures so far
    wire         \* the body being posted

llmVars == <<tag, cached, request, wire>>

Unset == -1
Max2(a, b) == IF a > b THEN a ELSE b
Min2(a, b) == IF a < b THEN a ELSE b

Failure == {"429", "503", "400", "timeout", "network"}
Outcome == {"none", "answer", "kept order", "no client"} \cup Failure
NoBody == [max |-> Unset, budget |-> Unset, effort |-> FALSE,
           temperature |-> FALSE, extra |-> FALSE]
Asked(who) == [who |-> who, at |-> "resolve", failures |-> <<>>, result |-> "none"]

LlmTypeOK ==
    /\ cached \in BOOLEAN
    /\ request.who \in {"chat", "embed", "rerank"}
    /\ request.at \in {"resolve", "build", "post", "backoff", "done"}
    /\ request.result \in Outcome
    /\ wire.max \in Tokens \cup {Unset, 4096}

LlmInit ==
    /\ tag \in [defined : BOOLEAN, provider : {"anthropic", "openai_compatible"},
                maxOutput : Tokens \cup {Unset}, mode : {"off", "low", "medium", "high"},
                budget : Tokens \cup {Unset}, retries : Retries, extraBody : BOOLEAN]
    /\ cached = FALSE /\ wire = NoBody
    /\ \E who \in {"chat", "embed", "rerank"} : request = Asked(who)

\* Every failure of a rerank ends in scores that keep the order.
Ended(result) ==
    [request EXCEPT !.at = "done",
        !.result = IF request.who = "rerank" /\ result # "answer" THEN "kept order" ELSE result]

\* No tag, an undefined tag or an unknown provider: the caller gets no client.
ResolveTag ==
    /\ request.at = "resolve"
    /\ cached' = (cached \/ tag.defined)
    /\ request' = IF cached' THEN [request EXCEPT !.at = "build"] ELSE Ended("no client")
    /\ UNCHANGED <<tag, wire>>

Reasoning == tag.mode # "off"
MaxTokens == IF tag.maxOutput = Unset THEN 4096 ELSE tag.maxOutput

\* int(max_output * scale), or what the user set; then the two bounds.
Quarters == [low |-> 1, medium |-> 2, high |-> 3]
ThinkingBudget ==
    LET wanted == IF tag.budget # Unset THEN tag.budget
                  ELSE (MaxTokens * Quarters[tag.mode]) \div 4
    IN Max2(1024, Min2(wanted, MaxTokens - 1))

AnthropicBody ==
    [NoBody EXCEPT !.max = MaxTokens,
        !.budget = IF Reasoning THEN ThinkingBudget ELSE Unset,
        !.temperature = ~Reasoning]

OpenAiBody ==
    [NoBody EXCEPT !.max = tag.maxOutput, !.effort = Reasoning,
        !.temperature = ~Reasoning, !.extra = tag.extraBody]

\* Only chat translates the parameters; embed and rerank send model and text.
BuildBody ==
    /\ request.at = "build"
    /\ wire' = IF request.who # "chat" THEN NoBody
               ELSE IF tag.provider = "anthropic" THEN AnthropicBody ELSE OpenAiBody
    /\ request' = [request EXCEPT !.at = "post"]
    /\ UNCHANGED <<tag, cached>>

Attempts == Max2(1, tag.retries + 1)
Transient(f) == f = "network" \/ f \in RetryOn

Answered ==
    /\ request.at = "post"
    /\ request' = Ended("answer")
    /\ UNCHANGED <<tag, cached, wire>>

\* rerank's answer of the wrong length counts as none.
AnsweredShort ==
    /\ request.at = "post" /\ request.who = "rerank"
    /\ request' = Ended("short")
    /\ UNCHANGED <<tag, cached, wire>>

MutantRetried(f) == Len(request.failures) + 1 < Attempts /\ f # "400"

\* A timeout fails at once, whatever attempts are left.
Retried(f) == Len(request.failures) + 1 < Attempts /\ f # "timeout" /\ Transient(f)

PostFails(f) ==
    LET failures == Append(request.failures, f) IN
    /\ request.at = "post"
    /\ request' = IF Retried(f)
                  THEN [request EXCEPT !.at = "backoff", !.failures = failures]
                  ELSE [Ended(f) EXCEPT !.failures = failures]
    /\ UNCHANGED <<tag, cached, wire>>

Backoff ==
    /\ request.at = "backoff"
    /\ request' = [request EXCEPT !.at = "post"]
    /\ UNCHANGED <<tag, cached, wire>>

\* The next call of the same caller, or of another one.
CallAgain(who) ==
    /\ request.at = "done"
    /\ request' = Asked(who) /\ wire' = NoBody
    /\ UNCHANGED <<tag, cached>>

LlmNext ==
    \/ ResolveTag \/ BuildBody \/ Answered \/ AnsweredShort \/ Backoff
    \/ \E f \in Failure : PostFails(f)
    \/ \E who \in {"chat", "embed", "rerank"} : CallAgain(who)

LlmSpec == LlmInit /\ [][LlmNext]_llmVars

(* What a beat waits for: a call is repeated only after failures that are  *)
(* transient, never after a timeout (each would cost its whole length      *)
(* again), not beyond the configured retries, and a reranker ends in       *)
(* scores whatever becomes of its client.                                  *)
RepeatsOnlyTransient ==
    LET fs == request.failures IN
    /\ Len(fs) <= Max2(1, tag.retries + 1)
    /\ \A i \in 1..Len(fs) :
         (i < Len(fs) \/ request.at # "done" \/ request.result = "answer")
             => fs[i] \in RetryOn \cup {"network"}
    /\ request.at = "done" /\ request.who = "rerank"
         => request.result \in {"answer", "kept order"}

(* _client.py's comment on the thinking budget: "Must be >= 1024 and       *)
(* strictly less than max_output_tokens (Anthropic constraint)".           *)
ThinkingFitsOutput ==
    wire.budget # Unset => wire.budget >= 1024 /\ wire.budget < wire.max
================================================================================
