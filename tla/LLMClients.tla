----------------------------- MODULE LLMClients -----------------------------
(***************************************************************************)
(* A conversation and the clients of enclave/agent/llm_client.py that      *)
(* carry it to a model.  Every step of a turn converts the whole message   *)
(* list to the format of one of the providers and reads the answer back    *)
(* into blocks; the provider may change between turns, so that each one is *)
(* told what another one said.  The requests themselves, with their        *)
(* retries, are those of LLMRetry.                                         *)
(*                                                                         *)
(* A text is a sequence of words, a message of the history has the words   *)
(* of a string or a list of blocks, and the arguments of a call are known  *)
(* by what json.loads makes of them.                                       *)
(***************************************************************************)
EXTENDS LLMRetry, SequencesExt

CONSTANTS
    Raws,       \* what models may say: thinking, a text, and calls
    Word,       \* a word of the user
    Summary,    \* a word of the summary that a compaction writes
    Null,       \* tool_calls: null
    MinRecent,  \* MIN_RECENT_MESSAGES
    MaxSteps,   \* max_steps of a turn
    MaxTurns    \* bound: turns

\* How a model writes the arguments of a call: as an object, as a string with the
\* JSON of an object or of something else, as a broken string, or not at all.
Forms == {"object", "json", "other", "broken", "absent"}
\* The id of a call may be missing, or null; a name that is missing is read as "".
RawCall == [id : {"given", "missing", "null"}, name : STRING, args : Forms]

ASSUME LLMClientsAssumption ==
    /\ \A raw \in Raws :
         /\ raw.thinking \in Seq(STRING) /\ raw.text \in Seq(STRING)
         /\ raw.calls = Null \/ raw.calls \in Seq(RawCall)
    /\ Word \in STRING /\ Summary \in STRING
    /\ Word # Summary
    /\ MinRecent \in Nat \ {0}
    /\ MaxSteps \in Nat \ {0}
    /\ MaxTurns \in Nat

VARIABLES
    history,  \* conversation_history
    payload,  \* the last request, in the format of its provider
    turn,     \* prompt, call (a request is under way) or tools
    step,     \* step_num of the turn
    ids,      \* calls so far: a new id is the next number
    turns     \* turns so far

conversation == <<history, payload, turn, step, ids, turns>>
clientVars   == <<conversation, vars>>

ClientInit ==
    /\ Init
    /\ history = <<>> /\ payload = <<>>
    /\ turn = "prompt"
    /\ step = 0 /\ ids = 0 /\ turns = 0

-----------------------------------------------------------------------------
(***************************************************************************)
(* Messages                                                                *)
(***************************************************************************)

Plain(role, words)   == [role |-> role, plain |-> TRUE, content |-> words]
Blocks(role, blocks) == [role |-> role, plain |-> FALSE, content |-> blocks]

Text(words)        == [type |-> "text", text |-> words]
Thinking(words)    == [type |-> "thinking", text |-> words]
Use(i, name, args) == [type |-> "tool_use", id |-> i, name |-> name, input |-> args]
\* The content is the place of the call in its response.
Result(i, k)       == [type |-> "tool_result", id |-> i, content |-> k]

Of(types, blocks) ==
    FlattenSeq([k \in DOMAIN blocks |-> IF blocks[k].type \in types THEN <<blocks[k]>> ELSE <<>>])
Calls(m)   == IF m.plain THEN <<>> ELSE Of({"tool_use"}, m.content)
Results(m) == IF m.plain THEN <<>> ELSE Of({"tool_result"}, m.content)
\* What a provider is told of: all but the thinking.
Spoken(m)  == Of({"text", "tool_use", "tool_result"}, m.content)

\* The words of all text blocks of a message.
Words(m) ==
    IF m.plain THEN m.content
    ELSE FlattenSeq([k \in DOMAIN m.content |->
                       IF m.content[k].type = "text" THEN m.content[k].text ELSE <<>>])

-----------------------------------------------------------------------------
(***************************************************************************)
(* Requests                                                                *)
(***************************************************************************)

\* AnthropicClient.call: blocks as they are, without thinking.
ToAnthropic(h) ==
    [i \in DOMAIN h |->
        IF h[i].plain THEN h[i] ELSE Blocks(h[i].role, Spoken(h[i]))]

OpenAIMessage(role, words, calls, id, content) ==
    [role |-> role, text |-> words, calls |-> calls, id |-> id, content |-> content]
NoId == 0

\* A message with results and text keeps only the results' first.
OnlyFirstResult(m) ==
    IF Results(m) = <<>> THEN <<OpenAIMessage("user", Words(m), <<>>, NoId, NoId)>>
    ELSE <<OpenAIMessage("tool", <<>>, <<>>, Results(m)[1].id, Results(m)[1].content)>>
\* The user's side of _convert_messages_to_openai: a message per result and per text.
OpenAIUser(m) ==
    IF Results(m) = <<>> THEN <<OpenAIMessage("user", Words(m), <<>>, NoId, NoId)>>
    ELSE LET kept == Of({"tool_result", "text"}, m.content)
         IN [k \in DOMAIN kept |->
                IF kept[k].type = "text"
                THEN OpenAIMessage("user", kept[k].text, <<>>, NoId, NoId)
                ELSE OpenAIMessage("tool", <<>>, <<>>, kept[k].id, kept[k].content)]

\* _convert_messages_to_openai, for OpenAI, OpenRouter, Groq and Ollama.
ToOpenAI(h) ==
    FlattenSeq([i \in DOMAIN h |->
        IF h[i].role = "assistant"
        THEN <<OpenAIMessage("assistant", Words(h[i]), Calls(h[i]), NoId, NoId)>>
        ELSE OpenAIUser(h[i])])

\* The calls of a message with an id, and the name of the first.
WithId(m, id) == {k \in DOMAIN Calls(m) : Calls(m)[k].id = id}
NameIn(m, id) == Calls(m)[Min(WithId(m, id))].name

\* The tool that was called last.
LastName(h, id) ==
    LET calling == {i \in DOMAIN h : Calls(h[i]) # <<>>}
    IN IF calling = {} THEN "unknown_tool" ELSE Last(Calls(h[Max(calling)])).name
\* From the start of the history, the first of these names that is one.
NameOf(h, id) ==
    LET named == {i \in DOMAIN h : WithId(h[i], id) # {} /\ NameIn(h[i], id) # ""}
    IN IF named = {} THEN "unknown_tool" ELSE NameIn(h[Min(named)], id)

\* GeminiClient.call: calls without ids, results with the name of their tool.
GeminiPart(h, b) ==
    CASE b.type = "text" -> [type |-> "text", text |-> b.text]
      [] b.type = "tool_use" -> [type |-> "function_call", name |-> b.name, args |-> b.input]
      [] b.type = "tool_result" ->
           [type |-> "function_response", name |-> NameOf(h, b.id), response |-> b.content]

ToGemini(h) ==
    [i \in DOMAIN h |->
        [role |-> IF h[i].role = "assistant" THEN "model" ELSE "user",
         parts |-> IF h[i].plain THEN <<Text(h[i].content)>>
                   ELSE [k \in DOMAIN Spoken(h[i]) |-> GeminiPart(h, Spoken(h[i])[k])]]]

Converted(p, h) ==
    CASE p = "anthropic" -> ToAnthropic(h)
      [] p = "gemini" -> ToGemini(h)
      [] OTHER -> ToOpenAI(h)

-----------------------------------------------------------------------------
(***************************************************************************)
(* Answers                                                                 *)
(***************************************************************************)

Compatible == {"openrouter", "groq", "ollama"}

\* What the API of a provider can say: only those that speak the OpenAI format by
\* hand (data.get) meet every form.
CanSay(p, raw) ==
    /\ p # "anthropic" => raw.thinking = <<>>
    /\ raw.calls = Null => p \in Compatible
    /\ raw.calls # Null =>
         \A k \in DOMAIN raw.calls :
           LET c == raw.calls[k]
           IN /\ p \notin Compatible => (c.id = "missing" <=> p = "gemini") /\ c.id # "null"
              /\ p = "anthropic" => c.args = "object"
              /\ p = "gemini" => c.args \in {"object", "other"}
              /\ p = "openai" => c.args \in {"json", "other", "broken"}

\* json.loads where it is a string; {} where there is none or it does not parse.
Input(form) ==
    IF form \in {"object", "json"} THEN "own"
    ELSE IF form = "other" THEN "not an object"
    ELSE "empty"

\* The blocks of an answer: an empty text makes none.
BlocksOf(thinking, words, uses) ==
    (IF thinking = <<>> THEN <<>> ELSE <<Thinking(thinking)>>)
    \o (IF words = <<>> THEN <<>> ELSE <<Text(words)>>)
    \o uses

\* The SDK has parsed the inputs.  The blocks come in whatever order the model gave
\* them; here thinking, words and calls come in this order.
AnthropicBlocks(raw, n) ==
    BlocksOf(raw.thinking, raw.text,
             [k \in DOMAIN raw.calls |-> Use(n + k, raw.calls[k].name, "own")])

\* The arguments are a string.
OpenAIBlocks(raw, n) ==
    BlocksOf(<<>>, raw.text,
             [k \in DOMAIN raw.calls |-> Use(n + k, raw.calls[k].name, Input(raw.calls[k].args))])

\* tc.get("id", ...): an id that is missing is drawn, null stays null.
OpenRouterBlocks(raw, n) ==
    BlocksOf(<<>>, raw.text,
             [k \in DOMAIN raw.calls |->
                Use(IF raw.calls[k].id = "null" THEN NoId ELSE n + k,
                    raw.calls[k].name, Input(raw.calls[k].args))])

\* The same again in the other two clients that read the JSON by hand.
GroqBlocks(raw, n)   == OpenRouterBlocks(raw, n)
OllamaBlocks(raw, n) == OpenRouterBlocks(raw, n)

\* Ids are always drawn; the arguments of a function call may be None.
GeminiBlocks(raw, n) ==
    BlocksOf(<<>>, raw.text,
             [k \in DOMAIN raw.calls |-> Use(n + k, raw.calls[k].name, Input(raw.calls[k].args))])

Parsed(p, raw, n) ==
    CASE p = "anthropic" -> AnthropicBlocks(raw, n)
      [] p = "openai" -> OpenAIBlocks(raw, n)
      [] p = "openrouter" -> OpenRouterBlocks(raw, n)
      [] p = "groq" -> GroqBlocks(raw, n)
      [] p = "ollama" -> OllamaBlocks(raw, n)
      [] p = "gemini" -> GeminiBlocks(raw, n)

-----------------------------------------------------------------------------
(***************************************************************************)
(* A turn                                                                  *)
(***************************************************************************)

\* _compact_history, and its caller, as in Conversation.
Compacted(h) ==
    IF Len(h) <= MinRecent + 1 THEN <<>>
    ELSE <<h[1], Plain("user", <<Summary>>)>> \o SubSeq(h, Len(h) - MinRecent + 1, Len(h))

\* The types of the Gemini SDK may refuse an input that is not an object.
Unfit(p, h) ==
    p = "gemini" /\ \E i \in DOMAIN h : \E k \in DOMAIN Calls(h[i]) : Calls(h[i])[k].input = "not an object"

\* From the top of the loop: the guards, perhaps a compaction, and plan_next_step,
\* which has the client convert the history and ask.
Ask(h, n) ==
    IF n >= MaxSteps
    THEN /\ history' = h /\ turn' = "prompt" /\ step' = 0
         /\ phase' = "none"
         /\ UNCHANGED <<payload, attempt, backoff, slept, response>>
    ELSE /\ \/ history' = h
            \/ Len(h) > MinRecent /\ history' = Compacted(h)
         /\ payload' = Converted(provider', history')
         /\ turn' = "call" /\ step' = n + 1
         /\ \/ phase' = "asking"
            \/ Unfit(provider', history') /\ phase' = "raised"
         /\ attempt' = 0 /\ backoff' = 1 /\ slept' = 0
         /\ response' = "none"

\* The user's words open a turn; /model may have exchanged the client before.
BeginTurn(p) ==
    /\ turn = "prompt" /\ turns < MaxTurns
    /\ turns' = turns + 1
    /\ provider' = p
    /\ Ask(Append(history, Plain("user", <<Word>>)), 0)
    /\ UNCHANGED ids

\* The attempts of the client.
Attempt ==
    /\ turn = "call"
    /\ Next
    /\ UNCHANGED conversation

EndTurn ==
    /\ turn' = "prompt" /\ step' = 0
    /\ phase' = "none"

\* The blocks join the history.  Without calls the turn has ended; a call whose
\* input has no keys raises behind the append.
Join(blocks) ==
    /\ history' = Append(history, Blocks("assistant", blocks))
    /\ ids' = ids + Len(Of({"tool_use"}, blocks))
    /\ IF \/ Of({"tool_use"}, blocks) = <<>>
          \/ \E k \in DOMAIN blocks : blocks[k].type = "tool_use" /\ blocks[k].input = "not an object"
       THEN EndTurn
       ELSE /\ turn' = "tools" /\ phase' = "none"
            /\ UNCHANGED step
    /\ UNCHANGED <<payload, turns, provider, attempt, backoff, slept, response>>

Answer(raw) ==
    /\ turn = "call" /\ phase = "answered"
    /\ CanSay(provider, raw)
    /\ raw.calls # Null
    /\ Join(Parsed(provider, raw, ids))

\* "for tc in None" raises.
AnswerRaises(raw) ==
    /\ turn = "call" /\ phase = "answered"
    /\ CanSay(provider, raw)
    /\ raw.calls = Null
    /\ EndTurn
    /\ UNCHANGED <<history, payload, ids, turns, provider, attempt, backoff, slept, response>>

\* The call that Groq rejected and the client recovered, without its text.
AnswerRecovered(name) ==
    /\ turn = "call" /\ phase = "recovered"
    /\ Join(<<Use(ids + 1, name, "own")>>)

\* An exception or the deadline, of the request or of the tools.
Fail ==
    /\ turn = "tools" \/ (turn = "call" /\ phase \in {"raised", "cancelled"})
    /\ EndTurn
    /\ UNCHANGED <<history, payload, ids, turns, provider, attempt, backoff, slept, response>>

\* The results are gathered in the order of the calls.
ResultsOf(m) == [k \in DOMAIN Calls(m) |-> Result(Calls(m)[k].id, k)]

Collect ==
    /\ turn = "tools"
    /\ UNCHANGED <<ids, turns, provider>>
    /\ Ask(Append(history, Blocks("user", ResultsOf(Last(history)))), step)

ClientNext ==
    \/ \E p \in DOMAIN MaxRetries : BeginTurn(p)
    \/ Attempt
    \/ \E raw \in Raws : Answer(raw) \/ AnswerRaises(raw)
    \/ \E raw \in Raws : raw.calls # Null /\ \E k \in DOMAIN raw.calls : AnswerRecovered(raw.calls[k].name)
    \/ Fail
    \/ Collect

ClientSpec == ClientInit /\ [][ClientNext]_clientVars

-----------------------------------------------------------------------------
(***************************************************************************)
(* Properties                                                              *)
(***************************************************************************)

\* What a message tells a model, whatever its format: words, then calls and results
\* with what connects them, which are the ids or, for Gemini, the names of the tools.
Said(role, words)         == IF words = <<>> THEN <<>> ELSE <<[is |-> role, words |-> words]>>
Called(key, name, input)  == [is |-> "call", key |-> key, name |-> name, input |-> input]
Returned(key, content)    == [is |-> "result", key |-> key, content |-> content]

ReadBlocks(s) ==
    FlattenSeq([i \in DOMAIN s |->
        LET calls == Calls(s[i]) results == Results(s[i])
        IN Said(s[i].role, Words(s[i]))
           \o [k \in DOMAIN calls |-> Called(calls[k].id, calls[k].name, calls[k].input)]
           \o [k \in DOMAIN results |-> Returned(results[k].id, results[k].content)]])

ReadOpenAI(s) ==
    FlattenSeq([i \in DOMAIN s |->
        LET calls == s[i].calls
        IN Said(s[i].role, s[i].text)
           \o [k \in DOMAIN calls |-> Called(calls[k].id, calls[k].name, calls[k].input)]
           \o (IF s[i].role = "tool" THEN <<Returned(s[i].id, s[i].content)>> ELSE <<>>)])

ReadParts(role, parts) ==
    FlattenSeq([k \in DOMAIN parts |->
        LET part == parts[k]
        IN CASE part.type = "text" -> Said(role, part.text)
             [] part.type = "function_call" -> <<Called(part.name, part.name, part.args)>>
             [] part.type = "function_response" -> <<Returned(part.name, part.response)>>])
ReadGemini(s) ==
    FlattenSeq([i \in DOMAIN s |->
        ReadParts(IF s[i].role = "model" THEN "assistant" ELSE s[i].role, s[i].parts)])

Read(p, s) ==
    CASE p = "anthropic" -> ReadBlocks(s)
      [] p = "gemini" -> ReadGemini(s)
      [] OTHER -> ReadOpenAI(s)

\* The same without what connects them.
Told(e) == [k \in DOMAIN e |-> IF e[k].is \in {"call", "result"} THEN [e[k] EXCEPT !.key = NoId] ELSE e[k]]

\* Whoever spoke before, every provider is told the whole conversation, each
\* message once and in order, except the thinking (the conversions).
NothingLost == turn = "call" => Told(Read(provider, payload)) = Told(ReadBlocks(history))

\* Every call has a name, and no two of the history one id (a provider may send null
\* for all).
Traceable(h) ==
    \A i, j \in DOMAIN h : \A k \in DOMAIN Calls(h[i]), l \in DOMAIN Calls(h[j]) :
      /\ Calls(h[i])[k].name # ""
      /\ Calls(h[i])[k].id = Calls(h[j])[l].id => i = j /\ k = l

\* The calls that begin at i.
Group(e, i) == {j \in DOMAIN e : i <= j /\ \A k \in i..j : e[k].is = "call"}

\* The calls of a response are followed at once by their results, one for each and in
\* their order, or by words of the user, and results follow calls or a summary.
Paired(e) ==
    \A i \in DOMAIN e :
      /\ e[i].is = "call" /\ (i = 1 \/ e[i - 1].is # "call") =>
           LET n == Cardinality(Group(e, i))
           IN \/ /\ i + 2 * n - 1 <= Len(e)
                 /\ \A j \in Group(e, i) : e[j + n].is = "result" /\ e[j + n].key = e[j].key
                 /\ i + 2 * n <= Len(e) => e[i + 2 * n].is # "result"
              \/ i + n <= Len(e) /\ e[i + n].is = "user"
      /\ e[i].is = "result" =>
           i > 1 /\ (e[i - 1].is \in {"call", "result"} \/ <<e[i - 1]>> = Said("user", <<Summary>>))

\* In every request the calls of a response have their results behind them, under the
\* id of the call or, for Gemini, under the name of its tool; or the next words of the
\* user, where the turn broke off between the two.  Results without calls stand only
\* where a compaction has cut (Message appends of run_conversation_turn, the
\* conversions and NameOf).
CallsAnswered ==
    turn = "call" /\ (provider = "gemini" => Traceable(history)) => Paired(Read(provider, payload))
=============================================================================
