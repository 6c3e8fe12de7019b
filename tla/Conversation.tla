---------------------------- MODULE Conversation ----------------------------
(***************************************************************************)
(* The conversation the terminal interface keeps with the agent: the       *)
(* message list that AgentController.run_conversation_turn                 *)
(* (enclave/agent/controller.py) extends in place and compacts when it     *)
(* outgrows the context window, the ways a turn can end, and the session   *)
(* file of tui.py that survives a restart.                                 *)
(*                                                                         *)
(* The tool calls of one response are one suspension here (AgentLoop has   *)
(* their inside); what matters is that the list holds one message for the  *)
(* calls and, if the turn gets that far, one for their results.  A message *)
(* carries the number of the response it comes from, so that calls and     *)
(* results can be matched, and its size in tokens.                         *)
(***************************************************************************)
EXTENDS Integers, Sequences, FiniteSets

CONSTANTS
    MaxSteps,       \* max_steps of a turn
    MaxCost,        \* max_cost of a turn, in cost units
    Costs,          \* what one model response may cost
    Sizes,          \* the estimated tokens of a message
    SystemTokens,   \* the estimated tokens of the system prompt
    ContextWindow,  \* _context_window, the provider's, in tokens
    Threshold,      \* COMPACT_THRESHOLD in percent
    MinRecent,      \* MIN_RECENT_MESSAGES
    MaxTurns,       \* bound: turns, over all restarts
    MaxRestarts     \* bound: restarts of the process

ASSUME ConversationAssumption ==
    /\ MaxSteps \in Nat
    /\ MaxCost \in Int
    /\ Costs \subseteq Nat
    /\ Sizes \subseteq Nat \ {0}
    /\ SystemTokens \in Nat
    /\ ContextWindow \in Nat
    /\ Threshold \in Nat
    /\ MinRecent \in Nat \ {0}
    /\ MaxTurns \in Nat
    /\ MaxRestarts \in Nat

VARIABLES
    history,        \* conversation_history, the list the TUI and the turn share
    phase,          \* "prompt": the TUI waits for input; "llm", "tools": in a turn
    step,           \* step_num of the turn
    cost,           \* sum(s.cost_usd for s in steps) of the turn
    reply,          \* cost of the response whose tools are running, else 0
    saved,          \* the messages in the session file; none: no file
    fresh,          \* how many responses there were: the number of the latest
    compacted,      \* history: the step began with a compaction checkpoint
    turns,          \* turns begun
    restarts        \* restarts made

vars == <<history, phase, step, cost, reply, saved, fresh,
          compacted, turns, restarts>>

-----------------------------------------------------------------------------
(***************************************************************************)
(* Messages                                                                *)
(***************************************************************************)

\* "text" and "summary" have a string as content; "calls", "results" and
\* "answer" a list of blocks.
Kinds == {"text", "summary", "calls", "results", "answer"}
Msg(k, n, z) == [kind |-> k, of |-> n, size |-> z]

IsText(m) == m.kind \in {"text", "summary"}

\* _estimate_history_tokens without the system prompt.
Tokens(h) ==
    LET Sum[n \in 0..Len(h)] == IF n = 0 THEN 0 ELSE Sum[n - 1] + h[n].size
    IN Sum[Len(h)]

Estimate(h) == SystemTokens + Tokens(h)

CompactLimit == (ContextWindow * Threshold) \div 100

\* The last n messages.
Recent(h, n) == SubSeq(h, Len(h) - n + 1, Len(h))

\* The request that opened the conversation is summarised as well.
CompactAll(h, z) ==
    IF Len(h) <= MinRecent + 1 THEN <<>>
    ELSE <<Msg("summary", 0, z)>> \o Recent(h, MinRecent)
\* The window is taken one short, so that the newest message is lost.
CompactLate(h, z) ==
    IF Len(h) <= MinRecent + 1 THEN <<>>
    ELSE <<h[1], Msg("summary", 0, z)>> \o SubSeq(h, Len(h) - MinRecent, Len(h) - 1)

\* What a compaction leaves of a history of more than MinRecent messages that
\* does not fit: the first message, a summary of the middle and the recent
\* messages.  With MinRecent + 1 messages the middle is empty; _compact_history
\* then returns the very list it was given, which its caller clears before it
\* copies the result back, so that nothing is left.
Compact(h, z) ==
    IF Len(h) <= MinRecent + 1 THEN <<>>
    ELSE <<h[1], Msg("summary", 0, z)>> \o Recent(h, MinRecent)

\* The context guard is left out.
NeverTooLong(h) == FALSE
\* The guard: over the limit, and more than the recent messages to work on.
TooLong(h) == Estimate(h) > CompactLimit /\ Len(h) > MinRecent

-----------------------------------------------------------------------------
(***************************************************************************)
(* A turn                                                                  *)
(***************************************************************************)

\* The turn is over: the TUI prompts again.
EndTurn ==
    /\ phase' = "prompt"
    /\ step' = 0
    /\ cost' = 0
    /\ reply' = 0
    /\ compacted' = FALSE

\* From the top of the loop, after n responses at cost c and with history h, to
\* the call of the model: the step and cost guards, then the context guard.
NextStep(h, n, c) ==
    IF n >= MaxSteps \/ c >= MaxCost
    THEN history' = h /\ EndTurn
    ELSE /\ phase' = "llm"
         /\ step' = n + 1
         /\ cost' = c
         /\ reply' = 0
         /\ compacted' = TooLong(h)
         /\ IF TooLong(h) THEN \E z \in Sizes : history' = Compact(h, z) ELSE history' = h

Init ==
    /\ history = <<>>
    /\ phase = "prompt"
    /\ step = 0
    /\ cost = 0
    /\ reply = 0
    /\ saved = <<>>
    /\ fresh = 0
    /\ compacted = FALSE
    /\ turns = 0
    /\ restarts = 0

\* The user's message opens a turn.
BeginTurn ==
    /\ phase = "prompt"
    /\ turns < MaxTurns
    /\ turns' = turns + 1
    /\ \E z \in Sizes : NextStep(Append(history, Msg("text", turns + 1, z)), 0, 0)
    /\ UNCHANGED <<saved, fresh, restarts>>

\* A response without tool calls ends the turn.
Answer ==
    /\ phase = "llm"
    /\ fresh' = fresh + 1
    /\ \E z \in Sizes : history' = Append(history, Msg("answer", fresh + 1, z))
    /\ EndTurn
    /\ UNCHANGED <<saved, turns, restarts>>

\* The assistant message is left out of the history.
CallToolsUnrecorded(c) ==
    /\ phase = "llm"
    /\ fresh' = fresh + 1
    /\ reply' = c
    /\ phase' = "tools"
    /\ UNCHANGED <<history, step, cost, saved, compacted, turns, restarts>>
\* A response with tool calls: the calls join the history before they run.
CallTools(c) ==
    /\ phase = "llm"
    /\ fresh' = fresh + 1
    /\ \E z \in Sizes : history' = Append(history, Msg("calls", fresh + 1, z))
    /\ reply' = c
    /\ phase' = "tools"
    /\ UNCHANGED <<step, cost, saved, compacted, turns, restarts>>

\* The calls have ended (allowed or denied, successful or not): their results
\* join the history as one message.
Collect ==
    /\ phase = "tools"
    /\ \E z \in Sizes :
         NextStep(Append(history, Msg("results", fresh, z)), step, cost + reply)
    /\ UNCHANGED <<saved, fresh, turns, restarts>>

\* The deadline of the turn, or an exception from the model client or from a
\* tool's argument check: the history stays as it is.
Interrupt ==
    /\ phase \in {"llm", "tools"}
    /\ EndTurn
    /\ UNCHANGED <<history, saved, fresh, turns, restarts>>

-----------------------------------------------------------------------------
(***************************************************************************)
(* The session                                                             *)
(***************************************************************************)

\* What goes to the file: the messages whose content is a string, one after the other.
Persisted(h) ==
    LET Kept[n \in 0..Len(h)] == IF n = 0 THEN <<>>
                                 ELSE IF IsText(h[n]) THEN Append(Kept[n - 1], h[n])
                                 ELSE Kept[n - 1]
    IN Kept[Len(h)]

\* /save
Save ==
    /\ phase = "prompt"
    /\ saved' = Persisted(history)
    /\ UNCHANGED <<history, phase, step, cost, reply, fresh, compacted,
                   turns, restarts>>

\* /clear
Clear ==
    /\ phase = "prompt"
    /\ history # <<>>
    /\ history' = <<>>
    /\ saved' = <<>>
    /\ UNCHANGED <<phase, step, cost, reply, fresh, compacted, turns, restarts>>

\* A new process restores the session from file f, if it holds any message.
Boot(f) ==
    /\ restarts < MaxRestarts
    /\ restarts' = restarts + 1
    /\ history' = f
    /\ phase' = "prompt"
    /\ step' = 0
    /\ cost' = 0
    /\ reply' = 0
    /\ compacted' = FALSE
    /\ UNCHANGED <<fresh, turns>>

\* /exit between turns, or Ctrl-C at any time, saves the session and leaves; the
\* next start restores it.
ExitAndStart ==
    /\ saved' = Persisted(history)
    /\ Boot(saved')

\* The process dies, in a turn or between turns, and is started again.
CrashAndStart ==
    /\ Boot(saved)
    /\ UNCHANGED saved

\* The process dies while it writes the session file, which is rewritten in
\* place: what is left of it cannot be read, and is as good as no file.
CrashInSave ==
    /\ saved' = <<>>
    /\ Boot(saved')

Next ==
    \/ BeginTurn
    \/ Answer
    \/ \E c \in Costs : CallTools(c)
    \/ Collect
    \/ Interrupt
    \/ Save
    \/ Clear
    \/ ExitAndStart
    \/ CrashAndStart
    \/ CrashInSave

Spec == Init /\ [][Next]_vars

-----------------------------------------------------------------------------
(***************************************************************************)
(* Properties                                                              *)
(***************************************************************************)

Message == [kind : Kinds, of : Nat, size : Nat]

\* The values of the variables; the counters are at rest between turns.
TypeOK ==
    /\ history \in Seq(Message)
    /\ phase \in {"prompt", "llm", "tools"}
    /\ step \in 0..MaxSteps
    /\ cost \in Nat
    /\ reply \in Nat
    /\ saved \in Seq(Message)
    /\ fresh \in Nat
    /\ compacted \in BOOLEAN
    /\ turns \in 0..MaxTurns
    /\ restarts \in 0..MaxRestarts
    /\ phase = "prompt" <=> step = 0

\* What the model is asked about is the last message it gets, compacted or
\* not: the user's words in the first step of a turn, then the results of the
\* calls of its previous response (run_conversation_turn, _compact_history).
\* It may get nothing at all: see CompactionKeepsTheRequest.
NewestKept ==
    phase = "llm" /\ history # <<>> =>
      LET last == history[Len(history)]
      IN IF step = 1 THEN last.kind = "text" /\ last.of = turns
         ELSE last.kind = "results" /\ last.of = fresh

\* As long as anything is left of the conversation, its opening message is,
\* until a session file replaces it (first_msg in _compact_history).
OpeningKept ==
    [][history # <<>> /\ history' # <<>> /\ restarts' = restarts
         => history'[1] = history[1]]_vars

\* Whenever the model is called, the estimate is under the limit or there is
\* nothing left to compact but the opening, one more message and the recent
\* ones: the history cannot grow without bound (the context window guard).
CallBounded ==
    phase = "llm" => Estimate(history) <= CompactLimit \/ Len(history) <= MinRecent + 2

\* Results stand directly behind the calls they answer, and appear once; what
\* follows a message of calls is its results, or the user's next words when the
\* turn was interrupted, so that no later answer can be taken for the results.
\* Only a compaction separates the two, by its summary: it cuts the history
\* wherever the recent messages begin (_compact_history, and the two places of
\* run_conversation_turn that append).
CallsThenResults ==
    \A i \in DOMAIN history :
      /\ history[i].kind = "results" =>
           /\ i > 1
           /\ \/ history[i - 1].kind = "calls" /\ history[i - 1].of = history[i].of
              \/ history[i - 1].kind = "summary"
           /\ \A j \in DOMAIN history :
                history[j].kind = "results" /\ history[j].of = history[i].of => i = j
      /\ history[i].kind = "calls" /\ i < Len(history) =>
           \/ history[i + 1].kind = "results" /\ history[i + 1].of = history[i].of
           \/ history[i + 1].kind = "text"
           \/ history[i + 1].kind = "summary" /\ i = 1

-----------------------------------------------------------------------------
(***************************************************************************)
(* What a docstring says, and the code does not do                         *)
(***************************************************************************)

\* "Keeps the first message (original user request context) and the most recent
\* messages" (_compact_history): a compaction leaves both behind.  With one
\* message more than the recent ones it leaves none.
CompactionKeepsTheRequest == compacted => Len(history) > MinRecent
=============================================================================
