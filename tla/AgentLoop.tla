----------------------------- MODULE AgentLoop -----------------------------
(***************************************************************************)
(* One call of AgentController.run_task (enclave/agent/controller.py): the *)
(* step loop under its deadline, the tool calls of a response running side *)
(* by side in asyncio.gather, their retries through ToolRouter.dispatch,   *)
(* and the step results, attestation hash parts, messages and events the   *)
(* loop leaves behind.                                                     *)
(*                                                                         *)
(* asyncio is cooperative: whatever runs between two suspension points is  *)
(* one action.  The loop suspends in the model call and in gather; a tool  *)
(* call suspends while its tool runs and while it sleeps before a retry.   *)
(* Putting an event on the unbounded queue never suspends.                 *)
(***************************************************************************)
EXTENDS Integers, Sequences

CONSTANTS
    Tools,              \* the tool names a model response may use
    Registered,         \* those the ToolRegistry knows
    NoTool,             \* tool_name of the answering step (None)
    StepLimits,         \* max_steps of a request; 0 means "not given"
    Budgets,            \* budget of a request, in cost units; 0: "not given"
    DefaultSteps,       \* DEFAULT_MAX_STEPS
    DefaultBudget,      \* DEFAULT_MAX_COST_USD
    Costs,              \* what one model response may cost
    MaxToolRetries,     \* MAX_TOOL_RETRIES
    MaxCalls,           \* bound: tool_use blocks in one response
    MaxChunks           \* bound: streamed chunks of one response

ASSUME AgentAssumption ==
    /\ Registered \subseteq Tools
    /\ NoTool \notin Tools
    /\ StepLimits \subseteq Int
    /\ Budgets \subseteq Int
    /\ DefaultSteps \in Nat \ {0}
    /\ DefaultBudget \in Nat \ {0}
    /\ Costs \subseteq Nat
    /\ MaxToolRetries \in Nat
    /\ MaxCalls \in Nat \ {0}
    /\ MaxChunks \in Nat

VARIABLES
    maxSteps,   \* max_steps in force
    maxCost,    \* max_cost in force
    phase,      \* where the loop is suspended: "llm", "tools"; "idle", "done"
    step,       \* step_num
    chunks,     \* chunks streamed by the model call in flight
    reply,      \* cost of the response whose calls are not recorded, else 0
    calls,      \* one record per tool call of that response, in order
    steps,      \* the StepResults
    cost,       \* sum(s.cost_usd for s in steps)
    hashParts,  \* task_hash_parts, each named by the step that it covers
    messages,   \* the history sent to the model
    events,     \* every StepEvent emitted, in order
    outcome     \* "running", or the error of the TaskResult ("complete": none)

vars == <<maxSteps, maxCost, phase, step, chunks, reply, calls, steps, cost,
          hashParts, messages, events, outcome>>

limits == <<maxSteps, maxCost>>
record == <<steps, cost, hashParts, messages>>

-----------------------------------------------------------------------------
(***************************************************************************)
(* Data                                                                    *)
(***************************************************************************)

\* A tool_use block.  The arguments may be JSON that is no object; others are what
\* validate_args makes of them: it accepts, rejects, or raises (it runs outside
\* dispatch's try block).
Block == [tool : Tools, args : {"valid", "invalid", "raising", "noobject"}]
IsObject(b) == b.args # "noobject"

\* Where one child task of gather is: created, in tool.run, sleeping before a
\* retry, finished with a ToolOutput, raised out of dispatch, or cancelled.
CallState == {"new", "running", "asleep", "ok", "failed", "raised", "cancelled"}
Alive     == {"new", "running", "asleep"}
Answered  == {"ok", "failed"}

Call == [tool : Tools, args : {"valid", "invalid", "raising"},
         st : CallState, tries : Nat]

Responses == UNION {[1..n -> Block] : n \in 1..MaxCalls}

Event(k, n, t) == [kind |-> k, step |-> n, tool |-> t]
Note(k, n)     == Event(k, n, NoTool)
Terminal(e)    == e.kind \in {"complete", "error"}

Opening == [role |-> "user", blocks |-> <<>>]

\* x or default: a limit of zero is falsy.
OrDefault(x, d) == IF x = 0 THEN d ELSE x

-----------------------------------------------------------------------------
(***************************************************************************)
(* A tool call: _dispatch_with_retry around ToolRouter.dispatch            *)
(***************************************************************************)

\* An attempt gave success = False: sleep and retry, or return the last output.
AfterFailure(c) ==
    [c EXCEPT !.st = IF c.tries <= MaxToolRetries THEN "asleep" ELSE "failed"]

\* dispatch up to its first suspension.  Unknown tools and rejected arguments
\* are failed outputs, so they too are retried.
Dispatched(c) ==
    IF c.tool \notin Registered \/ c.args = "invalid" THEN AfterFailure(c)
    ELSE [c EXCEPT !.st = IF c.args = "raising" THEN "raised" ELSE "running"]

\* The attempt counter is set once and never advanced.
AttemptUncounted(c) == Dispatched([c EXCEPT !.tries = 1])
\* The next turn of the retry loop.
Attempt(c) == Dispatched([c EXCEPT !.tries = @ + 1])

StartAttempt(i) ==
    /\ calls[i].st \in {"new", "asleep"}
    /\ calls' = [calls EXCEPT ![i] = Attempt(@)]
    /\ UNCHANGED <<limits, phase, step, chunks, reply, record, events, outcome>>

\* tool.run returns, raises, or reaches the router's timeout: the last two
\* become failed outputs.
EndAttempt(i) ==
    /\ calls[i].st = "running"
    /\ \/ calls' = [calls EXCEPT ![i].st = "ok"]
       \/ calls' = [calls EXCEPT ![i] = AfterFailure(@)]
    /\ UNCHANGED <<limits, phase, step, chunks, reply, record, events, outcome>>

-----------------------------------------------------------------------------
(***************************************************************************)
(* The loop                                                                *)
(***************************************************************************)

\* The guards at the top of the loop, for n responses recorded at cost c: the
\* range of the for statement, then the budget.
IgnoreBudget(n, c) == IF n >= maxSteps THEN "max_steps_exceeded" ELSE "running"
OneStepMore(n, c) ==
    IF n > maxSteps THEN "max_steps_exceeded"
    ELSE IF c >= maxCost THEN "cost_exceeded" ELSE "running"
Guard(n, c) ==
    IF n >= maxSteps THEN "max_steps_exceeded"
    ELSE IF c >= maxCost THEN "cost_exceeded" ELSE "running"

\* The loop is not left when a guard's error ends the task.
NextStepOn(n, c, evs) ==
    /\ outcome' = Guard(n, c)
    /\ phase' = "llm"
    /\ events' = Append(evs, Note(IF outcome' = "running" THEN "thinking" ELSE "error", n))
    /\ step' = n + 1
    /\ chunks' = 0
    /\ reply' = 0
\* From the top of the loop to the next suspension, after n responses at cost
\* c and with the events evs emitted so far: either the model is called, or
\* the guard's error ends the task.
NextStep(n, c, evs) ==
    /\ outcome' = Guard(n, c)
    /\ phase' = IF Guard(n, c) = "running" THEN "llm" ELSE "done"
    /\ events' = Append(evs,
         CASE Guard(n, c) = "running"       -> Note("thinking", n + 1)
           [] Guard(n, c) = "cost_exceeded" -> Note("error", n + 1)
           [] OTHER                         -> Note("error", maxSteps))
    /\ step' = IF Guard(n, c) = "running" THEN n + 1 ELSE n
    /\ chunks' = 0
    /\ reply' = 0

Init ==
    /\ \E s \in StepLimits, b \in Budgets :
         /\ maxSteps = OrDefault(s, DefaultSteps)
         /\ maxCost = OrDefault(b, DefaultBudget)
    /\ phase = "idle"
    /\ step = 0
    /\ chunks = 0
    /\ reply = 0
    /\ calls = <<>>
    /\ steps = <<>>
    /\ cost = 0
    /\ hashParts = <<NoTool>>
    /\ messages = <<Opening>>
    /\ events = <<>>
    /\ outcome = "idle"

Start ==
    /\ phase = "idle"
    /\ NextStep(0, 0, events)
    /\ UNCHANGED <<limits, calls, record>>

\* on_chunk and on_thinking_chunk, while the model call is in flight.
Chunk ==
    /\ phase = "llm"
    /\ chunks < MaxChunks
    /\ chunks' = chunks + 1
    /\ \E k \in {"chunk", "thinking_content"} :
         events' = Append(events, Note(k, step))
    /\ UNCHANGED <<limits, phase, step, reply, calls, record, outcome>>

StepResult(n, t, c) == [step |-> n, tool |-> t, cost |-> c]

\* A response without tool_use blocks: its step is recorded, the hash is taken
\* over all parts, and the task is complete.
Answer(c) ==
    /\ phase = "llm"
    /\ steps' = Append(steps, StepResult(step, NoTool, c))
    /\ cost' = cost + c
    /\ hashParts' = Append(hashParts, NoTool)
    /\ events' = Append(events, Note("complete", step))
    /\ outcome' = "complete"
    /\ phase' = "done"
    /\ UNCHANGED <<limits, step, chunks, reply, calls, messages>>

\* A response with tool_use blocks: the assistant message, one tool_call event
\* per block, and gather creates one child task per block.
CallTools(c, blocks) ==
    /\ phase = "llm"
    /\ \A i \in DOMAIN blocks : IsObject(blocks[i])
    /\ reply' = c
    /\ messages' = Append(messages, [role |-> "assistant",
                                     blocks |-> [i \in DOMAIN blocks |-> blocks[i].tool]])
    /\ events' = events \o [i \in DOMAIN blocks |-> Event("tool_call", step, blocks[i].tool)]
    /\ calls' = [i \in DOMAIN blocks |->
                   [tool |-> blocks[i].tool, args |-> blocks[i].args,
                    st |-> "new", tries |-> 0]]
    /\ phase' = "tools"
    /\ UNCHANGED <<limits, step, chunks, steps, cost, hashParts, outcome>>

\* tool_block.input.keys() raises on the k-th block, whose arguments are no object:
\* the assistant message is in the history, the blocks before are announced, and no
\* call is made of any.  The except clause of run_task reports it.
CallsUnread(c, blocks, k) ==
    /\ phase = "llm"
    /\ ~IsObject(blocks[k]) /\ \A i \in 1..(k - 1) : IsObject(blocks[i])
    /\ reply' = c
    /\ messages' = Append(messages, [role |-> "assistant",
                                     blocks |-> [i \in DOMAIN blocks |-> blocks[i].tool]])
    /\ events' = Append(events \o [i \in 1..(k - 1) |-> Event("tool_call", step, blocks[i].tool)],
                        Note("error", Len(steps)))
    /\ outcome' = "exception"
    /\ phase' = "done"
    /\ UNCHANGED <<limits, step, chunks, calls, steps, cost, hashParts>>

\* Every result carries the response's tokens.
CostOnEveryResult(i) == reply
\* The response's tokens are put on the first result only.
CostOf(i) == IF i = 1 THEN reply ELSE 0

\* The calls that got an answer, the failed ones left out.
ResultsOfGood == SelectSeq(calls, LAMBDA c : c.st = "ok")
\* The results gather returns: one per block, in the order of the blocks.
Results == calls

\* gather has returned: one StepResult, hash part, event and result block per
\* call, the results as one user message, and on to the next step.
Collect ==
    /\ phase = "tools"
    /\ \A i \in DOMAIN calls : calls[i].st \in Answered
    /\ steps' = steps \o [i \in DOMAIN Results |->
                            StepResult(step, Results[i].tool, CostOf(i))]
    /\ cost' = cost + reply
    /\ hashParts' = hashParts \o [i \in DOMAIN Results |-> Results[i].tool]
    /\ messages' = Append(messages, [role |-> "user",
                                     blocks |-> [i \in DOMAIN Results |-> Results[i].tool]])
    /\ NextStep(step, cost', events \o [i \in DOMAIN Results |->
                                Event("tool_result", step, Results[i].tool)])
    /\ calls' = <<>>
    /\ UNCHANGED limits

-----------------------------------------------------------------------------
(***************************************************************************)
(* How a task fails                                                        *)
(***************************************************************************)

\* The error is only reported in the TaskResult.
FailSilently(error) ==
    /\ outcome' = error
    /\ phase' = "done"
    /\ UNCHANGED <<limits, step, chunks, reply, record, events>>
\* The except clauses of run_task: an error event, and a TaskResult holding
\* the steps recorded so far.
Fail(error) ==
    /\ events' = Append(events, Note("error", Len(steps)))
    /\ outcome' = error
    /\ phase' = "done"
    /\ UNCHANGED <<limits, step, chunks, reply, record>>

\* The client gives up on the model (an HTTP error after its own retries).
LLMError ==
    /\ phase = "llm"
    /\ Fail("exception")
    /\ UNCHANGED calls

\* A call raised: gather passes the first exception on and leaves the other
\* children running.
ToolsRaised ==
    /\ phase = "tools"
    /\ \E i \in DOMAIN calls : calls[i].st = "raised"
    /\ Fail("exception")
    /\ UNCHANGED calls

Raised == \E i \in DOMAIN calls : calls[i].st = "raised"

\* The deadline leaves the children alone.
KeepAll(c) == c
\* What cancelling gather does to a child: cancelled, if it has not ended.
Cancelled(c) == IF c.st \in Alive THEN [c EXCEPT !.st = "cancelled"] ELSE c

\* wait_for cancels the loop wherever it is suspended.  Cancelling gather
\* cancels its children, unless gather had already ended with an exception.
\* Answers that were in but not yet collected are dropped.
Timeout ==
    /\ phase \in {"llm", "tools"}
    /\ calls' = IF Raised THEN calls ELSE [i \in DOMAIN calls |-> Cancelled(calls[i])]
    /\ Fail("timeout")

\* The task is over and none of its children is left.
Finished ==
    /\ phase = "done"
    /\ \A i \in DOMAIN calls : calls[i].st \notin Alive
    /\ UNCHANGED vars

Next ==
    \/ Start
    \/ Chunk
    \/ \E c \in Costs : Answer(c)
    \/ \E c \in Costs, blocks \in Responses : CallTools(c, blocks)
    \/ \E c \in Costs, blocks \in Responses : \E k \in DOMAIN blocks : CallsUnread(c, blocks, k)
    \/ \E i \in DOMAIN calls : StartAttempt(i) \/ EndAttempt(i)
    \/ Collect
    \/ LLMError
    \/ ToolsRaised
    \/ Timeout
    \/ Finished

Spec == Init /\ [][Next]_vars

\* Every suspension ends: the model client bounds its own requests, the router
\* its tools, and the event loop runs what is ready.  Nothing is assumed of
\* the task's own deadline.
Fairness ==
    /\ WF_vars(Start)
    /\ WF_vars(LLMError \/ \E c \in Costs :
                  \/ Answer(c)
                  \/ \E blocks \in Responses :
                       CallTools(c, blocks) \/ \E k \in DOMAIN blocks : CallsUnread(c, blocks, k))
    /\ \A i \in 1..MaxCalls :
         WF_vars(i \in DOMAIN calls /\ (StartAttempt(i) \/ EndAttempt(i)))
    /\ WF_vars(Collect \/ ToolsRaised)

FairSpec == Spec /\ Fairness

-----------------------------------------------------------------------------
(***************************************************************************)
(* Properties                                                              *)
(***************************************************************************)

Over == outcome \notin {"idle", "running"}

\* The values every variable may take, and which phases and outcomes go
\* together (the locals of run_task and _run_step_loop).
TypeOK ==
    /\ maxSteps \in Int
    /\ maxCost \in Int
    /\ phase \in {"idle", "llm", "tools", "done"}
    /\ step \in Nat
    /\ chunks \in 0..MaxChunks
    /\ reply \in Costs \cup {0}
    /\ calls \in Seq(Call)
    /\ steps \in Seq([step : Nat, tool : Tools \cup {NoTool}, cost : Nat])
    /\ cost \in Nat
    /\ hashParts \in Seq(Tools \cup {NoTool})
    /\ messages \in Seq([role : {"user", "assistant"}, blocks : Seq(Tools)])
    /\ events \in Seq([kind : {"thinking", "thinking_content", "chunk", "tool_call",
                               "tool_result", "complete", "error"},
                       step : Int, tool : Tools \cup {NoTool}])
    /\ outcome \in {"idle", "running", "complete", "max_steps_exceeded",
                    "cost_exceeded", "timeout", "exception"}
    /\ (phase = "idle") = (outcome = "idle")
    /\ (phase = "done") = Over

\* A consumer that stops at the first "complete" or "error" event (the TUI and
\* the stream client do) has seen everything, and saw the kind of event that
\* the TaskResult agrees with.
OneTerminalEvent ==
    \A i \in DOMAIN events :
      /\ Terminal(events[i]) <=> (Over /\ i = Len(events))
      /\ events[i].kind = "complete" => outcome = "complete"

\* No response is paid for once the recorded cost has reached the budget, so
\* that a task overspends by less than one response (the cost guard).
BudgetKept ==
    /\ outcome = "running" => cost < maxCost
    /\ cost + reply > 0 => \E c \in Costs : cost + reply - c < maxCost

\* The model is called at most max_steps times, and every StepResult carries
\* the number of one of those calls, in order (the range of the for loop).
StepsKept ==
    /\ step > 0 => step <= maxSteps
    /\ \A i \in DOMAIN steps : steps[i].step \in 1..step
    /\ \A i, j \in DOMAIN steps : i < j => steps[i].step <= steps[j].step

\* Both limits of a task hold (the guards at the top of the loop).
LimitsKept == BudgetKept /\ StepsKept

\* sum(s.cost_usd for s in steps), which the guard and the TaskResult use,
\* counts every collected response once although a response with several
\* tool calls leaves several StepResults.
CostIsSumOfSteps ==
    LET Sum[n \in 0..Len(steps)] == IF n = 0 THEN 0 ELSE Sum[n - 1] + steps[n].cost
    IN cost = Sum[Len(steps)]

\* The members of the sequence s that are in S, in their order.
Chosen(s, S) ==
    LET Part[n \in 0..Len(s)] == IF n = 0 THEN <<>>
                                 ELSE IF s[n] \in S THEN Append(Part[n - 1], s[n])
                                 ELSE Part[n - 1]
    IN Part[Len(s)]

EventsOf(k) == [kind : {k}, step : Int, tool : Tools \cup {NoTool}]
StepsOfTools == [step : Nat, tool : Tools, cost : Nat]

OfKind(k) == Chosen(events, EventsOf(k))
ToolSteps == Chosen(steps, StepsOfTools)
SameCalls(s, t) ==
    /\ Len(s) = Len(t)
    /\ \A i \in DOMAIN s : s[i].tool = t[i].tool /\ s[i].step = t[i].step

\* The accounts of what was done agree: the tool_result events are the recorded tool
\* steps; these are a prefix of the announced tool calls; what was announced and not
\* recorded opens the last message, in the order of its blocks, and is either the calls
\* of that response, or no call was made of any since arguments behind them were no
\* object; and the parts under the attestation hash are the task and every recorded step.
AccountsAgree ==
    LET announced  == OfKind("tool_call")
        recorded   == ToolSteps
        unrecorded == Len(announced) - Len(recorded)
        last       == messages[Len(messages)].blocks
    IN /\ SameCalls(OfKind("tool_result"), recorded)
       /\ unrecorded >= 0
       /\ SameCalls(SubSeq(announced, 1, Len(recorded)), recorded)
       /\ unrecorded = Len(calls) \/ (outcome = "exception" /\ Len(calls) = 0)
       /\ \A i \in 1..unrecorded :
            /\ i \in DOMAIN last
            /\ announced[Len(recorded) + i] = Event("tool_call", step, last[i])
       /\ Len(hashParts) = Len(steps) + 1
       /\ \A i \in DOMAIN steps : hashParts[i + 1] = steps[i].tool

\* Whenever the model is called, every assistant message before it is followed
\* by one user message with one result per tool_use block, in block order,
\* although the calls ran and ended in any order.
HistoryPaired ==
    /\ \A i \in DOMAIN messages :
         /\ messages[i].role = IF i % 2 = 1 THEN "user" ELSE "assistant"
         /\ (i % 2 = 0 /\ i < Len(messages)) => messages[i + 1].blocks = messages[i].blocks
    /\ phase = "llm" => Len(messages) % 2 = 1

\* A call is reported failed only after all its attempts, and is never
\* attempted more often than that (_dispatch_with_retry).
RetriesBounded ==
    \A i \in DOMAIN calls :
      /\ calls[i].tries <= MaxToolRetries + 1
      /\ calls[i].st = "failed" => calls[i].tries = MaxToolRetries + 1

\* A tool call outlives the task that made it only when a sibling's argument
\* check raised: the deadline and the guards leave none behind.
NoStrayCalls ==
    Over /\ (\E i \in DOMAIN calls : calls[i].st \in Alive)
      => Raised /\ outcome \in {"exception", "timeout"}

\* What run_task returned is final: no later step of a surviving call changes
\* the steps, the messages, the hash parts or the events.
ResultFinal == [][Over => UNCHANGED <<record, events, outcome>>]_vars

\* Every task ends and its tool calls with it, by the step and retry limits
\* alone: the deadline is not needed.
Termination == <>[](phase = "done" /\ \A i \in DOMAIN calls : calls[i].st \notin Alive)

\* The responses whose tools were collected, and the one that answered.
Used == IF outcome \in {"running", "timeout", "exception"} THEN step - 1 ELSE step

Lifecycle == INSTANCE TaskLifecycle WITH
    StepLimits <- {OrDefault(s, DefaultSteps) : s \in StepLimits},
    Budgets    <- {OrDefault(b, DefaultBudget) : b \in Budgets},
    used       <- Used

\* The loop with its tools, events and messages does what TaskLifecycle says.
ImplementsLifecycle == Lifecycle!Spec
=============================================================================
