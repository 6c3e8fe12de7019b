-------------------------- MODULE AgentLoopProofs --------------------------
(***************************************************************************)
(* Proofs about AgentLoop for every value of its constants.                *)
(***************************************************************************)
EXTENDS AgentLoop, SequenceTheorems, WellFoundedInduction, TLAPS

-----------------------------------------------------------------------------
(***************************************************************************)
(* Sequences built by the loop                                             *)
(***************************************************************************)

\* A function on 1..n with values in S is a sequence over S of length n.
LEMMA MapIsSeq ==
    ASSUME NEW S, NEW n \in Nat, NEW f \in [1..n -> S]
    PROVE  f \in Seq(S) /\ Len(f) = n /\ DOMAIN f = 1..n
  OBVIOUS

\* The elements of a concatenation are those of the first sequence, then those
\* of the second.
LEMMA ConcatSeq ==
    ASSUME NEW S, NEW s \in Seq(S), NEW t \in Seq(S)
    PROVE  /\ s \o t \in Seq(S)
           /\ Len(s \o t) = Len(s) + Len(t)
           /\ \A i \in 1..Len(s) : (s \o t)[i] = s[i]
           /\ \A i \in Len(s) + 1 .. Len(s) + Len(t) : (s \o t)[i] = t[i - Len(s)]
  OBVIOUS

\* The same for the sequence with one more element.
LEMMA AppendSeq ==
    ASSUME NEW S, NEW s \in Seq(S), NEW e \in S
    PROVE  /\ Append(s, e) \in Seq(S)
           /\ Len(Append(s, e)) = Len(s) + 1
           /\ \A i \in 1..Len(s) : Append(s, e)[i] = s[i]
           /\ Append(s, e)[Len(s) + 1] = e
  OBVIOUS

-----------------------------------------------------------------------------
(***************************************************************************)
(* Types                                                                   *)
(***************************************************************************)

StepRecord == [step : Nat, tool : Tools \cup {NoTool}, cost : Nat]
HashPart   == Tools \cup {NoTool}
Message    == [role : {"user", "assistant"}, blocks : Seq(Tools)]
EventRec   == [kind : {"thinking", "thinking_content", "chunk", "tool_call",
                       "tool_result", "complete", "error"},
               step : Int, tool : Tools \cup {NoTool}]

\* The result of the guards, and what it depends on.
LEMMA GuardType ==
    ASSUME NEW n, NEW c
    PROVE  Guard(n, c) \in {"running", "max_steps_exceeded", "cost_exceeded"}
  BY DEF Guard

\* An attempt leaves a well-formed call behind.
LEMMA AttemptType ==
    ASSUME NEW c \in Call
    PROVE  /\ AfterFailure(c) \in Call
           /\ Attempt(c) \in Call
           /\ [c EXCEPT !.st = "ok"] \in Call
           /\ Cancelled(c) \in Call
  <1>1. AfterFailure(c) \in Call
    BY DEF AfterFailure, Call, CallState
  <1>2. [c EXCEPT !.tries = @ + 1] \in Call
    BY DEF Call
  <1>3. ASSUME NEW d \in Call PROVE Dispatched(d) \in Call
    BY DEF Dispatched, AfterFailure, Call, CallState
  <1>4. Attempt(c) \in Call
    BY <1>2, <1>3 DEF Attempt
  <1>5. [c EXCEPT !.st = "ok"] \in Call
    BY DEF Call, CallState
  <1>6. Cancelled(c) \in Call
    BY DEF Cancelled, Call, CallState, Alive
  <1> QED BY <1>1, <1>4, <1>5, <1>6

\* What NextStep leaves behind.
NextStepPost ==
    /\ outcome' \in {"running", "max_steps_exceeded", "cost_exceeded"}
    /\ phase' \in {"llm", "done"}
    /\ (phase' = "done") = (outcome' # "running")
    /\ events' \in Seq(EventRec)
    /\ step' \in Nat
    /\ chunks' = 0
    /\ reply' = 0

\* From the top of the loop: the variables NextStep assigns keep their types.
LEMMA NextStepType ==
    ASSUME TypeOK, NEW n \in Nat, NEW c \in Nat, NEW evs \in Seq(EventRec),
           NextStep(n, c, evs)
    PROVE  NextStepPost
  <1>1. outcome' \in {"running", "max_steps_exceeded", "cost_exceeded"}
    BY GuardType DEF NextStep
  <1>2. phase' \in {"llm", "done"} /\ (phase' = "done") = (outcome' # "running")
    BY DEF NextStep
  <1>3. /\ Note("thinking", n + 1) \in EventRec
        /\ Note("error", n + 1) \in EventRec
        /\ Note("error", maxSteps) \in EventRec
    BY DEF TypeOK, Note, Event, EventRec
  <1>4. events' \in Seq(EventRec)
    BY <1>3, AppendSeq DEF NextStep
  <1>5. step' \in Nat /\ chunks' = 0 /\ reply' = 0
    BY DEF NextStep
  <1> QED BY <1>1, <1>2, <1>4, <1>5 DEF NextStepPost

\* The types hold at the start.
LEMMA InitType == Init => TypeOK
  <1> SUFFICES ASSUME Init PROVE TypeOK
    OBVIOUS
  <1>1. maxSteps \in Int /\ maxCost \in Int
    BY AgentAssumption DEF Init, OrDefault
  <1>2. Opening \in Message
    BY DEF Opening, Message
  <1>3. hashParts \in Seq(HashPart) /\ messages \in Seq(Message)
    BY <1>2 DEF Init, HashPart
  <1> QED
    BY <1>1, <1>3, AgentAssumption DEF Init, TypeOK, HashPart, Message, Over

\* The calls of a well-typed state, one by one.
LEMMA CallFacts ==
    ASSUME TypeOK
    PROVE  /\ Len(calls) \in Nat
           /\ DOMAIN calls = 1..Len(calls)
           /\ \A i \in DOMAIN calls : calls[i] \in Call
           /\ \A i \in DOMAIN calls, c \in Call : [calls EXCEPT ![i] = c] \in Seq(Call)
  <1>1. calls \in Seq(Call)
    BY DEF TypeOK
  <1> QED BY <1>1

\* What a response leaves behind whose k-th call has arguments that are no object.
UnreadEvents(blocks, k) == [i \in 1..(k - 1) |-> Event("tool_call", step, blocks[i].tool)]

LEMMA UnreadFacts ==
    ASSUME TypeOK, NEW c \in Costs, NEW blocks \in Responses, NEW k \in DOMAIN blocks,
           CallsUnread(c, blocks, k)
    PROVE  /\ phase = "llm" /\ phase' = "done" /\ outcome' = "exception" /\ reply' = c
           /\ UNCHANGED <<maxSteps, maxCost, step, chunks, calls, steps, cost, hashParts>>
           /\ UnreadEvents(blocks, k) \in Seq(EventRec)
           /\ Len(UnreadEvents(blocks, k)) = k - 1
           /\ k - 1 \in Nat
           /\ \A i \in 1..(k - 1) : /\ i \in DOMAIN blocks
                                   /\ UnreadEvents(blocks, k)[i] = Event("tool_call", step, blocks[i].tool)
                                   /\ blocks[i].tool \in Tools
           /\ events' = Append(events \o UnreadEvents(blocks, k), Note("error", Len(steps)))
           /\ Note("error", Len(steps)) \in EventRec
           /\ [role |-> "assistant", blocks |-> [i \in DOMAIN blocks |-> blocks[i].tool]] \in Message
           /\ messages' = Append(messages, [role |-> "assistant",
                                            blocks |-> [i \in DOMAIN blocks |-> blocks[i].tool]])
  <1> DEFINE v == UnreadEvents(blocks, k)
  <1>1. PICK n \in 1..MaxCalls : blocks \in [1..n -> Block]
    BY DEF Responses
  <1>2. n \in Nat /\ DOMAIN blocks = 1..n /\ \A i \in 1..n : blocks[i].tool \in Tools
    BY <1>1, AgentAssumption DEF Block
  <1>3. k - 1 \in Nat /\ \A i \in 1..(k - 1) : i \in 1..n
    BY <1>2
  <1>4. v \in [1..(k - 1) -> EventRec] /\ \A i \in 1..(k - 1) : v[i] = Event("tool_call", step, blocks[i].tool)
    BY <1>2, <1>3 DEF UnreadEvents, Event, EventRec, TypeOK
  <1>5. [role |-> "assistant", blocks |-> [i \in DOMAIN blocks |-> blocks[i].tool]] \in Message
    BY <1>2, MapIsSeq DEF Message
  <1>6. Note("error", Len(steps)) \in EventRec
    BY DEF Note, Event, EventRec, TypeOK
  <1>7. v \in Seq(EventRec) /\ Len(v) = k - 1
    <2> HIDE DEF v
    <2> QED BY <1>3, <1>4, MapIsSeq
  <1>8. \A i \in 1..(k - 1) : i \in DOMAIN blocks /\ blocks[i].tool \in Tools
    BY <1>2, <1>3
  <1> QED BY <1>3, <1>4, <1>5, <1>6, <1>7, <1>8 DEF CallsUnread, UnreadEvents, limits

\* Every step keeps the types.
LEMMA StepType == TypeOK /\ [Next]_vars => TypeOK'
  <1> SUFFICES ASSUME TypeOK, [Next]_vars PROVE TypeOK'
    OBVIOUS
  <1>0. /\ Len(calls) \in Nat
        /\ DOMAIN calls = 1..Len(calls)
        /\ \A i \in DOMAIN calls : calls[i] \in Call
        /\ \A i \in DOMAIN calls, c \in Call : [calls EXCEPT ![i] = c] \in Seq(Call)
    BY CallFacts
  <1> USE DEF TypeOK, Over, HashPart, Message, EventRec, StepRecord
  <1>1. CASE Start
    <2>1. NextStep(0, 0, events) /\ UNCHANGED <<limits, calls, record>>
      BY <1>1 DEF Start
    <2>2. NextStepPost
      BY <2>1, NextStepType
    <2> QED BY <2>1, <2>2, AgentAssumption DEF limits, record, NextStepPost
  <1>2. CASE Chunk
    <2>1. \A k \in {"chunk", "thinking_content"} : Note(k, step) \in EventRec
      BY DEF Note, Event
    <2>2. events' \in Seq(EventRec)
      BY <1>2, <2>1, AppendSeq DEF Chunk
    <2>3. chunks' \in 0..MaxChunks
      BY <1>2, AgentAssumption DEF Chunk
    <2> QED BY <1>2, <2>2, <2>3 DEF Chunk, limits, record
  <1>3. ASSUME NEW c \in Costs, Answer(c) PROVE TypeOK'
    <2>1. c \in Nat
      BY AgentAssumption
    <2>2. StepResult(step, NoTool, c) \in StepRecord /\ Note("complete", step) \in EventRec
      BY <2>1 DEF StepResult, Note, Event
    <2>3. steps' \in Seq(StepRecord) /\ events' \in Seq(EventRec) /\ hashParts' \in Seq(HashPart)
      BY <1>3, <2>2, AppendSeq DEF Answer
    <2> QED BY <1>3, <2>1, <2>3 DEF Answer, limits
  <1>4. ASSUME NEW c \in Costs, NEW blocks \in Responses, CallTools(c, blocks)
        PROVE  TypeOK'
    <2>1. PICK n \in 1..MaxCalls : blocks \in [1..n -> Block]
      BY DEF Responses
    <2>2. n \in Nat /\ DOMAIN blocks = 1..n
      BY <2>1, AgentAssumption
    <2>3. [i \in DOMAIN blocks |-> blocks[i].tool] \in Seq(Tools)
      BY <2>1, <2>2, MapIsSeq DEF Block
    <2>4. [i \in DOMAIN blocks |-> Event("tool_call", step, blocks[i].tool)] \in Seq(EventRec)
      BY <2>1, <2>2, MapIsSeq DEF Block, Event
    <2>5. calls' \in Seq(Call)
      <3>1. \A i \in 1..n : blocks[i].tool \in Tools /\ blocks[i].args \in {"valid", "invalid", "raising"}
        BY <1>4, <2>1, <2>2 DEF Block, CallTools, IsObject
      <3>2. \A i \in 1..n : [tool |-> blocks[i].tool, args |-> blocks[i].args,
                             st |-> "new", tries |-> 0] \in Call
        BY <3>1 DEF Call, CallState
      <3>3. calls' = [i \in 1..n |-> [tool |-> blocks[i].tool, args |-> blocks[i].args,
                                     st |-> "new", tries |-> 0]]
        BY <1>4, <2>2 DEF CallTools
      <3> QED BY <2>2, <3>2, <3>3, MapIsSeq
    <2>6. messages' \in Seq(Message)
      BY <1>4, <2>3, AppendSeq DEF CallTools
    <2>7. events' \in Seq(EventRec)
      BY <1>4, <2>4, ConcatSeq DEF CallTools
    <2> QED BY <1>4, <2>5, <2>6, <2>7 DEF CallTools, limits
  <1>5. ASSUME NEW i \in DOMAIN calls, StartAttempt(i) PROVE TypeOK'
    <2>1. Attempt(calls[i]) \in Call
      BY <1>0, AttemptType
    <2>2. calls' \in Seq(Call)
      BY <1>0, <1>5, <2>1 DEF StartAttempt
    <2> QED BY <1>5, <2>2 DEF StartAttempt, limits, record
  <1>6. ASSUME NEW i \in DOMAIN calls, EndAttempt(i) PROVE TypeOK'
    <2>1. AfterFailure(calls[i]) \in Call /\ [calls[i] EXCEPT !.st = "ok"] \in Call
      BY <1>0, AttemptType
    <2>2. \E c \in Call : calls' = [calls EXCEPT ![i] = c]
      BY <1>6, <2>1 DEF EndAttempt
    <2>3. calls' \in Seq(Call)
      BY <1>0, <2>2
    <2> QED BY <1>6, <2>3 DEF EndAttempt, limits, record
  <1>7. CASE Collect
    <2> DEFINE n == Len(calls)
               newSteps == [i \in DOMAIN Results |-> StepResult(step, Results[i].tool, CostOf(i))]
               newParts == [i \in DOMAIN Results |-> Results[i].tool]
               newEvents == [i \in DOMAIN Results |-> Event("tool_result", step, Results[i].tool)]
    <2>1. n \in Nat /\ DOMAIN Results = 1..n /\ \A i \in 1..n : Results[i].tool \in Tools
      BY <1>0 DEF Results, Call
    <2>2. reply \in Nat /\ \A i \in 1..n : CostOf(i) \in Nat
      BY AgentAssumption DEF CostOf
    <2>3. newSteps \in Seq(StepRecord)
      BY <2>1, <2>2, MapIsSeq DEF StepResult
    <2>4. newParts \in Seq(HashPart) /\ newParts \in Seq(Tools)
      BY <2>1, MapIsSeq
    <2>5. newEvents \in Seq(EventRec)
      BY <2>1, MapIsSeq DEF Event
    <2>6. /\ steps' = steps \o newSteps
          /\ cost' = cost + reply
          /\ hashParts' = hashParts \o newParts
          /\ messages' = Append(messages, [role |-> "user", blocks |-> newParts])
          /\ NextStep(step, cost', events \o newEvents)
          /\ calls' = <<>>
          /\ UNCHANGED limits
      BY <1>7 DEF Collect
    <2>7. steps' \in Seq(StepRecord) /\ hashParts' \in Seq(HashPart)
      BY <2>3, <2>4, <2>6, ConcatSeq
    <2>8. messages' \in Seq(Message)
      BY <2>4, <2>6, AppendSeq
    <2>9. cost' \in Nat /\ events \o newEvents \in Seq(EventRec)
      BY <2>2, <2>5, <2>6, ConcatSeq
    <2>10. NextStepPost
      BY <2>6, <2>9, NextStepType
    <2> HIDE DEF newSteps, newParts, newEvents
    <2> QED BY <2>6, <2>7, <2>8, <2>9, <2>10, AgentAssumption, SMTT(30) DEF limits, NextStepPost
  <1>8. ASSUME NEW e \in {"timeout", "exception"}, Fail(e), calls' \in Seq(Call)
        PROVE  TypeOK'
    <2>1. Note("error", Len(steps)) \in EventRec
      BY DEF Note, Event
    <2>2. events' \in Seq(EventRec)
      BY <1>8, <2>1, AppendSeq DEF Fail
    <2> QED BY <1>8, <2>2 DEF Fail, limits, record
  <1>9. CASE LLMError
    BY <1>8, <1>9 DEF LLMError
  <1>10. CASE ToolsRaised
    BY <1>8, <1>10 DEF ToolsRaised
  <1>11. CASE Timeout
    <2>1. \A i \in DOMAIN calls : Cancelled(calls[i]) \in Call
      BY <1>0, AttemptType
    <2>2. [i \in DOMAIN calls |-> Cancelled(calls[i])] \in Seq(Call)
      BY <1>0, <2>1, MapIsSeq
    <2> QED BY <1>8, <1>11, <2>2 DEF Timeout
  <1>12. CASE UNCHANGED vars
    BY <1>12 DEF vars
  <1>13. ASSUME NEW c \in Costs, NEW blocks \in Responses, NEW k \in DOMAIN blocks,
                CallsUnread(c, blocks, k)
         PROVE  TypeOK'
    <2> DEFINE v == UnreadEvents(blocks, k)
               m == [role |-> "assistant", blocks |-> [i \in DOMAIN blocks |-> blocks[i].tool]]
               e == Note("error", Len(steps))
    <2>1. /\ phase' = "done" /\ outcome' = "exception" /\ reply' = c
          /\ UNCHANGED <<maxSteps, maxCost, step, chunks, calls, steps, cost, hashParts>>
          /\ v \in Seq(EventRec) /\ e \in EventRec /\ m \in Message
          /\ events' = Append(events \o v, e) /\ messages' = Append(messages, m)
      BY <1>13, UnreadFacts
    <2> HIDE DEF v, m, e
    <2>2. events \o v \in Seq(EventRec)
      BY <2>1, ConcatSeq
    <2>3. events' \in Seq(EventRec) /\ messages' \in Seq(Message)
      BY <2>1, <2>2, AppendSeq
    <2> QED BY <2>1, <2>3
  <1> QED
    BY <1>1, <1>2, <1>3, <1>4, <1>5, <1>6, <1>7, <1>9, <1>10, <1>11, <1>12, <1>13
    DEF Next, Finished

\* The locals of run_task keep their types, whatever the model answers and in
\* whatever order the tools end.
THEOREM TypeCorrect == Spec => []TypeOK
  BY InitType, StepType, PTL DEF Spec

-----------------------------------------------------------------------------
(***************************************************************************)
(* The inductive invariant                                                 *)
(***************************************************************************)

\* The counters of the loop, phase by phase.
CountersInv ==
    /\ phase = "idle" => step = 0 /\ cost = 0 /\ reply = 0 /\ steps = <<>>
    /\ phase \in {"llm", "tools"} => step \in 1..maxSteps
    /\ phase = "llm" => reply = 0
    /\ phase = "tools" => reply \in Costs
    /\ step > 0 => step <= maxSteps

\* What each state of a call says of its attempts.
AttemptsInv ==
    \A i \in DOMAIN calls :
      /\ calls[i].st = "new" => calls[i].tries = 0
      /\ calls[i].st = "asleep" => calls[i].tries <= MaxToolRetries
      /\ calls[i].tries <= MaxToolRetries + 1
      /\ calls[i].st = "failed" => calls[i].tries = MaxToolRetries + 1

\* Where calls can be found.
CallsInv ==
    /\ phase \in {"idle", "llm"} => calls = <<>>
    /\ outcome \in {"complete", "max_steps_exceeded", "cost_exceeded"} => calls = <<>>

LoopInv ==
    /\ TypeOK
    /\ CountersInv
    /\ AttemptsInv
    /\ CallsInv
    /\ BudgetKept
    /\ StepsKept
    /\ NoStrayCalls
    /\ OneTerminalEvent

\* Fails, however it happens, only writes the outcome, the phase, the events
\* and the calls.
LEMMA FailSteps ==
    /\ LLMError => phase = "llm" /\ Fail("exception") /\ calls' = calls
    /\ ToolsRaised => phase = "tools" /\ Raised /\ Fail("exception") /\ calls' = calls
    /\ Timeout => /\ phase \in {"llm", "tools"} /\ Fail("timeout")
                  /\ calls' = IF Raised THEN calls
                              ELSE [i \in DOMAIN calls |-> Cancelled(calls[i])]
  BY DEF LLMError, ToolsRaised, Timeout, Raised

\* The steps of a call touch nothing but the calls.
LEMMA CallSteps ==
    ASSUME NEW i, StartAttempt(i) \/ EndAttempt(i)
    PROVE  UNCHANGED <<maxSteps, maxCost, phase, step, chunks, reply, steps, cost,
                       hashParts, messages, events, outcome>>
  BY DEF StartAttempt, EndAttempt, limits, record

\* The counters.
LEMMA CountersStep == TypeOK /\ CountersInv /\ [Next]_vars => CountersInv'
  <1> SUFFICES ASSUME TypeOK, CountersInv, [Next]_vars PROVE CountersInv'
    OBVIOUS
  <1> USE DEF CountersInv
  <1>0. /\ step \in Nat /\ cost \in Nat /\ maxSteps \in Int
        /\ phase \in {"idle", "llm", "tools", "done"}
    BY DEF TypeOK
  <1>1. CASE Start
    BY <1>0, <1>1, AgentAssumption DEF Start, NextStep, Guard, limits, record
  <1>2. CASE Chunk
    BY <1>2 DEF Chunk, limits, record
  <1>3. ASSUME NEW c \in Costs, Answer(c) PROVE CountersInv'
    BY <1>0, <1>3 DEF Answer, limits
  <1>4. ASSUME NEW c \in Costs, NEW blocks \in Responses, CallTools(c, blocks)
        PROVE  CountersInv'
    BY <1>4 DEF CallTools, limits
  <1>5. ASSUME NEW i \in DOMAIN calls, StartAttempt(i) \/ EndAttempt(i)
        PROVE  CountersInv'
    BY <1>5, CallSteps
  <1>6. CASE Collect
    <2>1. step \in 1..maxSteps /\ \E evs : NextStep(step, cost', evs)
      BY <1>6 DEF Collect
    <2>2. PICK evs : NextStep(step, cost', evs)
      BY <2>1
    <2> QED BY <1>0, <1>6, <2>1, <2>2 DEF Collect, NextStep, Guard, limits
  <1>7. ASSUME NEW e, Fail(e), phase \in {"llm", "tools"} PROVE CountersInv'
    BY <1>7 DEF Fail, limits, record
  <1>8. CASE LLMError \/ ToolsRaised \/ Timeout
    BY <1>7, <1>8, FailSteps
  <1>9. CASE UNCHANGED vars
    BY <1>9 DEF vars
  <1>10. ASSUME NEW c \in Costs, NEW blocks \in Responses, NEW k \in DOMAIN blocks,
                CallsUnread(c, blocks, k)
         PROVE  CountersInv'
    BY <1>10 DEF CallsUnread, limits
  <1> QED
    BY <1>1, <1>2, <1>3, <1>4, <1>5, <1>6, <1>8, <1>9, <1>10 DEF Next, Finished

\* The attempts of a call.
LEMMA AttemptsStep == TypeOK /\ AttemptsInv /\ [Next]_vars => AttemptsInv'
  <1> SUFFICES ASSUME TypeOK, AttemptsInv, [Next]_vars PROVE AttemptsInv'
    OBVIOUS
  <1> DEFINE Good(c) == /\ c.st = "new" => c.tries = 0
                        /\ c.st = "asleep" => c.tries <= MaxToolRetries
                        /\ c.tries <= MaxToolRetries + 1
                        /\ c.st = "failed" => c.tries = MaxToolRetries + 1
  <1>0. /\ DOMAIN calls = 1..Len(calls) /\ Len(calls) \in Nat
        /\ \A i \in DOMAIN calls : calls[i] \in Call /\ Good(calls[i])
    BY CallFacts DEF AttemptsInv
  <1>1. CASE UNCHANGED calls
    BY <1>1 DEF AttemptsInv
  <1>2. ASSUME NEW c \in Costs, NEW blocks \in Responses, CallTools(c, blocks)
        PROVE  AttemptsInv'
    BY <1>2, AgentAssumption DEF CallTools, AttemptsInv
  <1>3. ASSUME NEW i \in DOMAIN calls, NEW d, Good(d), calls' = [calls EXCEPT ![i] = d]
        PROVE  AttemptsInv'
    BY <1>0, <1>3 DEF AttemptsInv
  <1>4. ASSUME NEW c \in Call, Good(c), c.st = "running" PROVE Good(AfterFailure(c))
    BY <1>4, AgentAssumption DEF AfterFailure, Call
  <1>5. ASSUME NEW c \in Call, Good(c), c.st \in {"new", "asleep"} PROVE Good(Attempt(c))
    BY <1>5, AgentAssumption DEF Attempt, Dispatched, AfterFailure, Call
  <1>6. ASSUME NEW i \in DOMAIN calls, StartAttempt(i) PROVE AttemptsInv'
    <2>1. Good(Attempt(calls[i]))
      BY <1>0, <1>5, <1>6 DEF StartAttempt
    <2> QED BY <1>3, <1>6, <2>1 DEF StartAttempt
  <1>7. ASSUME NEW i \in DOMAIN calls, EndAttempt(i) PROVE AttemptsInv'
    <2>1. calls[i] \in Call /\ calls[i].st = "running"
      BY <1>0, <1>7 DEF EndAttempt
    <2>2. Good(AfterFailure(calls[i])) /\ Good([calls[i] EXCEPT !.st = "ok"])
      BY <1>0, <1>4, <2>1 DEF Call
    <2>3. \E d : Good(d) /\ calls' = [calls EXCEPT ![i] = d]
      BY <1>7, <2>2 DEF EndAttempt
    <2> QED BY <1>3, <2>3
  <1>8. CASE Collect
    BY <1>8 DEF Collect, AttemptsInv
  <1>9. CASE Timeout
    <2>1. \A i \in DOMAIN calls : Good(Cancelled(calls[i]))
      BY <1>0 DEF Cancelled, Call
    <2> QED BY <1>1, <1>9, <2>1 DEF Timeout, AttemptsInv
  <1>10. CASE Start \/ Chunk \/ LLMError \/ ToolsRaised \/ \E c \in Costs : Answer(c)
    BY <1>1, <1>10 DEF Start, Chunk, LLMError, ToolsRaised, Answer
  <1>11. ASSUME NEW c \in Costs, NEW blocks \in Responses, NEW k \in DOMAIN blocks,
                CallsUnread(c, blocks, k)
         PROVE  AttemptsInv'
    BY <1>1, <1>11 DEF CallsUnread
  <1> QED
    BY <1>1, <1>2, <1>6, <1>7, <1>8, <1>9, <1>10, <1>11 DEF Next, Finished, vars

\* Where calls can be found.
LEMMA CallsStep == TypeOK /\ CallsInv /\ [Next]_vars => CallsInv'
  <1> SUFFICES ASSUME TypeOK, CallsInv, [Next]_vars PROVE CallsInv'
    OBVIOUS
  <1> USE DEF CallsInv
  <1>0. (phase = "idle") = (outcome = "idle") /\ (phase = "done") = Over
    BY DEF TypeOK
  <1>1. CASE Start
    BY <1>0, <1>1 DEF Start
  <1>2. CASE Chunk
    BY <1>2 DEF Chunk
  <1>3. ASSUME NEW c \in Costs, Answer(c) PROVE CallsInv'
    BY <1>3 DEF Answer
  <1>4. ASSUME NEW c \in Costs, NEW blocks \in Responses, CallTools(c, blocks)
        PROVE  CallsInv'
    BY <1>0, <1>4 DEF CallTools, Over
  <1>5. ASSUME NEW i \in DOMAIN calls, StartAttempt(i) \/ EndAttempt(i)
        PROVE  CallsInv'
    <2>1. calls # <<>>
      OBVIOUS
    <2> QED BY <1>5, <2>1, CallSteps
  <1>6. CASE Collect
    BY <1>6 DEF Collect
  <1>7. CASE LLMError \/ ToolsRaised \/ Timeout
    BY <1>7, FailSteps DEF Fail
  <1>8. CASE UNCHANGED vars
    BY <1>8 DEF vars
  <1>9. ASSUME NEW c \in Costs, NEW blocks \in Responses, NEW k \in DOMAIN blocks,
               CallsUnread(c, blocks, k)
        PROVE  CallsInv'
    BY <1>9 DEF CallsUnread
  <1> QED
    BY <1>1, <1>2, <1>3, <1>4, <1>5, <1>6, <1>7, <1>8, <1>9 DEF Next, Finished

\* The cost guard.
LEMMA BudgetStep == TypeOK /\ CountersInv /\ BudgetKept /\ [Next]_vars => BudgetKept'
  <1> SUFFICES ASSUME TypeOK, CountersInv, BudgetKept, [Next]_vars PROVE BudgetKept'
    OBVIOUS
  <1> USE DEF BudgetKept
  <1>0. /\ cost \in Nat /\ reply \in Nat /\ maxCost \in Int /\ Costs \subseteq Nat
        /\ phase \in {"llm", "tools"} => outcome = "running"
    BY AgentAssumption DEF TypeOK, Over
  <1>1. CASE Start
    BY <1>0, <1>1 DEF Start, NextStep, Guard, CountersInv, limits, record
  <1>2. CASE Chunk
    BY <1>2 DEF Chunk, limits, record
  <1>3. ASSUME NEW c \in Costs, Answer(c) PROVE BudgetKept'
    BY <1>0, <1>3 DEF Answer, CountersInv, limits
  <1>4. ASSUME NEW c \in Costs, NEW blocks \in Responses, CallTools(c, blocks)
        PROVE  BudgetKept'
    <2>1. cost < maxCost /\ cost + c - c < maxCost
      BY <1>0, <1>4 DEF CallTools
    <2> QED BY <1>4, <2>1 DEF CallTools, limits
  <1>5. ASSUME NEW i \in DOMAIN calls, StartAttempt(i) \/ EndAttempt(i)
        PROVE  BudgetKept'
    BY <1>5, CallSteps
  <1>6. CASE Collect
    <2>1. cost' = cost + reply /\ reply' = 0 /\ maxCost' = maxCost
      BY <1>6 DEF Collect, NextStep, limits
    <2>2. PICK evs : NextStep(step, cost', evs)
      BY <1>6 DEF Collect
    <2>3. outcome' = "running" => ~(cost' >= maxCost)
      BY <2>2 DEF NextStep, Guard
    <2> QED BY <1>0, <2>1, <2>3
  <1>7. CASE LLMError \/ ToolsRaised \/ Timeout
    BY <1>7, FailSteps DEF Fail, limits, record
  <1>8. CASE UNCHANGED vars
    BY <1>8 DEF vars
  <1>9. ASSUME NEW c \in Costs, NEW blocks \in Responses, NEW k \in DOMAIN blocks,
               CallsUnread(c, blocks, k)
        PROVE  BudgetKept'
    <2>1. cost < maxCost /\ cost + c - c < maxCost
      BY <1>0, <1>9 DEF CallsUnread
    <2> QED BY <1>9, <2>1 DEF CallsUnread, limits
  <1> QED
    BY <1>1, <1>2, <1>3, <1>4, <1>5, <1>6, <1>7, <1>8, <1>9 DEF Next, Finished

\* The step guard.
LEMMA StepsStep == TypeOK /\ CountersInv /\ StepsKept /\ [Next]_vars => StepsKept'
  <1> SUFFICES ASSUME TypeOK, CountersInv, StepsKept, [Next]_vars PROVE StepsKept'
    OBVIOUS
  <1>0. /\ step \in Nat /\ maxSteps \in Int /\ steps \in Seq(StepRecord)
        /\ DOMAIN steps = 1..Len(steps) /\ Len(steps) \in Nat
    BY DEF TypeOK, StepRecord
  <1>1. ASSUME UNCHANGED steps, step' \in Nat, step' >= step, step' > 0 => step' <= maxSteps',
               \A i \in DOMAIN steps : steps[i].step \in Nat
        PROVE  StepsKept'
    BY <1>0, <1>1 DEF StepsKept
  <1>2. CountersInv' /\ step' \in Nat
    BY CountersStep, StepType DEF TypeOK
  <1>3. \A i \in DOMAIN steps : steps[i].step \in Nat
    <2>1. \A i \in DOMAIN steps : steps[i] \in StepRecord
      BY <1>0
    <2> QED BY <2>1 DEF StepRecord
  <1>4. CASE Start
    BY <1>0, <1>1, <1>2, <1>3, <1>4 DEF Start, NextStep, CountersInv, record
  <1>5. ASSUME UNCHANGED <<steps, step>> PROVE StepsKept'
    BY <1>0, <1>1, <1>2, <1>3, <1>5 DEF CountersInv
  <1>6. ASSUME NEW c \in Costs, Answer(c) PROVE StepsKept'
    <2>1. StepResult(step, NoTool, c) \in StepRecord /\ step \in Nat \ {0}
      BY <1>0, <1>6, AgentAssumption DEF StepResult, StepRecord, Answer, CountersInv
    <2>2. steps' = Append(steps, StepResult(step, NoTool, c)) /\ step' = step
      BY <1>6 DEF Answer
    <2>3. steps'[Len(steps) + 1].step = step
      BY <1>0, <2>1, <2>2, AppendSeq DEF StepResult
    <2>4. /\ DOMAIN steps' = 1..(Len(steps) + 1)
          /\ \A i \in 1..Len(steps) : steps'[i] = steps[i]
      BY <1>0, <2>1, <2>2, AppendSeq
    <2> QED BY <1>0, <1>2, <1>3, <2>1, <2>2, <2>3, <2>4 DEF StepsKept, CountersInv
  <1>7. CASE Collect
    <2> DEFINE new == [i \in DOMAIN Results |-> StepResult(step, Results[i].tool, CostOf(i))]
    <2>1. /\ Len(calls) \in Nat /\ DOMAIN Results = 1..Len(calls)
          /\ \A i \in 1..Len(calls) : Results[i].tool \in Tools
      BY CallFacts DEF Results, Call
    <2>2. \A i \in 1..Len(calls) : StepResult(step, Results[i].tool, CostOf(i)) \in StepRecord
      BY <1>0, <2>1, AgentAssumption DEF StepResult, StepRecord, CostOf, TypeOK
    <2>3. new \in Seq(StepRecord) /\ Len(new) = Len(calls)
      BY <2>1, <2>2, MapIsSeq
    <2>4. \A i \in 1..Len(new) : new[i].step = step
      BY <2>1, <2>3 DEF StepResult
    <2>5. steps' = steps \o new /\ step \in 1..maxSteps /\ step' \in {step, step + 1}
      BY <1>7 DEF Collect, NextStep, CountersInv
    <2> HIDE DEF new
    <2>6. /\ steps \o new \in Seq(StepRecord)
          /\ Len(steps \o new) = Len(steps) + Len(new)
          /\ \A i \in 1..Len(steps) : (steps \o new)[i] = steps[i]
          /\ \A i \in Len(steps) + 1 .. Len(steps) + Len(new) :
               (steps \o new)[i] = new[i - Len(steps)]
      <3>1. steps \in Seq(StepRecord)
        BY <1>0
      <3> QED BY <2>3, <3>1, ConcatSeq
    <2>7. DOMAIN steps' = 1..(Len(steps) + Len(new)) /\ Len(new) \in Nat
      BY <2>1, <2>3, <2>5, <2>6
    <2>8. \A i \in DOMAIN steps' : i <= Len(steps) => steps'[i] = steps[i]
      BY <1>0, <2>5, <2>6, <2>7
    <2>9. ASSUME NEW i \in DOMAIN steps', i > Len(steps) PROVE steps'[i].step = step
      <3>1. i - Len(steps) \in 1..Len(new) /\ steps'[i] = new[i - Len(steps)]
        BY <1>0, <2>5, <2>6, <2>7, <2>9
      <3> QED BY <2>4, <3>1
    <2>10. \A i \in DOMAIN steps : steps[i].step \in 1..step
      BY DEF StepsKept
    <2>11. \A i \in DOMAIN steps' : steps'[i].step \in 1..step
      BY <1>0, <2>5, <2>7, <2>8, <2>9, <2>10
    <2>12. ASSUME NEW i \in DOMAIN steps', NEW j \in DOMAIN steps', i < j
           PROVE  steps'[i].step <= steps'[j].step
      <3>1. CASE j <= Len(steps)
        BY <1>0, <2>7, <2>8, <2>12, <3>1 DEF StepsKept
      <3>2. CASE j > Len(steps)
        BY <1>0, <2>9, <2>11, <3>2
      <3> QED BY <1>0, <2>7, <3>1, <3>2
    <2> QED BY <1>0, <1>2, <2>5, <2>11, <2>12, SMTT(30) DEF StepsKept, CountersInv
  <1>8. CASE \/ Chunk \/ LLMError \/ ToolsRaised \/ Timeout
             \/ \E i \in DOMAIN calls : StartAttempt(i) \/ EndAttempt(i)
             \/ \E c \in Costs, blocks \in Responses : CallTools(c, blocks)
             \/ \E c \in Costs, blocks \in Responses : \E k \in DOMAIN blocks : CallsUnread(c, blocks, k)
             \/ UNCHANGED vars
    BY <1>5, <1>8, CallSteps, FailSteps DEF Chunk, CallTools, CallsUnread, Fail, record, vars
  <1> QED
    BY <1>4, <1>6, <1>7, <1>8 DEF Next, Finished

\* Calls that outlive the task.
LEMMA StrayStep ==
    TypeOK /\ CallsInv /\ NoStrayCalls /\ [Next]_vars => NoStrayCalls'
  <1> SUFFICES ASSUME TypeOK, CallsInv, NoStrayCalls, [Next]_vars PROVE NoStrayCalls'
    OBVIOUS
  <1>0. /\ DOMAIN calls = 1..Len(calls) /\ Len(calls) \in Nat
        /\ \A i \in DOMAIN calls : calls[i] \in Call
        /\ (phase = "idle") = (outcome = "idle") /\ (phase = "done") = Over
    BY CallFacts DEF TypeOK
  <1>1. CASE calls' = <<>>
    BY <1>1 DEF NoStrayCalls
  <1>2. CASE ~Over'
    BY <1>2 DEF NoStrayCalls
  <1>3. CASE UNCHANGED <<calls, outcome>>
    BY <1>3 DEF NoStrayCalls, Over, Raised
  <1>4. CASE Start
    BY <1>0, <1>1, <1>4 DEF Start, CallsInv
  <1>5. ASSUME NEW c \in Costs, Answer(c) PROVE NoStrayCalls'
    BY <1>1, <1>5 DEF Answer, CallsInv
  <1>6. ASSUME NEW c \in Costs, NEW blocks \in Responses, CallTools(c, blocks)
        PROVE  NoStrayCalls'
    BY <1>0, <1>2, <1>6 DEF CallTools, Over
  <1>7. ASSUME NEW i \in DOMAIN calls, StartAttempt(i) \/ EndAttempt(i)
        PROVE  NoStrayCalls'
    <2>1. /\ calls[i].st \in Alive
          /\ \E c : calls' = [calls EXCEPT ![i] = c]
          /\ outcome' = outcome
      BY <1>7 DEF StartAttempt, EndAttempt, Alive
    <2>2. \A j \in DOMAIN calls : calls[j].st = "raised" => calls'[j].st = "raised"
      BY <1>0, <2>1 DEF Alive
    <2>3. DOMAIN calls' = DOMAIN calls
      BY <1>0, <2>1
    <2>4. Over' = Over /\ (Raised => Raised')
      BY <2>1, <2>2, <2>3 DEF Over, Raised
    <2> QED BY <2>1, <2>4 DEF NoStrayCalls
  <1>8. CASE LLMError \/ ToolsRaised
    <2>1. CASE LLMError
      BY <1>1, <2>1 DEF LLMError, CallsInv
    <2>2. CASE ToolsRaised
      BY <2>2 DEF ToolsRaised, Fail, NoStrayCalls, Raised
    <2> QED BY <1>8, <2>1, <2>2
  <1>9. CASE Timeout
    <2>1. outcome' = "timeout"
      BY <1>9 DEF Timeout, Fail
    <2>2. CASE Raised
      BY <1>9, <2>1, <2>2 DEF Timeout, NoStrayCalls, Raised
    <2>3. CASE ~Raised
      <3>1. calls' = [i \in DOMAIN calls |-> Cancelled(calls[i])]
        BY <1>9, <2>3 DEF Timeout
      <3>2. \A i \in DOMAIN calls : Cancelled(calls[i]).st \notin Alive
        BY <1>0 DEF Cancelled, Alive, Call
      <3> QED BY <3>1, <3>2 DEF NoStrayCalls
    <2> QED BY <2>2, <2>3
  <1>10. CASE Collect \/ Chunk \/ UNCHANGED vars
    BY <1>1, <1>3, <1>10 DEF Collect, Chunk, vars
  <1>11. ASSUME NEW c \in Costs, NEW blocks \in Responses, NEW k \in DOMAIN blocks,
                CallsUnread(c, blocks, k)
         PROVE  NoStrayCalls'
    BY <1>1, <1>11 DEF CallsUnread, CallsInv
  <1> QED
    BY <1>4, <1>5, <1>6, <1>7, <1>8, <1>9, <1>10, <1>11 DEF Next, Finished

\* The event stream.  One more event at its end, terminal exactly when the step
\* ends the task, keeps the property.
LEMMA OneMoreEvent ==
    ASSUME TypeOK, OneTerminalEvent, ~Over, NEW evs \in Seq(EventRec),
           NEW e \in EventRec,
           events' = Append(evs, e),
           \A i \in DOMAIN evs : ~Terminal(evs[i]),
           Terminal(e) <=> Over', e.kind = "complete" => outcome' = "complete"
    PROVE  OneTerminalEvent'
  <1>1. /\ Len(evs) \in Nat /\ DOMAIN evs = 1..Len(evs)
        /\ DOMAIN events' = 1..(Len(evs) + 1) /\ Len(events') = Len(evs) + 1
        /\ \A i \in 1..Len(evs) : events'[i] = evs[i]
        /\ events'[Len(evs) + 1] = e
    BY AppendSeq
  <1>2. ASSUME NEW i \in DOMAIN events', i <= Len(evs)
        PROVE  ~Terminal(events'[i]) /\ i # Len(events')
    BY <1>1, <1>2
  <1>3. ASSUME NEW i \in DOMAIN events', i > Len(evs)
        PROVE  i = Len(events') /\ events'[i] = e
    BY <1>1, <1>3
  <1>4. \A i \in DOMAIN events' : i <= Len(evs) \/ i > Len(evs)
    BY <1>1
  <1> QED BY <1>2, <1>3, <1>4 DEF OneTerminalEvent, Terminal

\* Events that are not terminal, followed by more of them.
LEMMA QuietConcat ==
    ASSUME NEW s \in Seq(EventRec), NEW t \in Seq(EventRec),
           \A i \in DOMAIN s : ~Terminal(s[i]),
           \A i \in DOMAIN t : ~Terminal(t[i])
    PROVE  /\ s \o t \in Seq(EventRec)
           /\ \A i \in DOMAIN (s \o t) : ~Terminal((s \o t)[i])
  <1>1. /\ s \o t \in Seq(EventRec)
        /\ Len(s \o t) = Len(s) + Len(t)
        /\ \A i \in 1..Len(s) : (s \o t)[i] = s[i]
        /\ \A i \in Len(s) + 1 .. Len(s) + Len(t) : (s \o t)[i] = t[i - Len(s)]
    BY ConcatSeq
  <1>2. /\ Len(s) \in Nat /\ Len(t) \in Nat
        /\ DOMAIN s = 1..Len(s) /\ DOMAIN t = 1..Len(t)
        /\ DOMAIN (s \o t) = 1..(Len(s) + Len(t))
    BY <1>1
  <1>3. ASSUME NEW i \in DOMAIN (s \o t) PROVE ~Terminal((s \o t)[i])
    <2>1. CASE i <= Len(s)
      BY <1>1, <1>2, <2>1
    <2>2. CASE i > Len(s)
      <3>1. i - Len(s) \in DOMAIN t /\ (s \o t)[i] = t[i - Len(s)]
        BY <1>1, <1>2, <2>2
      <3> QED BY <3>1
    <2> QED BY <1>2, <2>1, <2>2
  <1> QED BY <1>1, <1>3

\* A step that ends the task appends one terminal event, any other step none.
LEMMA TerminalStep ==
    TypeOK /\ OneTerminalEvent /\ [Next]_vars => OneTerminalEvent'
  <1> SUFFICES ASSUME TypeOK, OneTerminalEvent, [Next]_vars PROVE OneTerminalEvent'
    OBVIOUS
  <1>0. /\ events \in Seq(EventRec) /\ step \in Nat /\ maxSteps \in Int
        /\ (phase = "idle") = (outcome = "idle") /\ (phase = "done") = Over
    BY DEF TypeOK, EventRec
  <1>1. ~Over => \A i \in DOMAIN events : ~Terminal(events[i])
    BY DEF OneTerminalEvent
  <1>2. ASSUME UNCHANGED <<events, outcome>> PROVE OneTerminalEvent'
    BY <1>2 DEF OneTerminalEvent, Over, Terminal
  <1>3. ASSUME NEW n \in Nat, NEW c, NEW evs \in Seq(EventRec), NextStep(n, c, evs),
               ~Over, \A i \in DOMAIN evs : ~Terminal(evs[i])
        PROVE  OneTerminalEvent'
    <2>1. PICK e \in {Note("thinking", n + 1), Note("error", n + 1), Note("error", maxSteps)} :
             /\ events' = Append(evs, e)
             /\ e.kind = "thinking" <=> outcome' = "running"
      <3>1. Guard(n, c) \in {"running", "max_steps_exceeded", "cost_exceeded"}
        BY GuardType
      <3> QED BY <1>3, <3>1 DEF NextStep, Note, Event
    <2>2. e \in EventRec /\ e.kind \in {"thinking", "error"}
      BY <1>0 DEF Note, Event, EventRec
    <2>3. outcome' \in {"running", "max_steps_exceeded", "cost_exceeded"}
      BY <1>3, GuardType DEF NextStep
    <2>4. (Terminal(e) <=> Over') /\ (e.kind = "complete" => outcome' = "complete")
      BY <2>1, <2>2, <2>3 DEF Terminal, Over
    <2> QED BY <1>3, <2>1, <2>2, <2>4, OneMoreEvent
  <1>4. CASE Start
    BY <1>0, <1>1, <1>3, <1>4 DEF Start, Over
  <1>5. CASE Chunk
    <2>1. PICK k \in {"chunk", "thinking_content"} : events' = Append(events, Note(k, step))
      BY <1>5 DEF Chunk
    <2>2. Note(k, step) \in EventRec /\ ~Terminal(Note(k, step)) /\ Note(k, step).kind = k
      BY <1>0 DEF Note, Event, EventRec, Terminal
    <2>3. ~Over /\ ~Over'
      BY <1>0, <1>5 DEF Chunk, Over
    <2> QED BY <1>0, <1>1, <2>1, <2>2, <2>3, OneMoreEvent
  <1>6. ASSUME NEW c \in Costs, Answer(c) PROVE OneTerminalEvent'
    <2>1. Note("complete", step) \in EventRec /\ Terminal(Note("complete", step))
      BY <1>0 DEF Note, Event, EventRec, Terminal
    <2>2. ~Over /\ Over' /\ outcome' = "complete" /\ events' = Append(events, Note("complete", step))
      BY <1>0, <1>6 DEF Answer, Over
    <2> QED BY <1>0, <1>1, <2>1, <2>2, OneMoreEvent
  <1>7. ASSUME NEW c \in Costs, NEW blocks \in Responses, CallTools(c, blocks)
        PROVE  OneTerminalEvent'
    <2> DEFINE new == [i \in DOMAIN blocks |-> Event("tool_call", step, blocks[i].tool)]
    <2>1. PICK n \in 1..MaxCalls : blocks \in [1..n -> Block]
      BY DEF Responses
    <2>2. n \in Nat /\ DOMAIN blocks = 1..n /\ \A i \in 1..n : blocks[i].tool \in Tools
      BY <2>1, AgentAssumption DEF Block
    <2>3. new \in Seq(EventRec) /\ Len(new) = n
      BY <1>0, <2>2, MapIsSeq DEF Event, EventRec
    <2>4. \A i \in 1..n : ~Terminal(new[i])
      BY <2>2 DEF Event, Terminal
    <2>5. events' = events \o new /\ ~Over /\ ~Over'
      BY <1>0, <1>7 DEF CallTools, Over
    <2>6. DOMAIN new = 1..n
      BY <2>2
    <2> HIDE DEF new
    <2>7. \A i \in DOMAIN events' : ~Terminal(events'[i])
      BY <1>0, <1>1, <2>3, <2>4, <2>5, <2>6, QuietConcat
    <2> QED BY <2>5, <2>7 DEF OneTerminalEvent, Terminal
  <1>8. CASE Collect
    <2> DEFINE n == Len(calls)
               new == [i \in DOMAIN Results |-> Event("tool_result", step, Results[i].tool)]
    <2>1. n \in Nat /\ DOMAIN Results = 1..n /\ \A i \in 1..n : Results[i].tool \in Tools
      BY CallFacts DEF Results, Call
    <2>2. new \in Seq(EventRec) /\ Len(new) = n
      BY <1>0, <2>1, MapIsSeq DEF Event, EventRec
    <2>3. \A i \in 1..n : ~Terminal(new[i])
      BY <2>1 DEF Event, Terminal
    <2>4. NextStep(step, cost', events \o new) /\ ~Over
      BY <1>0, <1>8 DEF Collect, Over
    <2>5. DOMAIN new = 1..n
      BY <2>1
    <2> HIDE DEF new
    <2>6. /\ events \o new \in Seq(EventRec)
          /\ \A i \in DOMAIN (events \o new) : ~Terminal((events \o new)[i])
      BY <1>0, <1>1, <2>2, <2>3, <2>4, <2>5, QuietConcat
    <2> QED BY <1>0, <1>3, <2>4, <2>6
  <1>9. CASE LLMError \/ ToolsRaised \/ Timeout
    <2>1. PICK e \in {"timeout", "exception"} : Fail(e) /\ ~Over
      BY <1>0, <1>9, FailSteps DEF Over
    <2>2. /\ Note("error", Len(steps)) \in EventRec
          /\ Terminal(Note("error", Len(steps)))
          /\ Note("error", Len(steps)).kind = "error"
      BY DEF Note, Event, EventRec, Terminal, TypeOK
    <2>3. events' = Append(events, Note("error", Len(steps))) /\ Over'
      BY <2>1 DEF Fail, Over
    <2> QED BY <1>0, <1>1, <2>1, <2>2, <2>3, OneMoreEvent
  <1>10. CASE (\E i \in DOMAIN calls : StartAttempt(i) \/ EndAttempt(i)) \/ UNCHANGED vars
    BY <1>2, <1>10, CallSteps DEF vars
  <1>11. ASSUME NEW c \in Costs, NEW blocks \in Responses, NEW k \in DOMAIN blocks,
                CallsUnread(c, blocks, k)
         PROVE  OneTerminalEvent'
    <2> DEFINE v == UnreadEvents(blocks, k)
               e == Note("error", Len(steps))
    <2>1. /\ phase = "llm" /\ outcome' = "exception"
          /\ v \in Seq(EventRec) /\ Len(v) = k - 1 /\ k - 1 \in Nat
          /\ \A i \in 1..(k - 1) : v[i] = Event("tool_call", step, blocks[i].tool)
          /\ e \in EventRec /\ events' = Append(events \o v, e)
      BY <1>11, UnreadFacts
    <2>2. Terminal(e) /\ e.kind = "error"
      BY DEF Note, Event, Terminal
    <2> HIDE DEF v, e
    <2>3. \A i \in DOMAIN v : ~Terminal(v[i])
      BY <2>1 DEF Event, Terminal
    <2>4. ~Over /\ Over'
      BY <1>0, <2>1 DEF Over
    <2>5. events \o v \in Seq(EventRec) /\ \A i \in DOMAIN (events \o v) : ~Terminal((events \o v)[i])
      BY <1>0, <1>1, <2>1, <2>3, <2>4, QuietConcat
    <2> QED BY <2>1, <2>2, <2>4, <2>5, OneMoreEvent
  <1> QED
    BY <1>4, <1>5, <1>6, <1>7, <1>8, <1>9, <1>10, <1>11 DEF Next, Finished

\* The invariant holds at the start.
LEMMA InitLoopInv == Init => LoopInv
  <1> SUFFICES ASSUME Init PROVE LoopInv
    OBVIOUS
  <1>1. TypeOK
    BY InitType
  <1>2. step = 0 /\ cost = 0 /\ reply = 0 /\ steps = <<>> /\ calls = <<>>
        /\ events = <<>> /\ phase = "idle" /\ outcome = "idle"
    BY DEF Init
  <1>3. CountersInv /\ AttemptsInv /\ CallsInv /\ BudgetKept /\ NoStrayCalls
    BY <1>2 DEF CountersInv, AttemptsInv, CallsInv, BudgetKept, NoStrayCalls, Over
  <1>4. StepsKept /\ OneTerminalEvent
    BY <1>2 DEF StepsKept, OneTerminalEvent
  <1> QED BY <1>1, <1>3, <1>4 DEF LoopInv

\* Every step keeps the invariant.
LEMMA StepLoopInv == LoopInv /\ [Next]_vars => LoopInv'
  BY StepType, CountersStep, AttemptsStep, CallsStep, BudgetStep, StepsStep,
     StrayStep, TerminalStep
  DEF LoopInv

\* The invariant of the whole loop.
THEOREM LoopCorrect == Spec => []LoopInv
  BY InitLoopInv, StepLoopInv, PTL DEF Spec

-----------------------------------------------------------------------------
(***************************************************************************)
(* The properties that follow from it                                      *)
(***************************************************************************)

\* A task overspends by less than one response, for any prices and budget.
THEOREM BudgetTheorem == Spec => []BudgetKept
  <1>1. LoopInv => BudgetKept
    BY DEF LoopInv
  <1> QED BY <1>1, LoopCorrect, PTL

\* The model is called at most max_steps times, and the step results are
\* numbered by those calls in order.
THEOREM StepsTheorem == Spec => []StepsKept
  <1>1. LoopInv => StepsKept
    BY DEF LoopInv
  <1> QED BY <1>1, LoopCorrect, PTL

\* Both limits hold, whatever they are.
THEOREM LimitsTheorem == Spec => []LimitsKept
  <1>1. LoopInv => LimitsKept
    BY DEF LoopInv, LimitsKept
  <1> QED BY <1>1, LoopCorrect, PTL

\* One terminal event, last, and in accord with the result.
THEOREM TerminalEventTheorem == Spec => []OneTerminalEvent
  <1>1. LoopInv => OneTerminalEvent
    BY DEF LoopInv
  <1> QED BY <1>1, LoopCorrect, PTL

\* No call is attempted more often than the retries allow, none is given up
\* before.
THEOREM RetriesTheorem == Spec => []RetriesBounded
  <1>1. LoopInv => RetriesBounded
    BY DEF LoopInv, AttemptsInv, RetriesBounded
  <1> QED BY <1>1, LoopCorrect, PTL

\* Tool calls end with the task that made them, except after a raise.
THEOREM NoStrayCallsTheorem == Spec => []NoStrayCalls
  <1>1. LoopInv => NoStrayCalls
    BY DEF LoopInv
  <1> QED BY <1>1, LoopCorrect, PTL

\* What run_task returned is never changed afterwards.
THEOREM ResultFinalTheorem == Spec => ResultFinal
  <1>1. TypeOK /\ [Next]_vars => [Over => UNCHANGED <<record, events, outcome>>]_vars
    <2> SUFFICES ASSUME TypeOK, Next, Over PROVE UNCHANGED <<record, events, outcome>>
      OBVIOUS
    <2>1. phase = "done"
      BY DEF TypeOK
    <2>2. ASSUME NEW i \in DOMAIN calls, StartAttempt(i) \/ EndAttempt(i)
          PROVE  UNCHANGED <<record, events, outcome>>
      BY <2>2, CallSteps DEF record
    <2>3. ~Start /\ ~Chunk /\ ~Collect /\ ~LLMError /\ ~ToolsRaised /\ ~Timeout
      BY <2>1 DEF Start, Chunk, Collect, LLMError, ToolsRaised, Timeout
    <2>4. /\ \A c \in Costs : ~Answer(c)
          /\ \A c \in Costs, blocks \in Responses : ~CallTools(c, blocks)
          /\ \A c \in Costs, blocks \in Responses : \A k \in DOMAIN blocks : ~CallsUnread(c, blocks, k)
      BY <2>1 DEF Answer, CallTools, CallsUnread
    <2>5. Finished => UNCHANGED <<record, events, outcome>>
      BY DEF Finished, vars, record
    <2> QED BY <2>2, <2>3, <2>4, <2>5 DEF Next
  <1> QED BY <1>1, TypeCorrect, PTL DEF Spec, ResultFinal

-----------------------------------------------------------------------------
(***************************************************************************)
(* The messages                                                            *)
(***************************************************************************)

\* The tools of the calls, in the order of the blocks.
CalledTools == [i \in DOMAIN calls |-> calls[i].tool]

\* HistoryPaired, and what each phase adds to it: while the tools run, the last message
\* is the assistant's and announces them.
PairsInv ==
    /\ HistoryPaired
    /\ phase = "idle" => Len(messages) = 1
    /\ phase = "tools" => /\ Len(messages) % 2 = 0
                          /\ Len(messages) > 0
                          /\ messages[Len(messages)].blocks = CalledTools

\* One more message by whoever's turn it is, a user's with the blocks of the one before.
LEMMA OneMoreMessage ==
    ASSUME TypeOK, HistoryPaired, NEW m \in Message, messages' = Append(messages, m),
           Len(messages) % 2 = 0 => m.role = "user",
           Len(messages) % 2 = 1 => m.role = "assistant",
           Len(messages) % 2 = 0 /\ Len(messages) > 0 => m.blocks = messages[Len(messages)].blocks,
           phase' = "llm" => Len(messages) % 2 = 0
    PROVE  /\ HistoryPaired'
           /\ Len(messages') = Len(messages) + 1
           /\ messages'[Len(messages) + 1] = m
  <1> DEFINE n == Len(messages)
  <1>1. messages \in Seq(Message)
    BY DEF TypeOK, Message
  <1>2. /\ n \in Nat /\ Len(messages') = n + 1 /\ DOMAIN messages' = 1..(n + 1)
        /\ \A i \in 1..n : messages'[i] = messages[i]
        /\ messages'[n + 1] = m /\ DOMAIN messages = 1..n
    BY <1>1, AppendSeq
  <1>3. (n % 2 = 0 /\ (n + 1) % 2 = 1) \/ (n % 2 = 1 /\ (n + 1) % 2 = 0)
    BY <1>2
  <1> HIDE DEF n
  <1>4. ASSUME NEW i \in 1..(n + 1)
        PROVE  messages'[i].role = IF i % 2 = 1 THEN "user" ELSE "assistant"
    <2>1. CASE i = n + 1
      BY <1>2, <1>3, <2>1 DEF n
    <2>2. CASE i # n + 1
      <3>1. i \in 1..n /\ messages'[i] = messages[i]
        BY <1>2, <2>2
      <3> QED BY <1>2, <3>1 DEF HistoryPaired
    <2> QED BY <2>1, <2>2
  <1>5. ASSUME NEW i \in 1..(n + 1), i % 2 = 0, i < n + 1
        PROVE  messages'[i + 1].blocks = messages'[i].blocks
    <2>1. i \in 1..n /\ messages'[i] = messages[i]
      BY <1>2, <1>5
    <2>2. CASE i = n
      BY <1>2, <1>5, <2>1, <2>2 DEF n
    <2>3. CASE i # n
      <3>1. i < n /\ i + 1 \in 1..n /\ messages'[i + 1] = messages[i + 1]
        BY <1>2, <2>1, <2>3
      <3>2. messages[i + 1].blocks = messages[i].blocks
        BY <1>2, <1>5, <2>1, <3>1 DEF HistoryPaired, n
      <3> QED BY <2>1, <3>1, <3>2
    <2> QED BY <2>2, <2>3
  <1>6. phase' = "llm" => Len(messages') % 2 = 1
    BY <1>2, <1>3 DEF n
  <1> QED BY <1>2, <1>4, <1>5, <1>6 DEF HistoryPaired, n

LEMMA InitPairs == Init => PairsInv
  <1> SUFFICES ASSUME Init PROVE PairsInv
    OBVIOUS
  <1>1. messages = <<Opening>> /\ phase = "idle" /\ Opening.role = "user"
    BY DEF Init, Opening
  <1>2. DOMAIN messages = 1..1 /\ Len(messages) = 1 /\ messages[1] = Opening
    BY <1>1
  <1> QED BY <1>1, <1>2 DEF PairsInv, HistoryPaired

\* Every step keeps the pairs.
LEMMA PairsStep == TypeOK /\ PairsInv /\ [Next]_vars => PairsInv'
  <1> SUFFICES ASSUME TypeOK, PairsInv, [Next]_vars PROVE PairsInv'
    OBVIOUS
  <1>0. messages \in Seq(Message) /\ Len(messages) \in Nat
    BY DEF TypeOK, Message
  <1>1. CASE Start
    <2>1. phase' \in {"llm", "done"} /\ messages' = messages /\ Len(messages) = 1
      BY <1>1 DEF Start, NextStep, record, PairsInv
    <2> QED BY <2>1 DEF PairsInv, HistoryPaired
  <1>2. ASSUME UNCHANGED <<messages, calls>>, phase' \in {phase, "done"} PROVE PairsInv'
    BY <1>2 DEF PairsInv, HistoryPaired, CalledTools
  <1>3. ASSUME NEW c \in Costs, Answer(c) PROVE PairsInv'
    BY <1>2, <1>3 DEF Answer
  <1>4. ASSUME NEW c \in Costs, NEW blocks \in Responses, CallTools(c, blocks) PROVE PairsInv'
    <2> DEFINE tools == [i \in DOMAIN blocks |-> blocks[i].tool]
               m == [role |-> "assistant", blocks |-> tools]
    <2>1. PICK n \in 1..MaxCalls : blocks \in [1..n -> Block]
      BY DEF Responses
    <2>2. n \in Nat /\ DOMAIN blocks = 1..n /\ \A i \in 1..n : blocks[i].tool \in Tools
      BY <2>1, AgentAssumption DEF Block
    <2>3. m \in Message
      BY <2>2, MapIsSeq DEF Message
    <2>4. /\ messages' = Append(messages, m) /\ phase = "llm" /\ phase' = "tools"
          /\ calls' = [i \in DOMAIN blocks |->
                        [tool |-> blocks[i].tool, args |-> blocks[i].args,
                         st |-> "new", tries |-> 0]]
      BY <1>4 DEF CallTools
    <2>5. CalledTools' = tools
      BY <2>4 DEF CalledTools
    <2>6. Len(messages) % 2 = 1
      BY <2>4 DEF PairsInv, HistoryPaired
    <2>7. m.role = "assistant" /\ m.blocks = tools
      OBVIOUS
    <2> HIDE DEF m, tools
    <2>8. HistoryPaired' /\ Len(messages') = Len(messages) + 1 /\ messages'[Len(messages) + 1] = m
      BY <2>3, <2>4, <2>6, <2>7, OneMoreMessage DEF PairsInv
    <2>9. Len(messages') % 2 = 0 /\ Len(messages') > 0
      BY <1>0, <2>6, <2>8
    <2> QED BY <2>4, <2>5, <2>7, <2>8, <2>9 DEF PairsInv
  <1>5. CASE Collect
    <2> DEFINE m == [role |-> "user", blocks |-> CalledTools]
    <2>1. Len(calls) \in Nat /\ DOMAIN calls = 1..Len(calls) /\ \A i \in DOMAIN calls : calls[i].tool \in Tools
      BY CallFacts DEF Call
    <2>2. m \in Message
      BY <2>1, MapIsSeq DEF Message, CalledTools
    <2>3. messages' = Append(messages, m) /\ phase = "tools" /\ phase' \in {"llm", "done"}
      BY <1>5 DEF Collect, Results, CalledTools, NextStep
    <2>4. /\ Len(messages) % 2 = 0 /\ m.role = "user"
          /\ m.blocks = messages[Len(messages)].blocks
      BY <2>3 DEF PairsInv
    <2> HIDE DEF m
    <2>5. HistoryPaired'
      BY <2>2, <2>3, <2>4, OneMoreMessage DEF PairsInv
    <2> QED BY <2>3, <2>5 DEF PairsInv
  <1>6. ASSUME NEW i \in DOMAIN calls, StartAttempt(i) \/ EndAttempt(i) PROVE PairsInv'
    <2>1. \A c \in Call : AfterFailure(c).tool = c.tool /\ Attempt(c).tool = c.tool
      BY DEF AfterFailure, Attempt, Dispatched, Call
    <2>2. calls[i] \in Call /\ [calls[i] EXCEPT !.st = "ok"].tool = calls[i].tool
      BY CallFacts DEF Call
    <2>3. \E c : calls' = [calls EXCEPT ![i] = c] /\ c.tool = calls[i].tool
      BY <1>6, <2>1, <2>2 DEF StartAttempt, EndAttempt
    <2>4. CalledTools' = CalledTools
      BY <2>3 DEF CalledTools
    <2> QED BY <1>6, <2>4, CallSteps DEF PairsInv, HistoryPaired
  <1>7. CASE LLMError \/ ToolsRaised \/ Timeout
    <2>1. phase' = "done" /\ messages' = messages
      BY <1>7, FailSteps DEF Fail, record
    <2> QED BY <2>1 DEF PairsInv, HistoryPaired
  <1>8. CASE Chunk \/ UNCHANGED vars
    BY <1>2, <1>8 DEF Chunk, record, vars
  <1>9. ASSUME NEW c \in Costs, NEW blocks \in Responses, NEW k \in DOMAIN blocks,
               CallsUnread(c, blocks, k)
        PROVE  PairsInv'
    <2> DEFINE m == [role |-> "assistant", blocks |-> [i \in DOMAIN blocks |-> blocks[i].tool]]
    <2>1. phase = "llm" /\ phase' = "done" /\ m \in Message /\ messages' = Append(messages, m)
      BY <1>9, UnreadFacts
    <2>2. Len(messages) % 2 = 1 /\ m.role = "assistant"
      BY <2>1 DEF PairsInv, HistoryPaired
    <2> HIDE DEF m
    <2>3. HistoryPaired'
      BY <1>0, <2>1, <2>2, OneMoreMessage DEF PairsInv
    <2> QED BY <2>1, <2>3 DEF PairsInv
  <1> QED BY <1>1, <1>3, <1>4, <1>5, <1>6, <1>7, <1>8, <1>9 DEF Next, Finished

\* However the calls of a response run and end, their results go back in the order of its
\* blocks, one for each, for any number of calls (the two appends of _run_step_loop).
THEOREM HistoryPairedTheorem == Spec => []HistoryPaired
  <1>1. LoopInv /\ PairsInv /\ [Next]_vars => PairsInv'
    BY PairsStep DEF LoopInv
  <1>2. PairsInv => HistoryPaired
    BY DEF PairsInv
  <1> QED BY InitPairs, LoopCorrect, <1>1, <1>2, PTL DEF Spec

-----------------------------------------------------------------------------
(***************************************************************************)
(* The cost                                                                *)
(***************************************************************************)

\* f are the running totals of a list of steps.
Running(f, s) == /\ f \in [0..Len(s) -> Nat]
                 /\ f[0] = 0
                 /\ \A n \in 1..Len(s) : f[n] = f[n - 1] + s[n].cost

\* The steps have running totals, and cost is the last of them.  A response whose tools
\* run has a first call, to put its cost on.
CostInv ==
    /\ \E f : Running(f, steps) /\ f[Len(steps)] = cost
    /\ phase = "tools" => Len(calls) > 0

\* t goes on where s ends, by steps of which the first costs c and the others nothing.
GoesOn(s, t, c) ==
    /\ Len(t) > Len(s)
    /\ \A i \in 1..Len(s) : t[i] = s[i]
    /\ t[Len(s) + 1].cost = c
    /\ \A i \in Len(s) + 2 .. Len(t) : t[i].cost = 0

\* The totals go on with it.
LEMMA TotalsGoOn ==
    ASSUME NEW s \in Seq(StepRecord), NEW t \in Seq(StepRecord), NEW f, Running(f, s),
           NEW c \in Nat, GoesOn(s, t, c)
    PROVE  \E g : Running(g, t) /\ g[Len(t)] = f[Len(s)] + c
  <1> DEFINE L == Len(s)
             M == Len(t)
             g == [n \in 0..M |-> IF n <= L THEN f[n] ELSE f[L] + c]
  <1>1. L \in Nat /\ M \in Nat /\ L < M
    BY DEF GoesOn
  <1>2. /\ f \in [0..L -> Nat] /\ f[0] = 0
        /\ \A n \in 1..L : f[n] = f[n - 1] + t[n].cost
    BY DEF Running, GoesOn
  <1>3. t[L + 1].cost = c /\ \A i \in L + 2 .. M : t[i].cost = 0
    BY DEF GoesOn
  <1> HIDE DEF L, M
  <1>4. /\ \A n \in 0..L : f[n] \in Nat /\ g[n] = f[n]
        /\ \A n \in L + 1 .. M : g[n] = f[L] + c
    BY <1>1, <1>2
  <1>5. g \in [0..M -> Nat] /\ g[0] = 0 /\ g[M] = f[L] + c
    BY <1>1, <1>2, <1>4
  <1> HIDE DEF g
  <1>6. ASSUME NEW n \in 1..M PROVE g[n] = g[n - 1] + t[n].cost
    <2>1. CASE n <= L
      <3>1. n \in 1..L /\ n \in 0..L /\ n - 1 \in 0..L
        BY <1>1, <2>1
      <3> QED BY <1>2, <1>4, <3>1
    <2>2. CASE n = L + 1
      <3>1. n - 1 = L /\ L \in 0..L /\ n \in L + 1 .. M
        BY <1>1, <2>2
      <3> QED BY <1>3, <1>4, <2>2, <3>1
    <2>3. CASE n > L + 1
      <3>1. n \in L + 2 .. M /\ n \in L + 1 .. M /\ n - 1 \in L + 1 .. M /\ L \in 0..L
        BY <1>1, <2>3
      <3>2. f[L] + c \in Nat /\ t[n].cost = 0
        BY <1>3, <1>4, <3>1
      <3> QED BY <1>4, <3>1, <3>2
    <2> QED BY <1>1, <2>1, <2>2, <2>3
  <1>7. Running(g, t)
    BY <1>5, <1>6 DEF Running, M
  <1> QED BY <1>5, <1>7 DEF L, M

LEMMA InitCost == Init => CostInv
  <1> SUFFICES ASSUME Init PROVE CostInv
    OBVIOUS
  <1>1. steps = <<>> /\ cost = 0 /\ phase = "idle" /\ Len(steps) = 0
    BY DEF Init
  <1> DEFINE f == [n \in 0..0 |-> 0]
  <1>2. Running(f, steps) /\ f[Len(steps)] = cost
    BY <1>1 DEF Running
  <1> QED BY <1>1, <1>2 DEF CostInv

\* Every step keeps the totals.
LEMMA CostStep == TypeOK /\ CountersInv /\ CostInv /\ [Next]_vars => CostInv'
  <1> SUFFICES ASSUME TypeOK, CountersInv, CostInv, [Next]_vars PROVE CostInv'
    OBVIOUS
  <1>0. /\ steps \in Seq(StepRecord) /\ cost \in Nat /\ step \in Nat
        /\ calls \in Seq(Call) /\ Len(calls) \in Nat /\ DOMAIN calls = 1..Len(calls)
    BY CallFacts DEF TypeOK, StepRecord
  <1>1. PICK f : Running(f, steps) /\ f[Len(steps)] = cost
    BY DEF CostInv
  <1>2. ASSUME UNCHANGED <<steps, cost>>, phase' = "tools" => Len(calls') > 0 PROVE CostInv'
    BY <1>1, <1>2 DEF CostInv
  <1>3. ASSUME NEW t \in Seq(StepRecord), NEW c \in Nat, steps' = t, cost' = cost + c,
               GoesOn(steps, t, c), phase' # "tools"
        PROVE  CostInv'
    <2>1. \E g : Running(g, t) /\ g[Len(t)] = f[Len(steps)] + c
      BY <1>0, <1>1, <1>3, TotalsGoOn
    <2> QED BY <1>1, <1>3, <2>1 DEF CostInv
  <1>4. ASSUME NEW c \in Costs, Answer(c) PROVE CostInv'
    <2> DEFINE e == StepResult(step, NoTool, c)
    <2>1. e \in StepRecord /\ e.cost = c /\ c \in Nat
      BY <1>0, AgentAssumption DEF StepResult, StepRecord
    <2>2. steps' = Append(steps, e) /\ cost' = cost + c /\ phase' = "done"
      BY <1>4 DEF Answer
    <2> HIDE DEF e
    <2>3. /\ Append(steps, e) \in Seq(StepRecord)
          /\ Len(Append(steps, e)) = Len(steps) + 1
          /\ \A i \in 1..Len(steps) : Append(steps, e)[i] = steps[i]
          /\ Append(steps, e)[Len(steps) + 1] = e
          /\ Len(steps) \in Nat
      BY <1>0, <2>1, AppendSeq
    <2>4. GoesOn(steps, Append(steps, e), c)
      BY <2>1, <2>3 DEF GoesOn
    <2> QED BY <1>3, <2>1, <2>2, <2>3, <2>4
  <1>5. CASE Collect
    <2> DEFINE u == [i \in DOMAIN calls |-> StepResult(step, calls[i].tool, CostOf(i))]
    <2>1. /\ phase = "tools" /\ steps' = steps \o u /\ cost' = cost + reply
          /\ phase' \in {"llm", "done"} /\ Len(calls) > 0
      BY <1>5 DEF Collect, Results, NextStep, CostInv
    <2>2. reply \in Nat
      BY <2>1, AgentAssumption DEF CountersInv
    <2>3. \A i \in 1..Len(calls) : StepResult(step, calls[i].tool, CostOf(i)) \in StepRecord
      <3> TAKE i \in 1..Len(calls)
      <3>1. calls[i].tool \in Tools /\ CostOf(i) \in Nat
        BY <1>0, <2>2, CallFacts DEF Call, CostOf
      <3> QED BY <1>0, <3>1 DEF StepResult, StepRecord
    <2>4. /\ u \in Seq(StepRecord) /\ Len(u) = Len(calls)
          /\ \A i \in 1..Len(calls) : u[i].cost = CostOf(i)
      <3>1. u \in [1..Len(calls) -> StepRecord]
        BY <1>0, <2>3
      <3>2. \A i \in 1..Len(calls) : u[i].cost = CostOf(i)
        BY <1>0 DEF StepResult
      <3> HIDE DEF u
      <3> QED BY <1>0, <3>1, <3>2, MapIsSeq
    <2> HIDE DEF u
    <2>5. /\ steps \o u \in Seq(StepRecord) /\ Len(steps) \in Nat
          /\ Len(steps \o u) = Len(steps) + Len(u)
          /\ \A i \in 1..Len(steps) : (steps \o u)[i] = steps[i]
          /\ \A i \in Len(steps) + 1 .. Len(steps) + Len(u) : (steps \o u)[i] = u[i - Len(steps)]
      <3>1. steps \in Seq(StepRecord) /\ u \in Seq(StepRecord)
        BY <1>0, <2>4
      <3> QED BY <3>1, ConcatSeq
    <2>6. (steps \o u)[Len(steps) + 1].cost = reply
      <3>1. Len(steps) + 1 \in Len(steps) + 1 .. Len(steps) + Len(u)
            /\ Len(steps) + 1 - Len(steps) = 1 /\ 1 \in 1..Len(calls)
        BY <1>0, <2>1, <2>4, <2>5
      <3> QED BY <2>4, <2>5, <3>1 DEF CostOf
    <2>7. ASSUME NEW i \in Len(steps) + 2 .. Len(steps \o u) PROVE (steps \o u)[i].cost = 0
      <3>1. /\ i \in Len(steps) + 1 .. Len(steps) + Len(u)
            /\ i - Len(steps) \in 1..Len(calls) /\ i - Len(steps) # 1
        BY <1>0, <2>4, <2>5
      <3> QED BY <2>4, <2>5, <3>1 DEF CostOf
    <2>8. Len(steps \o u) > Len(steps)
      BY <1>0, <2>1, <2>4, <2>5
    <2>9. GoesOn(steps, steps \o u, reply)
      BY <2>5, <2>6, <2>7, <2>8 DEF GoesOn
    <2>10. steps \o u \in Seq(StepRecord) /\ phase' # "tools"
      BY <2>1, <2>5
    <2> QED BY <1>3, <2>1, <2>2, <2>9, <2>10
  <1>6. ASSUME NEW c \in Costs, NEW blocks \in Responses, CallTools(c, blocks) PROVE CostInv'
    <2>1. PICK n \in 1..MaxCalls : blocks \in [1..n -> Block]
      BY DEF Responses
    <2>2. n \in Nat /\ n > 0 /\ DOMAIN blocks = 1..n
      BY <2>1, AgentAssumption
    <2>3. /\ DOMAIN calls' = 1..n
          /\ \E g : calls' = [i \in 1..n |-> g[i]]
          /\ UNCHANGED <<steps, cost>>
      <3> DEFINE g == [i \in 1..n |-> [tool |-> blocks[i].tool, args |-> blocks[i].args,
                                       st |-> "new", tries |-> 0]]
      <3>1. calls' = g /\ UNCHANGED <<steps, cost>>
        BY <1>6, <2>2 DEF CallTools
      <3>2. g = [i \in 1..n |-> g[i]] /\ DOMAIN g = 1..n
        OBVIOUS
      <3> HIDE DEF g
      <3> QED BY <3>1, <3>2
    <2>4. Len(calls') = n
      BY <2>2, <2>3
    <2> QED BY <1>2, <2>2, <2>3, <2>4
  <1>7. ASSUME NEW i \in DOMAIN calls, StartAttempt(i) \/ EndAttempt(i) PROVE CostInv'
    <2>1. /\ phase' = phase /\ UNCHANGED <<steps, cost>>
          /\ \E c : calls' = [calls EXCEPT ![i] = c]
      BY <1>7, CallSteps DEF StartAttempt, EndAttempt
    <2>2. Len(calls') > 0
      <3>1. DOMAIN calls' = 1..Len(calls) /\ i \in 1..Len(calls)
        BY <1>0, <2>1
      <3>2. Len(calls') = Len(calls)
        BY <1>0, <2>1
      <3> QED BY <1>0, <3>1, <3>2
    <2> QED BY <1>2, <2>1, <2>2
  <1>8. CASE LLMError \/ ToolsRaised \/ Timeout
    <2>1. phase' = "done" /\ UNCHANGED <<steps, cost>>
      BY <1>8, FailSteps DEF Fail, record
    <2> QED BY <1>2, <2>1
  <1>9. CASE Start \/ Chunk
    BY <1>2, <1>9 DEF Start, NextStep, Chunk, record
  <1>10. CASE UNCHANGED vars
    BY <1>2, <1>10 DEF vars, record, CostInv
  <1>11. ASSUME NEW c \in Costs, NEW blocks \in Responses, NEW k \in DOMAIN blocks,
                CallsUnread(c, blocks, k)
         PROVE  CostInv'
    BY <1>2, <1>11 DEF CallsUnread
  <1> QED BY <1>4, <1>5, <1>6, <1>7, <1>8, <1>9, <1>10, <1>11 DEF Next, Finished

\* A set of naturals that is not empty has a least member.
LEMMA LeastPlace ==
    ASSUME NEW S \in SUBSET Nat, S # {} PROVE \E m \in S : \A k \in S : m <= k
  <1> DEFINE R == OpToRel(<, Nat)
  <1>1. \E m \in S : \A k \in S : ~ (<<k, m>> \in R)
    <2>1. IsWellFoundedOn(R, Nat)
      BY NatLessThanWellFounded
    <2> HIDE DEF R
    <2> QED BY <2>1, WFMin
  <1>2. PICK m \in S : \A k \in S : ~ (k < m)
    BY <1>1 DEF OpToRel
  <1>3. \A k \in S : m <= k
    BY <1>2
  <1> QED BY <1>3

\* The sum of CostIsSumOfSteps, for any list of steps.
TotalOf(s) ==
    LET Sum[n \in 0..Len(s)] == IF n = 0 THEN 0 ELSE Sum[n - 1] + s[n].cost
    IN Sum[Len(s)]

\* A list has one list of running totals: were there two, they would differ at a least
\* place, and agree before it.
LEMMA TotalsUnique ==
    ASSUME NEW s \in Seq(StepRecord), NEW f, Running(f, s)
    PROVE  TotalOf(s) = f[Len(s)]
  <1> DEFINE L == Len(s)
             Sum[n \in 0..Len(s)] == IF n = 0 THEN 0 ELSE Sum[n - 1] + s[n].cost
  <1>1. L \in Nat
    OBVIOUS
  <1>2. f = [n \in 0..Len(s) |-> IF n = 0 THEN 0 ELSE f[n - 1] + s[n].cost]
    BY <1>1 DEF Running
  <1>3. Sum = [n \in 0..Len(s) |-> IF n = 0 THEN 0 ELSE Sum[n - 1] + s[n].cost]
    BY <1>2
  <1>31. TotalOf(s) = Sum[L]
    BY DEF TotalOf
  <1> HIDE DEF Sum
  <1>4. /\ \A n \in 0..L : Sum[n] = IF n = 0 THEN 0 ELSE Sum[n - 1] + s[n].cost
        /\ \A n \in 0..L : f[n] = IF n = 0 THEN 0 ELSE f[n - 1] + s[n].cost
    BY <1>2, <1>3
  <1>5. \A n \in 0..L : Sum[n] = f[n]
    <2> DEFINE S == {n \in 0..L : Sum[n] # f[n]}
    <2> SUFFICES ASSUME S # {} PROVE FALSE
      OBVIOUS
    <2>1. PICK m \in S : \A k \in S : m <= k
      <3>1. S \in SUBSET Nat
        OBVIOUS
      <3> HIDE DEF S
      <3> QED BY <3>1, LeastPlace
    <2>2. m \in 0..L /\ m # 0
      BY <1>1, <1>4, <2>1
    <2>3. m - 1 \in 0..L /\ m - 1 \notin S
      BY <1>1, <2>1, <2>2
    <2> QED BY <1>4, <2>1, <2>2, <2>3
  <1> QED BY <1>1, <1>31, <1>5

\* The cost the guard compares and the result reports counts every collected response
\* once, for any prices and any number of calls in a response (CostOf and the sums over
\* steps in _run_step_loop).
THEOREM CostTheorem == Spec => []CostIsSumOfSteps
  <1>1. LoopInv /\ CostInv /\ [Next]_vars => CostInv'
    BY CostStep DEF LoopInv
  <1>2. LoopInv /\ CostInv => CostIsSumOfSteps
    <2> SUFFICES ASSUME LoopInv, CostInv PROVE CostIsSumOfSteps
      OBVIOUS
    <2>1. steps \in Seq(StepRecord)
      BY DEF LoopInv, TypeOK, StepRecord
    <2>2. PICK f : Running(f, steps) /\ f[Len(steps)] = cost
      BY DEF CostInv
    <2> QED BY <2>1, <2>2, TotalsUnique DEF CostIsSumOfSteps, TotalOf
  <1> QED BY InitCost, LoopCorrect, <1>1, <1>2, PTL DEF Spec

-----------------------------------------------------------------------------
(***************************************************************************)
(* The members of a sequence that are in a set                             *)
(***************************************************************************)

\* f are the members of s in S, for each beginning of s.
Choosing(f, s, S) ==
    /\ f \in [0..Len(s) -> Seq(S)]
    /\ f[0] = <<>>
    /\ \A n \in 1..Len(s) : f[n] = IF s[n] \in S THEN Append(f[n - 1], s[n]) ELSE f[n - 1]

\* The beginnings of a list have such members: a shortest one without them would be one
\* longer than one with them.
LEMMA ChoosingExists ==
    ASSUME NEW X, NEW S, NEW s \in Seq(X) PROVE \E f : Choosing(f, s, S)
  <1> DEFINE L == Len(s)
             Upto(f, m) ==
               /\ f \in [0..m -> Seq(S)]
               /\ f[0] = <<>>
               /\ \A n \in 1..m : f[n] = IF s[n] \in S THEN Append(f[n - 1], s[n]) ELSE f[n - 1]
             Bad == {m \in 0..L : ~ \E f : Upto(f, m)}
  <1>1. L \in Nat
    OBVIOUS
  <1>2. Bad = {}
    <2> SUFFICES ASSUME Bad # {} PROVE FALSE
      OBVIOUS
    <2>1. PICK m \in Bad : \A k \in Bad : m <= k
      <3>1. Bad \in SUBSET Nat
        OBVIOUS
      <3> HIDE DEF Bad
      <3> QED BY <3>1, LeastPlace
    <2>2. CASE m = 0
      <3>1. Upto([n \in 0..0 |-> <<>>], 0)
        OBVIOUS
      <3> QED BY <2>1, <2>2, <3>1
    <2>3. CASE m # 0
      <3>1. m - 1 \in 0..L /\ m - 1 \notin Bad /\ m \in 1..L
        <4>1. m \in 0..L
          OBVIOUS
        <4> HIDE DEF Bad, L
        <4>2. m - 1 \in 0..L /\ ~ (m <= m - 1) /\ m \in 1..L
          BY <1>1, <2>3, <4>1
        <4> QED BY <2>1, <4>2
      <3>2. PICK f : Upto(f, m - 1)
        BY <3>1
      <3> DEFINE last == IF s[m] \in S THEN Append(f[m - 1], s[m]) ELSE f[m - 1]
                 g == [n \in 0..m |-> IF n = m THEN last ELSE f[n]]
      <3>3. last \in Seq(S)
        BY <3>1, <3>2
      <3>4. g[m] = last /\ \A n \in 0..(m - 1) : g[n] = f[n]
        BY <3>1
      <3>5. g \in [0..m -> Seq(S)]
        BY <3>1, <3>2, <3>3
      <3>6. g[0] = <<>>
        BY <3>1, <3>2, <3>4
      <3> HIDE DEF g, last
      <3>7. ASSUME NEW n \in 1..m
            PROVE  g[n] = IF s[n] \in S THEN Append(g[n - 1], s[n]) ELSE g[n - 1]
        <4>1. CASE n = m
          <5>1. m - 1 \in 0..(m - 1) /\ g[m - 1] = f[m - 1]
            BY <3>1, <3>4
          <5> QED BY <3>4, <4>1, <5>1 DEF last
        <4>2. CASE n # m
          <5>1. n \in 1..(m - 1) /\ n \in 0..(m - 1) /\ n - 1 \in 0..(m - 1)
            BY <3>1, <4>2
          <5>2. g[n] = f[n] /\ g[n - 1] = f[n - 1]
            BY <3>4, <5>1
          <5> QED BY <3>2, <5>1, <5>2
        <4> QED BY <4>1, <4>2
      <3>8. Upto(g, m)
        BY <3>5, <3>6, <3>7
      <3>9. m \in Bad
        BY <2>1
      <3> QED BY <3>8, <3>9
    <2> QED BY <2>2, <2>3
  <1>3. \E f : Upto(f, L)
    BY <1>1, <1>2
  <1> QED BY <1>3 DEF Choosing

\* There is one list of them, which is what Chosen takes the last of.
LEMMA ChosenIsLast ==
    ASSUME NEW X, NEW S, NEW s \in Seq(X), NEW f, Choosing(f, s, S)
    PROVE  Chosen(s, S) = f[Len(s)] /\ Chosen(s, S) \in Seq(S)
  <1> DEFINE L == Len(s)
             Part[n \in 0..Len(s)] == IF n = 0 THEN <<>>
                                      ELSE IF s[n] \in S THEN Append(Part[n - 1], s[n])
                                      ELSE Part[n - 1]
  <1>1. L \in Nat
    OBVIOUS
  <1>2. f = [n \in 0..Len(s) |-> IF n = 0 THEN <<>>
                                 ELSE IF s[n] \in S THEN Append(f[n - 1], s[n])
                                 ELSE f[n - 1]]
    <2>1. f = [n \in 0..Len(s) |-> f[n]]
      BY DEF Choosing
    <2>2. \A n \in 0..Len(s) : n = 0 \/ n \in 1..Len(s)
      BY <1>1
    <2>3. \A n \in 0..Len(s) : f[n] = IF n = 0 THEN <<>>
                                      ELSE IF s[n] \in S THEN Append(f[n - 1], s[n])
                                      ELSE f[n - 1]
      BY <2>2 DEF Choosing
    <2> QED BY <2>1, <2>3
  <1>3. Part = [n \in 0..Len(s) |-> IF n = 0 THEN <<>>
                                    ELSE IF s[n] \in S THEN Append(Part[n - 1], s[n])
                                    ELSE Part[n - 1]]
    BY <1>2
  <1>4. Chosen(s, S) = Part[L]
    BY DEF Chosen
  <1> HIDE DEF Part
  <1>5. /\ \A n \in 0..L : Part[n] = IF n = 0 THEN <<>>
                                     ELSE IF s[n] \in S THEN Append(Part[n - 1], s[n])
                                     ELSE Part[n - 1]
        /\ \A n \in 0..L : f[n] = IF n = 0 THEN <<>>
                                  ELSE IF s[n] \in S THEN Append(f[n - 1], s[n])
                                  ELSE f[n - 1]
    BY <1>2, <1>3
  <1>6. \A n \in 0..L : Part[n] = f[n]
    <2> DEFINE D == {n \in 0..L : Part[n] # f[n]}
    <2> SUFFICES ASSUME D # {} PROVE FALSE
      OBVIOUS
    <2>1. PICK m \in D : \A k \in D : m <= k
      <3>1. D \in SUBSET Nat
        OBVIOUS
      <3> HIDE DEF D
      <3> QED BY <3>1, LeastPlace
    <2>2. m \in 0..L /\ m # 0
      BY <1>1, <1>5, <2>1
    <2>3. m - 1 \in 0..L /\ m - 1 \notin D
      BY <1>1, <2>1, <2>2
    <2> QED BY <1>5, <2>1, <2>2, <2>3
  <1>7. f[L] \in Seq(S)
    BY <1>1 DEF Choosing
  <1> QED BY <1>1, <1>4, <1>6, <1>7

LEMMA ChosenType ==
    ASSUME NEW X, NEW S, NEW s \in Seq(X) PROVE Chosen(s, S) \in Seq(S)
  BY ChoosingExists, ChosenIsLast

LEMMA ChosenOfNothing ==
    ASSUME NEW S PROVE Chosen(<<>>, S) = <<>>
  <1>1. Choosing([n \in 0..0 |-> <<>>], <<>>, S)
    BY DEF Choosing
  <1>2. <<>> \in Seq(S) /\ Len(<<>>) = 0
    OBVIOUS
  <1> QED BY <1>1, <1>2, ChosenIsLast

\* A list that is followed by one without members of S.
LEMMA NothingMoreChosen ==
    ASSUME NEW X, NEW S, NEW s \in Seq(X), NEW t \in Seq(X),
           \A i \in 1..Len(t) : t[i] \notin S
    PROVE  Chosen(s \o t, S) = Chosen(s, S)
  <1> DEFINE L == Len(s)
             M == Len(s) + Len(t)
  <1>1. PICK f : Choosing(f, s, S)
    BY ChoosingExists
  <1>2. L \in Nat /\ Len(t) \in Nat /\ M \in Nat /\ L <= M
    OBVIOUS
  <1>3. /\ s \o t \in Seq(X) /\ Len(s \o t) = M
        /\ \A i \in 1..L : (s \o t)[i] = s[i]
        /\ \A i \in (L + 1)..M : (s \o t)[i] \notin S
    <2>1. \A i \in (L + 1)..M : i - L \in 1..Len(t)
      BY <1>2
    <2> QED BY <2>1, ConcatSeq
  <1> DEFINE u == s \o t
             g == [n \in 0..M |-> IF n <= L THEN f[n] ELSE f[L]]
  <1>4. /\ f \in [0..L -> Seq(S)] /\ f[0] = <<>>
        /\ \A n \in 1..L : f[n] = IF s[n] \in S THEN Append(f[n - 1], s[n]) ELSE f[n - 1]
    BY <1>1 DEF Choosing
  <1> HIDE DEF L, M, u
  <1>5. /\ \A n \in 0..L : f[n] \in Seq(S) /\ g[n] = f[n]
        /\ \A n \in (L + 1)..M : g[n] = f[L]
        /\ g[M] = f[L]
    BY <1>2, <1>4
  <1>6. g \in [0..M -> Seq(S)] /\ g[0] = <<>>
    BY <1>2, <1>4, <1>5
  <1> HIDE DEF g
  <1>7. ASSUME NEW n \in 1..M
        PROVE  g[n] = IF u[n] \in S THEN Append(g[n - 1], u[n]) ELSE g[n - 1]
    <2>1. CASE n <= L
      <3>1. n \in 1..L /\ n \in 0..L /\ n - 1 \in 0..L
        BY <1>2, <2>1
      <3> QED BY <1>3, <1>4, <1>5, <3>1 DEF u
    <2>2. CASE n > L
      <3>1. n \in (L + 1)..M /\ (n - 1 = L \/ n - 1 \in (L + 1)..M) /\ L \in 0..L
        BY <1>2, <2>2
      <3>2. g[n] = f[L] /\ g[n - 1] = f[L] /\ u[n] \notin S
        BY <1>3, <1>5, <3>1 DEF u
      <3> QED BY <3>2
    <2> QED BY <1>2, <2>1, <2>2
  <1>8. Choosing(g, u, S)
    <2>1. Len(u) = M
      BY <1>3 DEF u
    <2> QED BY <1>6, <1>7, <2>1 DEF Choosing
  <1>9. Chosen(u, S) = g[Len(u)] /\ Chosen(s, S) = f[Len(s)]
    <2>1. u \in Seq(X)
      BY <1>3 DEF u
    <2>2. Chosen(u, S) = g[Len(u)]
      BY <1>8, <2>1, ChosenIsLast
    <2>3. Chosen(s, S) = f[Len(s)]
      BY <1>1, ChosenIsLast
    <2> QED BY <2>2, <2>3
  <1> QED BY <1>3, <1>5, <1>9 DEF u, L

\* One more member of t behind e.
LEMMA OneFurther ==
    ASSUME NEW S, NEW e \in Seq(S), NEW t \in Seq(S), NEW k \in 1..Len(t)
    PROVE  Append(e \o SubSeq(t, 1, k - 1), t[k]) = e \o SubSeq(t, 1, k)
  <1> DEFINE a == SubSeq(t, 1, k - 1)
             x == <<t[k]>>
  <1>1. /\ k - 1 \in 0..Len(t) /\ 1 \in 1..Len(t) /\ k \in 1..Len(t)
        /\ t[k] \in S /\ x \in Seq(S)
    OBVIOUS
  <1>2. a \in Seq(S)
    OBVIOUS
  <1>3. SubSeq(t, 1, k) = a \o x
    BY <1>1, SubSeqRecursiveSecond
  <1> HIDE DEF a
  <1>4. e \o a \in Seq(S)
    BY <1>2, ConcatProperties
  <1>5. Append(e \o a, t[k]) = (e \o a) \o x
    BY <1>1, <1>4, AppendIsConcat
  <1> HIDE DEF x
  <1>6. (e \o a) \o x = e \o (a \o x)
    <2>1. a \in Seq(S) /\ x \in Seq(S) /\ e \in Seq(S)
      BY <1>1, <1>2
    <2> HIDE DEF a
    <2> QED BY <2>1, ConcatAssociative, SMTT(60)
  <1> QED BY <1>3, <1>5, <1>6 DEF a

\* A list that is followed by one of members of S.
LEMMA AllMoreChosen ==
    ASSUME NEW X, NEW S, NEW s \in Seq(X), NEW t \in Seq(X),
           \A i \in 1..Len(t) : t[i] \in S
    PROVE  Chosen(s \o t, S) = Chosen(s, S) \o t
  <1> DEFINE L == Len(s)
             M == Len(s) + Len(t)
  <1>1. PICK f : Choosing(f, s, S)
    BY ChoosingExists
  <1>2. L \in Nat /\ Len(t) \in Nat /\ M \in Nat /\ L <= M
    OBVIOUS
  <1>3. /\ s \o t \in Seq(X) /\ Len(s \o t) = M
        /\ \A i \in 1..L : (s \o t)[i] = s[i]
        /\ \A i \in (L + 1)..M : (s \o t)[i] = t[i - L] /\ i - L \in 1..Len(t)
    <2>1. \A i \in (L + 1)..M : i - L \in 1..Len(t)
      BY <1>2
    <2> QED BY <2>1, ConcatSeq
  <1>4. /\ f \in [0..L -> Seq(S)] /\ f[0] = <<>>
        /\ \A n \in 1..L : f[n] = IF s[n] \in S THEN Append(f[n - 1], s[n]) ELSE f[n - 1]
    BY <1>1 DEF Choosing
  <1>5. t \in Seq(S) /\ \A k \in 0..Len(t) : SubSeq(t, 1, k) \in Seq(S)
    <2>1. t \in Seq(S)
      OBVIOUS
    <2>2. \A k \in 0..Len(t) : 1 \in Int /\ k \in Int /\ \A i \in 1..k : t[i] \in S
      BY <2>1
    <2>3. ASSUME NEW k \in 0..Len(t) PROVE SubSeq(t, 1, k) \in Seq(S)
      BY <2>2, SubSeqProperties, ZenonT(30)
    <2> QED BY <2>1, <2>3
  <1> DEFINE u == s \o t
             end == f[L]
             g == [n \in 0..M |-> IF n <= L THEN f[n] ELSE end \o SubSeq(t, 1, n - L)]
  <1>6. end \in Seq(S)
    <2> DEFINE Y == Seq(S)
    <2>1. f \in [0..L -> Y] /\ L \in 0..L
      BY <1>2, <1>4
    <2> HIDE DEF L, Y
    <2>2. f[L] \in Y
      BY <2>1
    <2> QED BY <2>2 DEF Y
  <1> HIDE DEF L, M, u, end
  <1>7. /\ \A n \in 0..L : f[n] \in Seq(S) /\ g[n] = f[n]
        /\ \A n \in (L + 1)..M : g[n] = end \o SubSeq(t, 1, n - L)
    <2>1. \A n \in 0..L : n \in 0..M /\ n <= L /\ f[n] \in Seq(S)
      BY <1>2, <1>4
    <2>2. \A n \in (L + 1)..M : n \in 0..M /\ ~ (n <= L)
      BY <1>2
    <2> QED BY <2>1, <2>2
  <1>8. \A n \in L..M : g[n] = end \o SubSeq(t, 1, n - L)
    <2>1. g[L] = end
      BY <1>2, <1>7 DEF end
    <2>2. end \o SubSeq(t, 1, L - L) = end
      <3>1. SubSeq(t, 1, 0) = <<>>
        BY SubSeqEmpty
      <3>2. end \o <<>> = end
        BY <1>6, ConcatEmptySeq
      <3>3. L - L = 0
        BY <1>2
      <3> QED BY <3>1, <3>2, <3>3
    <2>3. \A n \in L..M : n = L \/ n \in (L + 1)..M
      BY <1>2
    <2> QED BY <1>7, <2>1, <2>2, <2>3
  <1>9. g \in [0..M -> Seq(S)] /\ g[0] = <<>>
    <2>1. \A n \in 0..M : (IF n <= L THEN f[n] ELSE end \o SubSeq(t, 1, n - L)) \in Seq(S)
      <3> TAKE n \in 0..M
      <3>1. CASE n <= L
        BY <1>2, <1>4, <3>1
      <3>2. CASE ~ (n <= L)
        <4>1. n - L \in 0..Len(t)
          BY <1>2, <3>2 DEF M, L
        <4>2. SubSeq(t, 1, n - L) \in Seq(S)
          BY <1>5, <4>1
        <4> QED BY <1>6, <3>2, <4>2
      <3> QED BY <3>1, <3>2
    <2>2. g[0] = <<>>
      BY <1>2, <1>4
    <2> QED BY <2>1, <2>2
  <1> HIDE DEF g
  <1>10. ASSUME NEW n \in 1..M
         PROVE  g[n] = IF u[n] \in S THEN Append(g[n - 1], u[n]) ELSE g[n - 1]
    <2>1. CASE n <= L
      <3>1. n \in 1..L /\ n \in 0..L /\ n - 1 \in 0..L
        BY <1>2, <2>1
      <3> QED BY <1>3, <1>4, <1>7, <3>1 DEF u
    <2>2. CASE n > L
      <3> DEFINE k == n - L
      <3>1. n \in (L + 1)..M /\ n \in L..M /\ n - 1 \in L..M /\ (n - 1) - L = k - 1
        BY <1>2, <2>2
      <3>2. u[n] = t[k] /\ k \in 1..Len(t) /\ u[n] \in S
        BY <1>3, <3>1 DEF u
      <3>3. g[n] = end \o SubSeq(t, 1, k) /\ g[n - 1] = end \o SubSeq(t, 1, k - 1)
        BY <1>8, <3>1
      <3> HIDE DEF k
      <3>4. Append(end \o SubSeq(t, 1, k - 1), t[k]) = end \o SubSeq(t, 1, k)
        BY <1>5, <1>6, <3>2, OneFurther
      <3> QED BY <3>2, <3>3, <3>4
    <2> QED BY <1>2, <2>1, <2>2
  <1>11. Choosing(g, u, S)
    <2>1. Len(u) = M
      BY <1>3 DEF u
    <2> QED BY <1>9, <1>10, <2>1 DEF Choosing
  <1>12. Chosen(u, S) = g[M] /\ Chosen(s, S) = end
    <2>1. u \in Seq(X) /\ Len(u) = M
      BY <1>3 DEF u
    <2>2. Chosen(u, S) = g[Len(u)]
      BY <1>11, <2>1, ChosenIsLast
    <2>3. Chosen(s, S) = f[Len(s)]
      BY <1>1, ChosenIsLast
    <2> QED BY <2>1, <2>2, <2>3 DEF end, L
  <1>13. g[M] = end \o t
    <2>1. M \in L..M /\ M - L = Len(t)
      BY <1>2 DEF M, L
    <2>2. SubSeq(t, 1, Len(t)) = t
      BY <1>5, SubSeqFull
    <2> QED BY <1>8, <2>1, <2>2
  <1> QED BY <1>12, <1>13 DEF u

-----------------------------------------------------------------------------
(***************************************************************************)
(* The accounts of what was done                                           *)
(***************************************************************************)

\* Where AccountsAgree speaks of the calls announced that are not recorded, this says
\* which ones they are: while the tools run, the calls of the response, in their order.
\* That they open the last message is AnnouncedInv.
AccountsInv ==
    /\ SameCalls(OfKind("tool_result"), ToolSteps)
    /\ Len(OfKind("tool_call")) >= Len(ToolSteps)
    /\ \/ Len(OfKind("tool_call")) = Len(ToolSteps) + Len(calls)
       \/ outcome = "exception" /\ Len(calls) = 0
    /\ \A i \in 1..Len(ToolSteps) :
         /\ OfKind("tool_call")[i].tool = ToolSteps[i].tool
         /\ OfKind("tool_call")[i].step = ToolSteps[i].step
    /\ phase = "tools" =>
         \A i \in 1..Len(calls) :
           /\ OfKind("tool_call")[Len(ToolSteps) + i].tool = calls[i].tool
           /\ OfKind("tool_call")[Len(ToolSteps) + i].step = step
    /\ Len(hashParts) = Len(steps) + 1
    /\ \A i \in 1..Len(steps) : hashParts[i + 1] = steps[i].tool

\* The lists it speaks of.
LEMMA AccountsTypes ==
    ASSUME TypeOK
    PROVE  /\ events \in Seq(EventRec) /\ steps \in Seq(StepRecord)
           /\ hashParts \in Seq(HashPart) /\ step \in Nat
           /\ \A k : OfKind(k) \in Seq(EventsOf(k))
           /\ ToolSteps \in Seq(StepsOfTools)
  <1>1. events \in Seq(EventRec) /\ steps \in Seq(StepRecord) /\ hashParts \in Seq(HashPart) /\ step \in Nat
    BY DEF TypeOK, EventRec, StepRecord, HashPart
  <1>2. ASSUME NEW k PROVE OfKind(k) \in Seq(EventsOf(k))
    BY <1>1, ChosenType DEF OfKind
  <1>3. ToolSteps \in Seq(StepsOfTools)
    BY <1>1, ChosenType DEF ToolSteps
  <1> QED BY <1>1, <1>2, <1>3

\* An event of another kind.
LEMMA OtherEvent ==
    ASSUME NEW evs \in Seq(EventRec), NEW e \in EventRec, NEW k, e.kind # k
    PROVE  Chosen(Append(evs, e), EventsOf(k)) = Chosen(evs, EventsOf(k))
  <1> DEFINE t == <<e>>
  <1>1. t \in Seq(EventRec) /\ Len(t) = 1 /\ \A i \in 1..Len(t) : t[i] \notin EventsOf(k)
    BY DEF EventsOf
  <1>2. Append(evs, e) = evs \o t
    BY AppendIsConcat
  <1> HIDE DEF t
  <1> QED BY <1>1, <1>2, NothingMoreChosen

\* Two lists of the same calls, each with the same calls behind it.
LEMMA SameCallsGoOn ==
    ASSUME NEW A, NEW B, NEW r \in Seq(A), NEW t \in Seq(B), NEW v \in Seq(A), NEW u \in Seq(B),
           SameCalls(r, t), SameCalls(v, u)
    PROVE  SameCalls(r \o v, t \o u)
  <1> DEFINE L == Len(r)
             M == Len(v)
  <1>1. /\ L \in Nat /\ M \in Nat /\ Len(t) = L /\ Len(u) = M
        /\ \A i \in 1..L : r[i].tool = t[i].tool /\ r[i].step = t[i].step
        /\ \A i \in 1..M : v[i].tool = u[i].tool /\ v[i].step = u[i].step
    BY DEF SameCalls
  <1>2. /\ r \o v \in Seq(A) /\ Len(r \o v) = L + M
        /\ \A i \in 1..(L + M) : (r \o v)[i] = IF i <= L THEN r[i] ELSE v[i - L]
    BY ConcatProperties
  <1>3. /\ t \o u \in Seq(B) /\ Len(t \o u) = L + M
        /\ \A i \in 1..(L + M) : (t \o u)[i] = IF i <= L THEN t[i] ELSE u[i - L]
    <2>1. /\ t \o u \in Seq(B) /\ Len(t \o u) = Len(t) + Len(u)
          /\ \A i \in 1..(Len(t) + Len(u)) : (t \o u)[i] = IF i <= Len(t) THEN t[i] ELSE u[i - Len(t)]
      BY ConcatProperties
    <2>2. Len(t) = L /\ Len(u) = M
      BY <1>1
    <2> HIDE DEF L, M
    <2> QED BY <2>1, <2>2
  <1> HIDE DEF L, M
  <1>4. ASSUME NEW i \in 1..(L + M)
        PROVE  (r \o v)[i].tool = (t \o u)[i].tool /\ (r \o v)[i].step = (t \o u)[i].step
    <2>1. CASE i <= L
      <3>1. i \in 1..L
        BY <1>1, <2>1
      <3>2. (r \o v)[i] = r[i] /\ (t \o u)[i] = t[i]
        BY <1>1, <1>2, <1>3, <2>1
      <3> QED BY <1>1, <3>1, <3>2
    <2>2. CASE ~ (i <= L)
      <3>1. i - L \in 1..M
        BY <1>1, <2>2
      <3>2. (r \o v)[i] = v[i - L] /\ (t \o u)[i] = u[i - L]
        BY <1>1, <1>2, <1>3, <2>2
      <3> QED BY <1>1, <3>1, <3>2
    <2> QED BY <2>1, <2>2
  <1>5. DOMAIN (r \o v) = 1..(L + M)
    BY <1>2
  <1> QED BY <1>2, <1>3, <1>4, <1>5 DEF SameCalls

LEMMA InitAccounts == Init => AccountsInv
  <1> SUFFICES ASSUME Init PROVE AccountsInv
    OBVIOUS
  <1>1. /\ events = <<>> /\ steps = <<>> /\ calls = <<>> /\ hashParts = <<NoTool>>
        /\ phase = "idle" /\ Len(<<>>) = 0 /\ Len(<<NoTool>>) = 1
    BY DEF Init
  <1>2. OfKind("tool_call") = <<>> /\ OfKind("tool_result") = <<>> /\ ToolSteps = <<>>
    BY <1>1, ChosenOfNothing DEF OfKind, ToolSteps
  <1>3. SameCalls(<<>>, <<>>)
    BY DEF SameCalls
  <1> QED BY <1>1, <1>2, <1>3 DEF AccountsInv

\* Nothing is announced, reported or recorded, and the calls are the same.
LEMMA AccountsKept ==
    ASSUME AccountsInv,
           OfKind("tool_call")' = OfKind("tool_call"),
           OfKind("tool_result")' = OfKind("tool_result"),
           UNCHANGED <<steps, hashParts>>,
           Len(calls') = Len(calls), outcome = "exception" => outcome' = outcome,
           phase' = "tools" => /\ phase = "tools" /\ step' = step
                               /\ \A i \in 1..Len(calls) : calls'[i].tool = calls[i].tool
    PROVE  AccountsInv'
  <1>1. ToolSteps' = ToolSteps
    BY DEF ToolSteps
  <1>2. SameCalls(OfKind("tool_result"), ToolSteps)'
    BY <1>1 DEF AccountsInv, SameCalls
  <1> QED BY <1>1, <1>2 DEF AccountsInv

\* The response's calls are announced, and are those that are not recorded yet.
LEMMA CallToolsAccounts ==
    ASSUME TypeOK, CallsInv, AccountsInv,
           NEW c \in Costs, NEW blocks \in Responses, CallTools(c, blocks)
    PROVE  AccountsInv'
  <1> DEFINE v == [i \in DOMAIN blocks |-> Event("tool_call", step, blocks[i].tool)]
             T == Len(ToolSteps)
             C == OfKind("tool_call")
  <1>1. PICK n \in 1..MaxCalls : blocks \in [1..n -> Block]
    BY DEF Responses
  <1>2. n \in Nat /\ DOMAIN blocks = 1..n /\ \A i \in 1..n : blocks[i].tool \in Tools
    BY <1>1, AgentAssumption DEF Block
  <1>3. /\ phase = "llm" /\ events' = events \o v /\ UNCHANGED <<steps, hashParts, step>>
        /\ calls' = [i \in DOMAIN blocks |->
                      [tool |-> blocks[i].tool, args |-> blocks[i].args,
                       st |-> "new", tries |-> 0]]
    BY <1>2 DEF CallTools
  <1>4. Len(calls) = 0 /\ Len(calls') = n /\ \A i \in 1..n : calls'[i].tool = blocks[i].tool
    <2>1. Len(calls') = n
      <3> DEFINE g == [i \in 1..n |-> [tool |-> blocks[i].tool, args |-> blocks[i].args,
                                       st |-> "new", tries |-> 0]]
      <3>1. calls' = g
        BY <1>2, <1>3
      <3>2. Len(g) = n
        BY <1>2
      <3> QED BY <3>1, <3>2
    <2> QED BY <1>2, <1>3, <2>1 DEF CallsInv
  <1>5. /\ step \in Nat /\ events \in Seq(EventRec) /\ ToolSteps \in Seq(StepsOfTools)
        /\ C \in Seq(EventsOf("tool_call"))
    BY AccountsTypes
  <1>6. /\ v \in Seq(EventRec) /\ Len(v) = n
        /\ \A i \in 1..n : v[i] = Event("tool_call", step, blocks[i].tool)
    <2>1. \A i \in 1..n : Event("tool_call", step, blocks[i].tool) \in EventRec
      BY <1>2, <1>5 DEF Event, EventRec
    <2>2. v \in [1..n -> EventRec]
      BY <1>2, <2>1
    <2>3. \A i \in 1..n : v[i] = Event("tool_call", step, blocks[i].tool)
      BY <1>2
    <2> HIDE DEF v
    <2> QED BY <1>2, <2>2, <2>3, MapIsSeq
  <1>7. \A i \in 1..Len(v) : v[i] \in EventsOf("tool_call") /\ v[i] \notin EventsOf("tool_result")
    BY <1>2, <1>5, <1>6 DEF Event, EventsOf
  <1> HIDE DEF v
  <1>8. OfKind("tool_call")' = C \o v /\ OfKind("tool_result")' = OfKind("tool_result")
    <2>1. Chosen(events \o v, EventsOf("tool_call")) = Chosen(events, EventsOf("tool_call")) \o v
      BY <1>5, <1>6, <1>7, AllMoreChosen, ZenonT(30)
    <2>2. Chosen(events \o v, EventsOf("tool_result")) = Chosen(events, EventsOf("tool_result"))
      BY <1>5, <1>6, <1>7, NothingMoreChosen, ZenonT(30)
    <2> QED BY <1>3, <2>1, <2>2 DEF OfKind
  <1>9. ToolSteps' = ToolSteps
    BY <1>3 DEF ToolSteps
  <1>10. v \in Seq(EventsOf("tool_call"))
    BY <1>6, <1>7
  <1>11. T \in Nat /\ Len(C) = T
    <2>1. outcome # "exception"
      BY <1>3 DEF TypeOK, Over
    <2> QED BY <1>4, <1>5, <2>1 DEF AccountsInv
  <1> HIDE DEF T, C
  <1>12. /\ Len(C \o v) = T + n
         /\ \A i \in 1..(T + n) : (C \o v)[i] = IF i <= T THEN C[i] ELSE v[i - T]
    BY <1>5, <1>6, <1>10, <1>11, ConcatProperties
  <1>13. \A i \in 1..T : (C \o v)[i] = C[i]
    BY <1>2, <1>11, <1>12
  <1>14. \A i \in 1..n : (C \o v)[T + i].tool = calls'[i].tool /\ (C \o v)[T + i].step = step
    <2> TAKE i \in 1..n
    <2>1. T + i \in 1..(T + n) /\ ~ (T + i <= T) /\ (T + i) - T = i
      BY <1>2, <1>11
    <2>2. (C \o v)[T + i] = v[i]
      BY <1>12, <2>1
    <2> QED BY <1>4, <1>6, <2>2 DEF Event
  <1>15. SameCalls(OfKind("tool_result"), ToolSteps)'
    BY <1>8, <1>9 DEF AccountsInv, SameCalls
  <1>16. /\ Len(OfKind("tool_call")') = Len(ToolSteps') + Len(calls')
         /\ Len(OfKind("tool_call")') >= Len(ToolSteps')
    BY <1>2, <1>4, <1>8, <1>9, <1>11, <1>12 DEF T
  <1>17. \A i \in 1..Len(ToolSteps') : /\ OfKind("tool_call")'[i].tool = ToolSteps'[i].tool
                                       /\ OfKind("tool_call")'[i].step = ToolSteps'[i].step
    BY <1>8, <1>9, <1>13 DEF AccountsInv, T, C
  <1>18. \A i \in 1..Len(calls') :
           /\ OfKind("tool_call")'[Len(ToolSteps') + i].tool = calls'[i].tool
           /\ OfKind("tool_call")'[Len(ToolSteps') + i].step = step'
    BY <1>3, <1>4, <1>8, <1>9, <1>14, ZenonT(40) DEF T
  <1>19. Len(hashParts') = Len(steps') + 1 /\ \A i \in 1..Len(steps') : hashParts'[i + 1] = steps'[i].tool
    BY <1>3 DEF AccountsInv
  <1> QED BY <1>15, <1>16, <1>17, <1>18, <1>19 DEF AccountsInv

\* The results are reported and recorded, in the order in which their calls were
\* announced, and no call is left.
LEMMA CollectAccounts ==
    ASSUME TypeOK, AccountsInv, Collect PROVE AccountsInv'
  <1> DEFINE n == Len(calls)
             u == [i \in DOMAIN calls |-> StepResult(step, calls[i].tool, CostOf(i))]
             v == [i \in DOMAIN calls |-> Event("tool_result", step, calls[i].tool)]
             w == [i \in DOMAIN calls |-> calls[i].tool]
  <1>1. n \in Nat /\ DOMAIN calls = 1..n /\ \A i \in 1..n : calls[i].tool \in Tools
    BY CallFacts DEF Call
  <1>2. /\ phase = "tools" /\ calls' = <<>> /\ Len(calls') = 0
        /\ steps' = steps \o u /\ hashParts' = hashParts \o w
        /\ NextStep(step, cost', events \o v)
    BY DEF Collect, Results
  <1>3. /\ step \in Nat /\ events \in Seq(EventRec) /\ steps \in Seq(StepRecord)
        /\ hashParts \in Seq(HashPart) /\ ToolSteps \in Seq(StepsOfTools)
        /\ OfKind("tool_result") \in Seq(EventsOf("tool_result"))
        /\ OfKind("tool_call") \in Seq(EventsOf("tool_call"))
    BY AccountsTypes
  <1>4. /\ u \in Seq(StepRecord) /\ u \in Seq(StepsOfTools) /\ Len(u) = n
        /\ \A i \in 1..n : u[i].tool = calls[i].tool /\ u[i].step = step
    <2>1. \A i \in 1..n : CostOf(i) \in Nat
      BY AgentAssumption DEF CostOf, TypeOK
    <2>2. \A i \in 1..n : StepResult(step, calls[i].tool, CostOf(i)) \in StepRecord \cap StepsOfTools
      BY <1>1, <1>3, <2>1 DEF StepResult, StepRecord, StepsOfTools
    <2>3. u \in [1..n -> StepRecord] /\ u \in [1..n -> StepsOfTools]
      BY <1>1, <2>2
    <2>4. \A i \in 1..n : u[i].tool = calls[i].tool /\ u[i].step = step
      BY <1>1 DEF StepResult
    <2> HIDE DEF u, n
    <2> QED BY <1>1, <2>3, <2>4, MapIsSeq
  <1>5. /\ v \in Seq(EventRec) /\ v \in Seq(EventsOf("tool_result")) /\ Len(v) = n
        /\ \A i \in 1..n : v[i].tool = calls[i].tool /\ v[i].step = step /\ v[i].kind = "tool_result"
    <2>1. \A i \in 1..n : Event("tool_result", step, calls[i].tool) \in EventRec \cap EventsOf("tool_result")
      BY <1>1, <1>3 DEF Event, EventRec, EventsOf
    <2>2. v \in [1..n -> EventRec] /\ v \in [1..n -> EventsOf("tool_result")]
      BY <1>1, <2>1
    <2>3. \A i \in 1..n : v[i].tool = calls[i].tool /\ v[i].step = step /\ v[i].kind = "tool_result"
      BY <1>1 DEF Event
    <2> HIDE DEF v, n
    <2> QED BY <1>1, <2>2, <2>3, MapIsSeq
  <1>6. w \in Seq(HashPart) /\ Len(w) = n /\ \A i \in 1..n : w[i] = calls[i].tool
    <2>1. w \in [1..n -> HashPart]
      BY <1>1 DEF HashPart
    <2>2. \A i \in 1..n : w[i] = calls[i].tool
      BY <1>1
    <2> HIDE DEF w, n
    <2> QED BY <1>1, <2>1, <2>2, MapIsSeq
  <1> HIDE DEF u, v, w, n
  <1>7. /\ \A i \in 1..Len(u) : u[i] \in StepsOfTools
        /\ \A i \in 1..Len(v) : v[i] \in EventsOf("tool_result") /\ v[i] \notin EventsOf("tool_call")
    <2>1. \A i \in 1..Len(v) : v[i].kind = "tool_result" /\ v[i] \in EventsOf("tool_result")
      BY <1>5
    <2> QED BY <1>4, <2>1 DEF EventsOf
  <1>8. ToolSteps' = ToolSteps \o u
    <2>1. Chosen(steps \o u, StepsOfTools) = Chosen(steps, StepsOfTools) \o u
      <3>1. /\ steps \in Seq(StepRecord) /\ u \in Seq(StepRecord)
            /\ \A i \in 1..Len(u) : u[i] \in StepsOfTools
        BY <1>3, <1>4, <1>7
      <3> QED BY <3>1, AllMoreChosen
    <2> QED BY <1>2, <2>1 DEF ToolSteps
  <1>9. PICK e \in EventRec : e.kind \in {"thinking", "error"} /\ events' = Append(events \o v, e)
    <2>1. PICK e \in {Note("thinking", step + 1), Note("error", step + 1), Note("error", maxSteps)} :
            events' = Append(events \o v, e)
      <3>1. Guard(step, cost') \in {"running", "max_steps_exceeded", "cost_exceeded"}
        BY GuardType
      <3> QED BY <1>2, <3>1 DEF NextStep
    <2>2. e \in EventRec /\ e.kind \in {"thinking", "error"}
      BY <1>3 DEF Note, Event, EventRec, TypeOK
    <2> QED BY <2>1, <2>2
  <1>10. events \o v \in Seq(EventRec)
    BY <1>3, <1>5, ConcatProperties
  <1>11. OfKind("tool_call")' = OfKind("tool_call")
    <2>1. Chosen(Append(events \o v, e), EventsOf("tool_call")) = Chosen(events \o v, EventsOf("tool_call"))
      BY <1>9, <1>10, OtherEvent
    <2>2. Chosen(events \o v, EventsOf("tool_call")) = Chosen(events, EventsOf("tool_call"))
      BY <1>3, <1>5, <1>7, NothingMoreChosen
    <2> QED BY <1>9, <2>1, <2>2 DEF OfKind
  <1>12. OfKind("tool_result")' = OfKind("tool_result") \o v
    <2>1. Chosen(Append(events \o v, e), EventsOf("tool_result")) = Chosen(events \o v, EventsOf("tool_result"))
      BY <1>9, <1>10, OtherEvent
    <2>2. Chosen(events \o v, EventsOf("tool_result")) = Chosen(events, EventsOf("tool_result")) \o v
      BY <1>3, <1>5, <1>7, AllMoreChosen
    <2> QED BY <1>9, <2>1, <2>2 DEF OfKind
  <1>13. SameCalls(OfKind("tool_result"), ToolSteps)'
    <2>1. SameCalls(v, u)
      <3>1. DOMAIN v = 1..n
        BY <1>5
      <3> QED BY <1>4, <1>5, <3>1 DEF SameCalls
    <2>2. SameCalls(OfKind("tool_result"), ToolSteps)
      BY DEF AccountsInv
    <2>3. SameCalls(OfKind("tool_result") \o v, ToolSteps \o u)
      BY <1>3, <1>4, <1>5, <2>1, <2>2, SameCallsGoOn
    <2> QED BY <1>8, <1>12, <2>3 DEF SameCalls
  <1> DEFINE T == Len(ToolSteps)
             C == OfKind("tool_call")
  <1>14. T \in Nat /\ Len(C) = T + n
    <2>1. outcome # "exception"
      BY <1>2 DEF TypeOK, Over
    <2> QED BY <1>3, <2>1 DEF AccountsInv, n
  <1>15. /\ Len(ToolSteps \o u) = T + n
         /\ \A i \in 1..(T + n) : (ToolSteps \o u)[i] = IF i <= T THEN ToolSteps[i] ELSE u[i - T]
    BY <1>3, <1>4, ConcatProperties
  <1> HIDE DEF T, C
  <1>16. \A i \in 1..(T + n) : /\ C[i].tool = (ToolSteps \o u)[i].tool
                               /\ C[i].step = (ToolSteps \o u)[i].step
    <2> TAKE i \in 1..(T + n)
    <2>1. CASE i <= T
      <3>1. i \in 1..T
        BY <1>14, <2>1
      <3>2. C[i].tool = ToolSteps[i].tool /\ C[i].step = ToolSteps[i].step
        BY <3>1 DEF AccountsInv, T, C
      <3> QED BY <1>15, <2>1, <3>2
    <2>2. CASE ~ (i <= T)
      <3> DEFINE j == i - T
      <3>1. j \in 1..n /\ T + j = i
        BY <1>1, <1>14, <2>2
      <3>2. (ToolSteps \o u)[i] = u[j]
        BY <1>15, <2>2
      <3> HIDE DEF j
      <3>3. C[T + j].tool = calls[j].tool /\ C[T + j].step = step
        BY <1>2, <3>1 DEF AccountsInv, T, C, n
      <3> QED BY <1>4, <3>1, <3>2, <3>3
    <2> QED BY <2>1, <2>2
  <1>17. Len(hashParts') = Len(steps') + 1 /\ \A i \in 1..Len(steps') : hashParts'[i + 1] = steps'[i].tool
    <2> DEFINE L == Len(steps)
    <2>1. /\ L \in Nat /\ Len(hashParts) = L + 1
          /\ \A i \in 1..L : hashParts[i + 1] = steps[i].tool
      BY <1>3 DEF AccountsInv
    <2>2. /\ Len(steps \o u) = L + n
          /\ \A i \in 1..(L + n) : (steps \o u)[i] = IF i <= L THEN steps[i] ELSE u[i - L]
      BY <1>3, <1>4, ConcatProperties
    <2>3. /\ Len(hashParts \o w) = (L + 1) + n
          /\ \A i \in 1..((L + 1) + n) :
               (hashParts \o w)[i] = IF i <= L + 1 THEN hashParts[i] ELSE w[i - (L + 1)]
      <3>1. /\ Len(hashParts \o w) = Len(hashParts) + Len(w)
            /\ \A i \in 1..(Len(hashParts) + Len(w)) :
                 (hashParts \o w)[i] = IF i <= Len(hashParts) THEN hashParts[i] ELSE w[i - Len(hashParts)]
        BY <1>3, <1>6, ConcatProperties
      <3>2. Len(hashParts) = L + 1 /\ Len(w) = n
        BY <1>6, <2>1
      <3> HIDE DEF L
      <3> QED BY <3>1, <3>2
    <2> HIDE DEF L
    <2>4. ASSUME NEW i \in 1..(L + n) PROVE (hashParts \o w)[i + 1] = (steps \o u)[i].tool
      <3>1. CASE i <= L
        <4>1. i \in 1..L /\ i + 1 \in 1..((L + 1) + n) /\ i + 1 <= L + 1
          BY <1>1, <2>1, <3>1
        <4> QED BY <2>1, <2>2, <2>3, <3>1, <4>1
      <3>2. CASE ~ (i <= L)
        <4>1. /\ i - L \in 1..n /\ i + 1 \in 1..((L + 1) + n)
              /\ ~ (i + 1 <= L + 1) /\ (i + 1) - (L + 1) = i - L
          BY <1>1, <2>1, <3>2
        <4>2. (hashParts \o w)[i + 1] = w[i - L] /\ (steps \o u)[i] = u[i - L]
          BY <2>2, <2>3, <3>2, <4>1
        <4> QED BY <1>4, <1>6, <4>1, <4>2
      <3> QED BY <3>1, <3>2
    <2>5. (L + 1) + n = (L + n) + 1
      BY <1>1, <2>1
    <2> QED BY <1>2, <2>2, <2>3, <2>4, <2>5
  <1>18. /\ Len(OfKind("tool_call")') = Len(ToolSteps') + Len(calls')
         /\ Len(ToolSteps') = T + n
         /\ Len(OfKind("tool_call")') >= Len(ToolSteps')
    BY <1>1, <1>2, <1>8, <1>11, <1>14, <1>15 DEF C
  <1>19. phase' # "tools"
    BY <1>2 DEF NextStep
  <1> QED BY <1>8, <1>11, <1>13, <1>16, <1>17, <1>18, <1>19 DEF AccountsInv, C

\* The answer is a step without a tool, and the last part under the hash.
LEMMA AnswerAccounts ==
    ASSUME TypeOK, AccountsInv, NEW c \in Costs, Answer(c) PROVE AccountsInv'
  <1> DEFINE e == StepResult(step, NoTool, c)
             t == <<e>>
             L == Len(steps)
  <1>1. /\ steps' = Append(steps, e) /\ hashParts' = Append(hashParts, NoTool)
        /\ events' = Append(events, Note("complete", step)) /\ calls' = calls /\ phase' = "done"
    BY DEF Answer
  <1>2. /\ step \in Nat /\ events \in Seq(EventRec) /\ steps \in Seq(StepRecord)
        /\ hashParts \in Seq(HashPart)
    BY AccountsTypes
  <1>3. /\ e \in StepRecord /\ e.tool = NoTool /\ e \notin StepsOfTools
        /\ NoTool \in HashPart /\ Note("complete", step) \in EventRec
        /\ Note("complete", step).kind = "complete"
    BY <1>2, AgentAssumption
    DEF StepResult, StepRecord, StepsOfTools, HashPart, Note, Event, EventRec
  <1> HIDE DEF e
  <1>4. t \in Seq(StepRecord) /\ \A i \in 1..Len(t) : t[i] \notin StepsOfTools
    BY <1>3
  <1>5. Append(steps, e) = steps \o t
    BY <1>2, <1>3, AppendIsConcat
  <1> HIDE DEF t
  <1>6. ToolSteps' = ToolSteps
    <2>1. Chosen(steps \o t, StepsOfTools) = Chosen(steps, StepsOfTools)
      BY <1>2, <1>4, NothingMoreChosen
    <2> QED BY <1>1, <1>5, <2>1 DEF ToolSteps
  <1>7. /\ OfKind("tool_call")' = OfKind("tool_call")
        /\ OfKind("tool_result")' = OfKind("tool_result")
    BY <1>1, <1>2, <1>3, OtherEvent DEF OfKind
  <1>8. /\ L \in Nat /\ Len(hashParts) = L + 1
        /\ \A i \in 1..L : hashParts[i + 1] = steps[i].tool
    BY <1>2 DEF AccountsInv
  <1>9. /\ Len(steps') = L + 1 /\ steps'[L + 1] = e
        /\ \A i \in 1..L : steps'[i] = steps[i]
    BY <1>1, <1>2, <1>3, AppendSeq
  <1>10. /\ Len(hashParts') = (L + 1) + 1 /\ hashParts'[(L + 1) + 1] = NoTool
         /\ \A i \in 1..(L + 1) : hashParts'[i] = hashParts[i]
    BY <1>1, <1>2, <1>3, <1>8, AppendSeq
  <1> HIDE DEF L
  <1>11. \A i \in 1..(L + 1) : hashParts'[i + 1] = steps'[i].tool
    <2> TAKE i \in 1..(L + 1)
    <2>1. CASE i = L + 1
      BY <1>3, <1>9, <1>10, <2>1
    <2>2. CASE i # L + 1
      <3>1. i \in 1..L /\ i + 1 \in 1..(L + 1)
        BY <1>8, <2>2
      <3> QED BY <1>8, <1>9, <1>10, <3>1
    <2> QED BY <2>1, <2>2
  <1>12. SameCalls(OfKind("tool_result"), ToolSteps)'
    BY <1>6, <1>7 DEF AccountsInv, SameCalls
  <1>13. outcome # "exception"
    BY DEF Answer, TypeOK, Over
  <1> QED BY <1>1, <1>6, <1>7, <1>9, <1>10, <1>11, <1>12, <1>13 DEF AccountsInv

\* The blocks before the one that cannot be announced are announced, and no call is made.
LEMMA UnreadAccounts ==
    ASSUME TypeOK, CallsInv, AccountsInv,
           NEW c \in Costs, NEW blocks \in Responses, NEW k \in DOMAIN blocks,
           CallsUnread(c, blocks, k)
    PROVE  /\ AccountsInv'
           /\ ToolSteps' = ToolSteps
           /\ Len(OfKind("tool_call")') = Len(ToolSteps) + (k - 1)
           /\ \A i \in 1..(k - 1) :
                OfKind("tool_call")'[Len(ToolSteps) + i] = Event("tool_call", step, blocks[i].tool)
  <1> DEFINE v == UnreadEvents(blocks, k)
             e == Note("error", Len(steps))
             n == k - 1
             T == Len(ToolSteps)
             C == OfKind("tool_call")
  <1>1. /\ phase = "llm" /\ phase' = "done" /\ outcome' = "exception"
        /\ UNCHANGED <<step, calls, steps, hashParts>>
        /\ v \in Seq(EventRec) /\ Len(v) = n /\ n \in Nat
        /\ \A i \in 1..n : /\ v[i] = Event("tool_call", step, blocks[i].tool)
                          /\ blocks[i].tool \in Tools
        /\ e \in EventRec /\ events' = Append(events \o v, e)
    BY UnreadFacts
  <1>2. e.kind = "error"
    BY DEF Note, Event
  <1>3. /\ step \in Nat /\ events \in Seq(EventRec) /\ ToolSteps \in Seq(StepsOfTools)
        /\ C \in Seq(EventsOf("tool_call"))
    BY AccountsTypes
  <1> HIDE DEF v, e, n
  <1>4. \A i \in 1..Len(v) : v[i] \in EventsOf("tool_call") /\ v[i] \notin EventsOf("tool_result")
    <2> TAKE i \in 1..Len(v)
    <2>1. v[i] = Event("tool_call", step, blocks[i].tool) /\ blocks[i].tool \in Tools
      BY <1>1
    <2> QED BY <1>3, <2>1 DEF Event, EventsOf
  <1>5. events \o v \in Seq(EventRec)
    BY <1>1, <1>3, ConcatProperties
  <1>6. OfKind("tool_call")' = C \o v
    <2>1. Chosen(Append(events \o v, e), EventsOf("tool_call")) = Chosen(events \o v, EventsOf("tool_call"))
      BY <1>1, <1>2, <1>5, OtherEvent
    <2>2. Chosen(events \o v, EventsOf("tool_call")) = Chosen(events, EventsOf("tool_call")) \o v
      BY <1>1, <1>3, <1>4, AllMoreChosen, ZenonT(30)
    <2> QED BY <1>1, <2>1, <2>2 DEF OfKind
  <1>7. OfKind("tool_result")' = OfKind("tool_result")
    <2>1. Chosen(Append(events \o v, e), EventsOf("tool_result")) = Chosen(events \o v, EventsOf("tool_result"))
      BY <1>1, <1>2, <1>5, OtherEvent
    <2>2. Chosen(events \o v, EventsOf("tool_result")) = Chosen(events, EventsOf("tool_result"))
      BY <1>1, <1>3, <1>4, NothingMoreChosen, ZenonT(30)
    <2> QED BY <1>1, <2>1, <2>2 DEF OfKind
  <1>8. ToolSteps' = ToolSteps
    BY <1>1 DEF ToolSteps
  <1>9. Len(calls) = 0 /\ T \in Nat /\ Len(C) = T
    <2>1. outcome # "exception" /\ Len(calls) = 0
      BY <1>1 DEF TypeOK, Over, CallsInv
    <2> QED BY <1>3, <2>1 DEF AccountsInv
  <1>10. v \in Seq(EventsOf("tool_call"))
    BY <1>1, <1>4
  <1> HIDE DEF T, C
  <1>11. /\ Len(C \o v) = T + n
         /\ \A i \in 1..(T + n) : (C \o v)[i] = IF i <= T THEN C[i] ELSE v[i - T]
    BY <1>1, <1>3, <1>9, <1>10, ConcatProperties
  <1>12. \A i \in 1..T : (C \o v)[i] = C[i]
    BY <1>1, <1>9, <1>11
  <1>13. \A i \in 1..n : (C \o v)[T + i] = Event("tool_call", step, blocks[i].tool)
    <2> TAKE i \in 1..n
    <2>1. T + i \in 1..(T + n) /\ ~ (T + i <= T) /\ (T + i) - T = i
      BY <1>1, <1>9
    <2> QED BY <1>1, <1>11, <2>1
  <1>14. SameCalls(OfKind("tool_result"), ToolSteps)'
    BY <1>7, <1>8 DEF AccountsInv, SameCalls
  <1>15. Len(OfKind("tool_call")') >= Len(ToolSteps') /\ Len(calls') = 0
    BY <1>1, <1>6, <1>8, <1>9, <1>11 DEF T
  <1>16. \A i \in 1..Len(ToolSteps') : /\ OfKind("tool_call")'[i].tool = ToolSteps'[i].tool
                                       /\ OfKind("tool_call")'[i].step = ToolSteps'[i].step
    BY <1>6, <1>8, <1>12 DEF AccountsInv, T, C
  <1>17. Len(hashParts') = Len(steps') + 1 /\ \A i \in 1..Len(steps') : hashParts'[i + 1] = steps'[i].tool
    BY <1>1 DEF AccountsInv
  <1>18. AccountsInv'
    BY <1>1, <1>14, <1>15, <1>16, <1>17 DEF AccountsInv
  <1> QED BY <1>6, <1>8, <1>11, <1>13, <1>18 DEF T, n

LEMMA AccountsStep ==
    TypeOK /\ CallsInv /\ AccountsInv /\ [Next]_vars => AccountsInv'
  <1> SUFFICES ASSUME TypeOK, CallsInv, AccountsInv, [Next]_vars PROVE AccountsInv'
    OBVIOUS
  <1>0. step \in Nat /\ maxSteps \in Int /\ events \in Seq(EventRec) /\ Len(steps) \in Int
    BY AccountsTypes DEF TypeOK
  <1>1. ASSUME NEW e \in EventRec, events' = Append(events, e),
               e.kind \notin {"tool_call", "tool_result"}
        PROVE  /\ OfKind("tool_call")' = OfKind("tool_call")
               /\ OfKind("tool_result")' = OfKind("tool_result")
    BY <1>0, <1>1, OtherEvent DEF OfKind
  <1>2. CASE Start
    <2>1. Guard(0, 0) \in {"running", "max_steps_exceeded", "cost_exceeded"}
      BY GuardType
    <2>2. /\ phase' # "tools" /\ UNCHANGED <<steps, hashParts, calls>>
          /\ \E e \in {Note("thinking", 0 + 1), Note("error", 0 + 1), Note("error", maxSteps)} :
               events' = Append(events, e)
      BY <1>2, <2>1 DEF Start, NextStep, record
    <2>3. \A e \in {Note("thinking", 0 + 1), Note("error", 0 + 1), Note("error", maxSteps)} :
            e \in EventRec /\ e.kind \notin {"tool_call", "tool_result"}
      BY <1>0 DEF Note, Event, EventRec
    <2>4. PICK e \in EventRec : events' = Append(events, e) /\ e.kind \notin {"tool_call", "tool_result"}
      BY <2>2, <2>3
    <2>5. outcome # "exception"
      BY <1>2 DEF Start, TypeOK
    <2> QED BY <1>1, <2>2, <2>4, <2>5, AccountsKept
  <1>3. CASE Chunk
    <2>1. PICK k \in {"chunk", "thinking_content"} : events' = Append(events, Note(k, step))
      BY <1>3 DEF Chunk
    <2>2. Note(k, step) \in EventRec /\ Note(k, step).kind = k
      BY <1>0 DEF Note, Event, EventRec
    <2>3. UNCHANGED <<steps, hashParts, calls, step, phase, outcome>>
      BY <1>3 DEF Chunk, record
    <2> QED BY <1>1, <2>1, <2>2, <2>3, AccountsKept
  <1>4. ASSUME NEW c \in Costs, Answer(c) PROVE AccountsInv'
    BY <1>4, AnswerAccounts
  <1>5. ASSUME NEW c \in Costs, NEW blocks \in Responses, CallTools(c, blocks)
        PROVE  AccountsInv'
    BY <1>5, CallToolsAccounts
  <1>6. ASSUME NEW i \in DOMAIN calls, StartAttempt(i) \/ EndAttempt(i)
        PROVE  AccountsInv'
    <2>1. \A c \in Call : AfterFailure(c).tool = c.tool /\ Attempt(c).tool = c.tool
      BY DEF AfterFailure, Attempt, Dispatched, Call
    <2>2. calls[i] \in Call /\ [calls[i] EXCEPT !.st = "ok"].tool = calls[i].tool
      BY CallFacts DEF Call
    <2>3. PICK c : calls' = [calls EXCEPT ![i] = c] /\ c.tool = calls[i].tool
      BY <1>6, <2>1, <2>2 DEF StartAttempt, EndAttempt
    <2>4. DOMAIN calls = 1..Len(calls) /\ Len(calls) \in Nat
      BY CallFacts
    <2>5. Len(calls') = Len(calls) /\ \A j \in 1..Len(calls) : calls'[j].tool = calls[j].tool
      BY <2>3, <2>4
    <2>6. UNCHANGED <<steps, hashParts, step, phase, events, outcome>>
      BY <1>6, CallSteps
    <2>7. /\ OfKind("tool_call")' = OfKind("tool_call")
          /\ OfKind("tool_result")' = OfKind("tool_result")
      BY <2>6 DEF OfKind
    <2> QED BY <2>5, <2>6, <2>7, AccountsKept
  <1>7. CASE Collect
    BY <1>7, CollectAccounts
  <1>8. CASE LLMError \/ ToolsRaised \/ Timeout
    <2>1. PICK error : Fail(error)
      BY <1>8, FailSteps
    <2>2. /\ events' = Append(events, Note("error", Len(steps)))
          /\ UNCHANGED <<steps, hashParts>> /\ phase' = "done"
      BY <2>1 DEF Fail, record
    <2>3. Note("error", Len(steps)) \in EventRec /\ Note("error", Len(steps)).kind = "error"
      BY <1>0 DEF Note, Event, EventRec
    <2>4. Len(calls') = Len(calls)
      <3>1. Len(calls) \in Nat /\ DOMAIN calls = 1..Len(calls)
        BY CallFacts
      <3>2. Len([i \in 1..Len(calls) |-> Cancelled(calls[i])]) = Len(calls)
        BY <3>1
      <3> QED BY <1>8, <3>1, <3>2, FailSteps
    <2>5. outcome # "exception"
      BY <1>8, FailSteps DEF TypeOK, Over
    <2> QED BY <1>1, <2>2, <2>3, <2>4, <2>5, AccountsKept
  <1>9. CASE UNCHANGED vars
    <2>1. UNCHANGED <<steps, hashParts, step, phase, events, calls, outcome>>
      BY <1>9 DEF vars
    <2>2. /\ OfKind("tool_call")' = OfKind("tool_call")
          /\ OfKind("tool_result")' = OfKind("tool_result")
      BY <2>1 DEF OfKind
    <2> QED BY <2>1, <2>2, AccountsKept
  <1>10. ASSUME NEW c \in Costs, NEW blocks \in Responses, NEW k \in DOMAIN blocks,
                CallsUnread(c, blocks, k)
         PROVE  AccountsInv'
    BY <1>10, UnreadAccounts
  <1> QED BY <1>2, <1>3, <1>4, <1>5, <1>6, <1>7, <1>8, <1>9, <1>10 DEF Next, Finished

\* What is announced and not recorded opens the last message.
AnnouncedInv ==
    \A i \in 1..(Len(OfKind("tool_call")) - Len(ToolSteps)) :
      /\ i \in DOMAIN messages[Len(messages)].blocks
      /\ OfKind("tool_call")[Len(ToolSteps) + i]
            = Event("tool_call", step, messages[Len(messages)].blocks[i])

\* Every step keeps it: whatever does not announce calls leaves the last message and the
\* step alone, or leaves nothing announced that is not recorded.
LEMMA AnnouncedStep ==
    TypeOK /\ CallsInv /\ AccountsInv /\ AccountsInv' /\ TypeOK' /\ AnnouncedInv /\ [Next]_vars
      => AnnouncedInv'
  <1> SUFFICES ASSUME TypeOK, CallsInv, AccountsInv, AccountsInv', TypeOK', AnnouncedInv, [Next]_vars
               PROVE  AnnouncedInv'
    OBVIOUS
  <1>1. /\ ToolSteps' \in Seq(StepsOfTools) /\ OfKind("tool_call")' \in Seq(EventsOf("tool_call"))
        /\ messages \in Seq(Message) /\ Len(messages) \in Nat
    <2>1. /\ steps' \in Seq(StepRecord) /\ events' \in Seq(EventRec)
      BY DEF TypeOK, StepRecord, EventRec
    <2>2. Chosen(steps', StepsOfTools) \in Seq(StepsOfTools)
          /\ Chosen(events', EventsOf("tool_call")) \in Seq(EventsOf("tool_call"))
      BY <2>1, ChosenType
    <2> QED BY <2>2 DEF ToolSteps, OfKind, TypeOK, Message
  <1>2. ASSUME calls' = <<>>, outcome' # "exception" PROVE AnnouncedInv'
    <2>1. Len(OfKind("tool_call")') = Len(ToolSteps')
      BY <1>1, <1>2 DEF AccountsInv
    <2>2. 1..(Len(OfKind("tool_call")') - Len(ToolSteps')) = {}
      BY <1>1, <2>1
    <2> QED BY <2>2 DEF AnnouncedInv
  <1>3. ASSUME OfKind("tool_call")' = OfKind("tool_call"), UNCHANGED <<steps, messages, step>>
        PROVE  AnnouncedInv'
    <2>1. ToolSteps' = ToolSteps
      BY <1>3 DEF ToolSteps
    <2> QED BY <1>3, <2>1 DEF AnnouncedInv
  <1>4. CASE Start \/ Chunk \/ Collect \/ \E c \in Costs : Answer(c)
    <2>1. calls' = <<>>
      BY <1>4 DEF Start, Chunk, Collect, Answer, CallsInv
    <2>2. outcome' # "exception"
      <3>1. CASE Chunk
        BY <3>1 DEF Chunk, TypeOK, Over
      <3>2. ASSUME NEW n, NEW c, NEW evs, NextStep(n, c, evs) PROVE outcome' # "exception"
        BY <3>2, GuardType DEF NextStep
      <3>3. CASE Start \/ Collect
        BY <3>2, <3>3 DEF Start, Collect
      <3>4. CASE \E c \in Costs : Answer(c)
        BY <3>4 DEF Answer
      <3> QED BY <1>4, <3>1, <3>3, <3>4
    <2> QED BY <1>2, <2>1, <2>2
  <1>5. ASSUME NEW c \in Costs, NEW blocks \in Responses, CallTools(c, blocks)
        PROVE  AnnouncedInv'
    <2> DEFINE tools == [i \in DOMAIN blocks |-> blocks[i].tool]
               m == [role |-> "assistant", blocks |-> tools]
    <2>1. PICK n \in 1..MaxCalls : blocks \in [1..n -> Block]
      BY DEF Responses
    <2>2. n \in Nat /\ DOMAIN blocks = 1..n /\ \A i \in 1..n : blocks[i].tool \in Tools
      BY <2>1, AgentAssumption DEF Block
    <2>3. m \in Message
      BY <2>2, MapIsSeq DEF Message
    <2>4. /\ messages' = Append(messages, m) /\ phase' = "tools" /\ outcome' = outcome /\ phase = "llm"
          /\ calls' = [i \in DOMAIN blocks |->
                         [tool |-> blocks[i].tool, args |-> blocks[i].args,
                          st |-> "new", tries |-> 0]]
      BY <1>5 DEF CallTools
    <2>5. Len(calls') = n /\ \A i \in 1..n : calls'[i].tool = blocks[i].tool
      <3> DEFINE g == [i \in 1..n |-> [tool |-> blocks[i].tool, args |-> blocks[i].args,
                                       st |-> "new", tries |-> 0]]
      <3>1. calls' = g
        BY <2>2, <2>4
      <3>2. Len(g) = n /\ \A i \in 1..n : g[i].tool = blocks[i].tool
        BY <2>2
      <3> HIDE DEF g
      <3> QED BY <3>1, <3>2
    <2>6. m.blocks = tools /\ DOMAIN tools = 1..n /\ \A i \in 1..n : tools[i] = blocks[i].tool
      BY <2>2
    <2> HIDE DEF m, tools
    <2>7. messages'[Len(messages')] = m
      BY <1>1, <2>3, <2>4, AppendSeq
    <2>8. outcome' # "exception"
      BY <2>4 DEF TypeOK, Over
    <2>9. Len(OfKind("tool_call")') = Len(ToolSteps') + n
      BY <2>5, <2>8 DEF AccountsInv
    <2>10. Len(OfKind("tool_call")') - Len(ToolSteps') = n /\ Len(ToolSteps') \in Nat
      BY <1>1, <2>2, <2>9
    <2>11. \A i \in 1..n : /\ OfKind("tool_call")'[Len(ToolSteps') + i].tool = tools[i]
                          /\ OfKind("tool_call")'[Len(ToolSteps') + i].step = step'
      <3>1. \A i \in 1..Len(calls') :
              /\ OfKind("tool_call")'[Len(ToolSteps') + i].tool = calls'[i].tool
              /\ OfKind("tool_call")'[Len(ToolSteps') + i].step = step'
        BY <2>4, ZenonT(30) DEF AccountsInv
      <3> QED BY <2>5, <2>6, <3>1
    <2>12. \A i \in 1..n : OfKind("tool_call")'[Len(ToolSteps') + i] \in EventsOf("tool_call")
      <3>1. \A i \in 1..n : Len(ToolSteps') + i \in 1..Len(OfKind("tool_call")')
        BY <2>2, <2>9, <2>10
      <3> QED BY <1>1, <3>1
    <2>13. \A i \in 1..n : OfKind("tool_call")'[Len(ToolSteps') + i] = Event("tool_call", step', tools[i])
      BY <2>11, <2>12 DEF EventsOf, Event
    <2> QED BY <2>6, <2>7, <2>10, <2>13 DEF AnnouncedInv
  <1>6. ASSUME NEW c \in Costs, NEW blocks \in Responses, NEW k \in DOMAIN blocks,
               CallsUnread(c, blocks, k)
        PROVE  AnnouncedInv'
    <2> DEFINE tools == [i \in DOMAIN blocks |-> blocks[i].tool]
               m == [role |-> "assistant", blocks |-> tools]
    <2>1. /\ m \in Message /\ messages' = Append(messages, m) /\ k - 1 \in Nat /\ step' = step
          /\ \A i \in 1..(k - 1) : i \in DOMAIN blocks
      BY <1>6, UnreadFacts
    <2>2. /\ ToolSteps' = ToolSteps /\ Len(OfKind("tool_call")') = Len(ToolSteps) + (k - 1)
          /\ \A i \in 1..(k - 1) :
               OfKind("tool_call")'[Len(ToolSteps) + i] = Event("tool_call", step, blocks[i].tool)
      BY <1>6, UnreadAccounts
    <2>3. m.blocks = tools /\ \A i \in 1..(k - 1) : i \in DOMAIN tools /\ tools[i] = blocks[i].tool
      BY <2>1
    <2> HIDE DEF m, tools
    <2>4. messages'[Len(messages')] = m
      BY <1>1, <2>1, AppendSeq
    <2>5. Len(OfKind("tool_call")') - Len(ToolSteps') = k - 1
      BY <1>1, <2>1, <2>2
    <2>6. ASSUME NEW i \in 1..(Len(OfKind("tool_call")') - Len(ToolSteps'))
          PROVE  /\ i \in DOMAIN messages'[Len(messages')].blocks
                 /\ OfKind("tool_call")'[Len(ToolSteps') + i]
                       = Event("tool_call", step', messages'[Len(messages')].blocks[i])
      <3>1. i \in 1..(k - 1)
        BY <2>5
      <3>2. i \in DOMAIN tools /\ tools[i] = blocks[i].tool
        BY <2>3, <3>1
      <3>3. OfKind("tool_call")'[Len(ToolSteps') + i] = Event("tool_call", step', tools[i])
        BY <2>1, <2>2, <3>1, <3>2
      <3> QED BY <2>3, <2>4, <3>2, <3>3
    <2> QED BY <2>6 DEF AnnouncedInv
  <1>7. ASSUME NEW i \in DOMAIN calls, StartAttempt(i) \/ EndAttempt(i)
        PROVE  AnnouncedInv'
    BY <1>3, <1>7, CallSteps DEF OfKind
  <1>8. CASE LLMError \/ ToolsRaised \/ Timeout
    <2>1. PICK error : Fail(error)
      BY <1>8, FailSteps
    <2>2. events' = Append(events, Note("error", Len(steps))) /\ UNCHANGED <<steps, messages, step>>
      BY <2>1 DEF Fail, record
    <2>3. /\ Note("error", Len(steps)) \in EventRec /\ Note("error", Len(steps)).kind = "error"
          /\ events \in Seq(EventRec)
      BY DEF Note, Event, EventRec, TypeOK
    <2>4. OfKind("tool_call")' = OfKind("tool_call")
      BY <2>2, <2>3, OtherEvent DEF OfKind
    <2> QED BY <1>3, <2>2, <2>4
  <1>9. CASE UNCHANGED vars
    BY <1>3, <1>9 DEF vars, OfKind
  <1> QED BY <1>4, <1>5, <1>6, <1>7, <1>8, <1>9 DEF Next, Finished

LEMMA InitAnnounced == Init => AnnouncedInv
  <1> SUFFICES ASSUME Init PROVE AnnouncedInv
    OBVIOUS
  <1>1. events = <<>> /\ steps = <<>> /\ Len(<<>>) = 0
    BY DEF Init
  <1>2. OfKind("tool_call") = <<>> /\ ToolSteps = <<>>
    BY <1>1, ChosenOfNothing DEF OfKind, ToolSteps
  <1>3. 1..(Len(OfKind("tool_call")) - Len(ToolSteps)) = {}
    BY <1>1, <1>2
  <1> QED BY <1>3 DEF AnnouncedInv

\* However the calls of a response end, fail or are cut off, the events, the steps and
\* the parts under the attestation hash tell of the same calls in the same order.  What
\* is announced and not recorded opens the last message: the calls of one response, or
\* what was announced of it before arguments that are no object ended the task (the
\* loops over the blocks and over the results in _run_step_loop), for any number of
\* calls and steps.
THEOREM AccountsTheorem == Spec => []AccountsAgree
  <1>1. LoopInv /\ AccountsInv /\ [Next]_vars => AccountsInv'
    BY AccountsStep DEF LoopInv
  <1>2. LoopInv /\ AccountsInv /\ LoopInv' /\ AccountsInv' /\ AnnouncedInv /\ [Next]_vars => AnnouncedInv'
    BY AnnouncedStep DEF LoopInv
  <1>3. LoopInv /\ AccountsInv /\ AnnouncedInv => AccountsAgree
    <2> SUFFICES ASSUME LoopInv, AccountsInv, AnnouncedInv PROVE AccountsAgree
      OBVIOUS
    <2> DEFINE T == Len(ToolSteps)
               C == OfKind("tool_call")
    <2>1. /\ C \in Seq(EventsOf("tool_call")) /\ ToolSteps \in Seq(StepsOfTools)
          /\ steps \in Seq(StepRecord) /\ Len(calls) \in Nat
      BY AccountsTypes, CallFacts DEF LoopInv
    <2>2. T \in Nat /\ Len(C) \in Nat /\ T <= Len(C)
      BY <2>1 DEF AccountsInv
    <2>3. \A i \in 1..T : C[i] \in EventsOf("tool_call")
      BY <2>1, <2>2
    <2>4. Len(C) - T >= 0 /\ (Len(C) - T = Len(calls) \/ (outcome = "exception" /\ Len(calls) = 0))
      BY <2>1, <2>2 DEF AccountsInv
    <2> HIDE DEF T, C
    <2>5. /\ SubSeq(C, 1, T) \in Seq(EventsOf("tool_call")) /\ Len(SubSeq(C, 1, T)) = T
          /\ \A i \in 1..T : SubSeq(C, 1, T)[i] = C[i]
      BY <2>1, <2>2, <2>3
    <2>6. SameCalls(SubSeq(C, 1, T), ToolSteps)
      <3>1. DOMAIN SubSeq(C, 1, T) = 1..T
        BY <2>5
      <3> QED BY <2>5, <3>1 DEF SameCalls, AccountsInv, T, C
    <2>7. DOMAIN steps = 1..Len(steps)
      BY <2>1
    <2>8. \A i \in 1..(Len(C) - T) :
            /\ i \in DOMAIN messages[Len(messages)].blocks
            /\ C[T + i] = Event("tool_call", step, messages[Len(messages)].blocks[i])
      BY DEF AnnouncedInv, T, C
    <2>9. /\ SameCalls(OfKind("tool_result"), ToolSteps)
          /\ Len(hashParts) = Len(steps) + 1
          /\ \A i \in 1..Len(steps) : hashParts[i + 1] = steps[i].tool
      BY DEF AccountsInv
    <2> QED BY <2>4, <2>6, <2>7, <2>8, <2>9 DEF AccountsAgree, T, C
  <1> QED BY InitAccounts, InitAnnounced, LoopCorrect, <1>1, <1>2, <1>3, PTL DEF Spec

-----------------------------------------------------------------------------
(***************************************************************************)
(* The loop implements TaskLifecycle                                       *)
(***************************************************************************)

\* The guards of the loop are the verdict of the abstract task.
LEMMA GuardIsVerdict ==
    \A n, c : Guard(n, c) = Lifecycle!Verdict(n, c)
  BY DEF Guard, Lifecycle!Verdict

\* Every initial state is an initial state of the abstract task.
LEMMA InitRefines == Init => Lifecycle!Init
  <1> SUFFICES ASSUME Init PROVE Lifecycle!Init
    OBVIOUS
  <1>1. Used = 0
    BY DEF Init, Used
  <1>2. /\ maxSteps \in {OrDefault(s, DefaultSteps) : s \in StepLimits}
        /\ maxCost \in {OrDefault(b, DefaultBudget) : b \in Budgets}
    BY DEF Init
  <1> QED BY <1>1, <1>2 DEF Init, Lifecycle!Init

\* Every step is a step of the abstract task or leaves it unchanged.
LEMMA StepRefines ==
    LoopInv /\ [Next]_vars => [Lifecycle!Next]_(Lifecycle!lifecycleVars)
  <1> SUFFICES ASSUME LoopInv, [Next]_vars
               PROVE  [Lifecycle!Next]_(Lifecycle!lifecycleVars)
    OBVIOUS
  <1>0. /\ step \in Nat /\ cost \in Nat
        /\ (phase = "idle") = (outcome = "idle") /\ (phase = "done") = Over
        /\ phase = "idle" => step = 0 /\ cost = 0
        /\ phase = "tools" => reply \in Costs
    BY DEF LoopInv, TypeOK, CountersInv
  <1>1. ASSUME UNCHANGED <<outcome, maxSteps, maxCost, step, cost>>
        PROVE  [Lifecycle!Next]_(Lifecycle!lifecycleVars)
    BY <1>1 DEF Lifecycle!lifecycleVars, Used
  <1>2. CASE Start
    <2>1. outcome = "idle" /\ outcome' = Lifecycle!Verdict(0, 0) /\ Used = 0
      BY <1>0, <1>2, GuardIsVerdict DEF Start, NextStep, Used
    <2>2. Used' = 0 /\ cost' = cost /\ maxSteps' = maxSteps /\ maxCost' = maxCost
      BY <1>2, GuardType DEF Start, NextStep, Used, limits, record
    <2> QED BY <2>1, <2>2 DEF Lifecycle!Next, Lifecycle!Begin
  <1>3. ASSUME NEW c \in Costs, Answer(c)
        PROVE  [Lifecycle!Next]_(Lifecycle!lifecycleVars)
    <2>1. outcome = "running" /\ outcome' = "complete" /\ step' = step
      BY <1>0, <1>3 DEF Answer, Over
    <2>2. Used' = Used + 1
      BY <1>0, <2>1 DEF Used
    <2>3. Lifecycle!Answer(c)
      BY <1>3, <2>1, <2>2 DEF Lifecycle!Answer, Answer, limits
    <2> QED BY <2>3 DEF Lifecycle!Next
  <1>4. CASE Collect
    <2>1. /\ outcome = "running" /\ reply \in Costs /\ cost' = cost + reply
          /\ maxSteps' = maxSteps /\ maxCost' = maxCost
      BY <1>0, <1>4 DEF Collect, Over, limits
    <2>2. PICK evs : NextStep(step, cost', evs)
      BY <1>4 DEF Collect
    <2>3. outcome' = Guard(step, cost')
          /\ step' = IF Guard(step, cost') = "running" THEN step + 1 ELSE step
      BY <2>2 DEF NextStep
    <2>4. Used = step - 1 /\ Used' = step
      BY <1>0, <2>1, <2>3, GuardType DEF Used
    <2>5. Lifecycle!Record(reply)
      BY <1>0, <2>1, <2>3, <2>4, GuardIsVerdict DEF Lifecycle!Record
    <2> QED BY <2>1, <2>5 DEF Lifecycle!Next
  <1>5. CASE LLMError \/ ToolsRaised \/ Timeout
    <2>1. PICK e \in {"timeout", "exception"} : Fail(e) /\ outcome = "running"
      BY <1>0, <1>5, FailSteps DEF Over
    <2>2. outcome' = e /\ Used' = Used /\ cost' = cost /\ maxSteps' = maxSteps /\ maxCost' = maxCost
      BY <2>1 DEF Fail, Used, limits, record
    <2>3. Lifecycle!Abort(e)
      BY <2>1, <2>2 DEF Lifecycle!Abort
    <2> QED BY <2>1, <2>3 DEF Lifecycle!Next, Lifecycle!Aborts
  <1>6. CASE \/ Chunk \/ UNCHANGED vars
             \/ \E i \in DOMAIN calls : StartAttempt(i) \/ EndAttempt(i)
             \/ \E c \in Costs, blocks \in Responses : CallTools(c, blocks)
    BY <1>1, <1>6, CallSteps DEF Chunk, CallTools, vars, limits, record
  <1>7. ASSUME NEW c \in Costs, NEW blocks \in Responses, NEW k \in DOMAIN blocks,
               CallsUnread(c, blocks, k)
        PROVE  [Lifecycle!Next]_(Lifecycle!lifecycleVars)
    <2>1. /\ outcome = "running" /\ outcome' = "exception"
          /\ UNCHANGED <<maxSteps, maxCost, step, cost>>
      BY <1>0, <1>7 DEF CallsUnread, Over, limits
    <2>2. Used' = Used
      BY <2>1 DEF Used
    <2>3. Lifecycle!Abort("exception")
      BY <2>1, <2>2 DEF Lifecycle!Abort
    <2> QED BY <2>3 DEF Lifecycle!Next, Lifecycle!Aborts
  <1> QED
    BY <1>2, <1>3, <1>4, <1>5, <1>6, <1>7 DEF Next, Finished

\* The loop, with its tools in parallel, its retries, events and messages, does
\* what TaskLifecycle promises.
THEOREM Refinement == Spec => ImplementsLifecycle
  BY InitRefines, StepRefines, LoopCorrect, PTL
  DEF Spec, ImplementsLifecycle, Lifecycle!Spec

=============================================================================
