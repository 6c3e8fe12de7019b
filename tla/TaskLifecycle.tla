--------------------------- MODULE TaskLifecycle ---------------------------
(***************************************************************************)
(* What AgentController.run_task promises its caller, with no event, tool  *)
(* or message in sight: a task is a run of paid model responses under two  *)
(* limits, it ends once, and its outcome says truthfully why.              *)
(*                                                                         *)
(* A response is either recorded (its tools ran, and the limits are looked *)
(* at again), or the answer that completes the task.  The task may also be *)
(* aborted at any moment by its deadline or by an exception.               *)
(***************************************************************************)
EXTENDS Integers

CONSTANTS
    StepLimits,     \* the values of max_steps a run may work under
    Budgets,        \* the values of max_cost a run may work under
    Costs           \* what one model response may cost

VARIABLES
    outcome,        \* "idle", "running", or how the task ended
    maxSteps,       \* the step limit in force
    maxCost,        \* the budget in force
    used,           \* the number of recorded responses
    cost            \* the recorded cost

lifecycleVars == <<outcome, maxSteps, maxCost, used, cost>>

Aborts   == {"timeout", "exception"}
Outcomes == {"complete", "max_steps_exceeded", "cost_exceeded"} \cup Aborts

\* What the two guards say of u recorded responses that cost c, the step
\* limit first.
Verdict(u, c) ==
    IF u >= maxSteps THEN "max_steps_exceeded"
    ELSE IF c >= maxCost THEN "cost_exceeded" ELSE "running"

Init ==
    /\ outcome = "idle"
    /\ maxSteps \in StepLimits
    /\ maxCost \in Budgets
    /\ used = 0
    /\ cost = 0

Begin ==
    /\ outcome = "idle"
    /\ outcome' = Verdict(0, 0)
    /\ UNCHANGED <<maxSteps, maxCost, used, cost>>

\* A response that called tools: it counts against both limits, and the task
\* ends in the same step when one of them is reached.
Record(c) ==
    /\ outcome = "running"
    /\ used' = used + 1
    /\ cost' = cost + c
    /\ outcome' = Verdict(used', cost')
    /\ UNCHANGED <<maxSteps, maxCost>>

Answer(c) ==
    /\ outcome = "running"
    /\ used' = used + 1
    /\ cost' = cost + c
    /\ outcome' = "complete"
    /\ UNCHANGED <<maxSteps, maxCost>>

Abort(e) ==
    /\ outcome = "running"
    /\ outcome' = e
    /\ UNCHANGED <<maxSteps, maxCost, used, cost>>

Next ==
    \/ Begin
    \/ \E c \in Costs : Record(c) \/ Answer(c)
    \/ \E e \in Aborts : Abort(e)

Spec == Init /\ [][Next]_lifecycleVars
=============================================================================
