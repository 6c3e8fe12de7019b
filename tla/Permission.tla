----------------------------- MODULE Permission -----------------------------
(***************************************************************************)
(* Permission prompts: the tool calls of a response ask for permission in  *)
(* parallel (AgentController._check_permission), each through an event on  *)
(* the queue and a future in the terminal interface's single slot          *)
(* _permission_future (tui.py), and the interface asks the user.           *)
(*                                                                         *)
(* Everything runs on one event loop.  Prompt.ask is a blocking read, and  *)
(* taking the next event from a queue that is not empty does not suspend,  *)
(* so the interface works off all queued requests before anything else     *)
(* runs.  The children of gather are started in one pass of the loop, and  *)
(* the interface is woken behind them.                                     *)
(*                                                                         *)
(* A call whose argument check raises ends the turn and leaves the others  *)
(* running, so that calls of an earlier turn may still wait in a later one.*)
(***************************************************************************)
EXTENDS Naturals, Sequences, FiniteSets

CONSTANTS
    MaxCalls,       \* tool_use blocks in a response
    MaxAsking,      \* bound: those of them for tools in DANGEROUS_TOOLS
    MaxSteps        \* bound: responses with tool calls

ASSUME PermissionAssumption ==
    /\ MaxCalls \in Nat \ {0}
    /\ MaxAsking \in 0..MaxCalls
    /\ MaxSteps \in Nat

Calls == 1..MaxCalls
None  == 0

VARIABLES
    require,    \* _require_permission of the controller and the TUI
    st,         \* state of each child task of gather
    slot,       \* the call whose future _permission_future holds, or None
    result,     \* what each call's future was resolved with: "open", "yes", "no"
    queue,      \* the permission_request events not yet handled, by call
    tui,        \* "listening", "prompting" (holds the loop), "gone"
    said,       \* history: the user's answer to the prompt for each call
    turn,       \* "open", or "over" when a deadline or an exception ended it
    waited,     \* the calls gather waits for; others are left from before
    alone,      \* history: no two permissions were ever waited for at once
    steps       \* steps begun

vars == <<require, st, slot, result, queue, tui, said, turn, waited, alone, steps>>

\* A call asks, runs its tool (retries included), and has ended, was denied,
\* was cancelled or raised; "none": there is no such call.
Ended == {"none", "ended", "denied", "cancelled", "raised"}

Init ==
    /\ require \in BOOLEAN
    /\ st = [i \in Calls |-> "none"]
    /\ slot = None
    /\ result = [i \in Calls |-> "open"]
    /\ queue = <<>>
    /\ tui = "listening"
    /\ said = [i \in Calls |-> "none"]
    /\ turn = "open"
    /\ waited = {}
    /\ alone = TRUE
    /\ steps = 0

\* The event loop is free: the TUI does not sit in a prompt.
LoopFree == tui # "prompting"

\* A call whose future is resolved wakes up in the next pass of the loop, before
\* any timer or answer of the model gets a turn.
Settled == \A i \in Calls : st[i] = "asking" => result[i] = "open"

\* The calls of S in the order of the blocks.
InOrder(S) ==
    CHOOSE q \in [1..Cardinality(S) -> S] : \A a, b \in 1..Cardinality(S) : a < b => q[a] < q[b]

\* A future for each call instead of the one slot: the first keeps it.
SlotOfFirst(S) == CHOOSE i \in S : \A j \in S : i <= j
\* Each callback overwrites the slot, so that the last one keeps it.
SlotOf(S) == CHOOSE i \in S : \A j \in S : j <= i

\* A call gets the future of the call that had its place before.
OldFuture(r, C) == r
\* Every callback creates a future of its own.
NewFuture(r, C) == [i \in Calls |-> IF i \in C THEN "open" ELSE r[i]]

\* A response has the calls C, D of them for dangerous tools.  Every child runs
\* to its first suspension: in tool.run, or waiting for the permission.
StartCalls(C, D) ==
    /\ LoopFree
    /\ Settled
    /\ turn = "open"
    /\ steps < MaxSteps
    /\ \A i \in C \cup waited : st[i] \in Ended
    /\ steps' = steps + 1
    /\ waited' = C
    /\ LET asking == IF require THEN D ELSE {}
       IN /\ st' = [i \in Calls |-> CASE i \in asking -> "asking"
                                      [] i \in C \ asking -> "running"
                                      [] OTHER -> st[i]]
          /\ queue' = queue \o InOrder(asking)
          /\ slot' = IF asking = {} THEN slot ELSE SlotOf(asking)
          /\ alone' = (alone /\ Cardinality({i \in Calls : st'[i] = "asking"}) <= 1)
    /\ result' = NewFuture(result, C)
    /\ said' = [i \in Calls |-> IF i \in C THEN "none" ELSE said[i]]
    /\ UNCHANGED <<require, tui, turn>>

\* The answer goes to whatever future is in the slot, if it is still open.
Resolve(r) ==
    result' = IF slot # None /\ result[slot] = "open"
              THEN [result EXCEPT ![slot] = r] ELSE result

\* Every answer is taken for a yes.
AlwaysYes(answer) == "yes"
\* allowed: "a" allows like "y", and so does a prompt that fails.
Allowed(answer) == IF answer = "n" THEN "no" ELSE "yes"

\* The TUI takes the next request and asks the user, for as long as it takes.
\* "a" turns permission mode off.
AskUser(answer) ==
    /\ tui # "gone"
    /\ queue # <<>>
    /\ said' = [said EXCEPT ![Head(queue)] = answer]
    /\ Resolve(Allowed(answer))
    /\ require' = (require /\ answer # "a")
    /\ queue' = Tail(queue)
    /\ tui' = IF Tail(queue) = <<>> THEN "listening" ELSE "prompting"
    /\ UNCHANGED <<st, slot, turn, waited, alone, steps>>

\* An exception while an event is shown ends the TUI's event loop; the turn
\* goes on without it.
StopListening ==
    /\ tui # "gone"
    /\ steps > 0
    /\ tui' = "gone"
    /\ UNCHANGED <<require, st, slot, result, queue, said, turn, waited, alone, steps>>

\* The slot is left as it is.
KeepSlot == slot' = slot
\* The callback's finally clause empties the slot, whoever's future is in it.
EmptySlot == slot' = None

\* The future is resolved: the callback returns, and the tool runs or not.
Answered(i) ==
    /\ LoopFree
    /\ st[i] = "asking"
    /\ result[i] # "open"
    /\ EmptySlot
    /\ st' = [st EXCEPT ![i] = IF result[i] = "yes" THEN "running" ELSE "denied"]
    /\ UNCHANGED <<require, result, queue, tui, said, turn, waited, alone, steps>>

\* The callback waits for the answer as long as it takes.
NoTimeout(i) == FALSE
\* 120 seconds without an answer.  A TUI that listens has taken all requests by
\* then.
TimedOut(i) ==
    /\ st[i] = "asking"
    /\ result[i] = "open"
    /\ queue = <<>> \/ tui = "gone"

\* The callback allows the call.
PermissionTimeout(i) ==
    /\ LoopFree
    /\ TimedOut(i)
    /\ EmptySlot
    /\ st' = [st EXCEPT ![i] = "running"]
    /\ UNCHANGED <<require, result, queue, tui, said, turn, waited, alone, steps>>

EndCall(i) ==
    /\ LoopFree
    /\ st[i] = "running"
    /\ st' = [st EXCEPT ![i] = "ended"]
    /\ UNCHANGED <<require, slot, result, queue, tui, said, turn, waited, alone, steps>>

\* The argument check raises: gather hands the exception on, which ends the
\* turn, and lets the other calls be.
CallRaises(i) ==
    /\ LoopFree
    /\ st[i] = "running"
    /\ st' = [st EXCEPT ![i] = "raised"]
    /\ turn' = IF i \in waited THEN "over" ELSE turn
    /\ waited' = IF i \in waited THEN {} ELSE waited
    /\ UNCHANGED <<require, slot, result, queue, tui, said, alone, steps>>

\* The deadline of the turn cancels the calls gather waits for; the callbacks'
\* finally clauses run.  Requests stay in the queue.
TurnTimeout ==
    /\ LoopFree
    /\ \E i \in waited : st[i] \notin Ended
    /\ Settled
    /\ IF \E i \in waited : st[i] = "asking" THEN EmptySlot ELSE UNCHANGED slot
    /\ st' = [i \in Calls |-> IF i \in waited /\ st[i] \notin Ended
                              THEN "cancelled" ELSE st[i]]
    /\ turn' = "over"
    /\ waited' = {}
    /\ UNCHANGED <<require, result, queue, tui, said, alone, steps>>

\* The turn has ended, by an answer or before its time: the next one gets a
\* fresh queue and a TUI that listens; /permissions may switch the mode in
\* between.
NextTurn ==
    /\ LoopFree
    /\ Settled
    /\ \A i \in waited : st[i] \in Ended
    /\ queue = <<>> \/ tui = "gone"
    /\ steps \in 1..(MaxSteps - 1)
    /\ tui' = "listening"
    /\ queue' = <<>>
    /\ require' \in BOOLEAN
    /\ turn' = "open"
    /\ waited' = {}
    /\ UNCHANGED <<st, slot, result, said, alone, steps>>

\* Nothing is left to do.
Finished ==
    /\ steps = MaxSteps
    /\ \A i \in Calls : st[i] \in Ended
    /\ queue = <<>> \/ tui = "gone"
    /\ UNCHANGED vars

Next ==
    \/ \E C \in SUBSET Calls : \E D \in SUBSET C :
         C # {} /\ Cardinality(D) <= MaxAsking /\ StartCalls(C, D)
    \/ \E answer \in {"y", "n", "a", "failed"} : AskUser(answer)
    \/ StopListening
    \/ \E i \in Calls : Answered(i) \/ PermissionTimeout(i) \/ EndCall(i) \/ CallRaises(i)
    \/ TurnTimeout
    \/ NextTurn
    \/ Finished

Spec == Init /\ [][Next]_vars

\* Timers fire and ready tasks run, once the loop is free.  The user answers:
\* Prompt.ask has no timeout, and nothing goes on without an answer.
Fairness ==
    /\ WF_vars(\E answer \in {"y", "n", "a", "failed"} : AskUser(answer))
    /\ \A i \in Calls : WF_vars(Answered(i)) /\ WF_vars(PermissionTimeout(i))

FairSpec == Spec /\ Fairness

-----------------------------------------------------------------------------
(***************************************************************************)
(* Properties                                                              *)
(***************************************************************************)

\* The values of the variables.
TypeOK ==
    /\ require \in BOOLEAN
    /\ st \in [Calls -> {"none", "asking", "running", "ended", "denied", "cancelled", "raised"}]
    /\ slot \in Calls \cup {None}
    /\ result \in [Calls -> {"open", "yes", "no"}]
    /\ queue \in Seq(Calls)
    /\ tui \in {"listening", "prompting", "gone"}
    /\ said \in [Calls -> {"none", "y", "n", "a", "failed"}]
    /\ turn \in {"open", "over"}
    /\ waited \in SUBSET Calls
    /\ alone \in BOOLEAN
    /\ steps \in 0..MaxSteps

\* The slot never holds the future of a call that is no longer waiting, so that
\* an answer given now cannot reach a call of an earlier step (the finally
\* clause of _permission_callback).
SlotIsWaiting == slot # None => st[slot] = "asking"

\* As long as one call at a time waits for a permission, the answer of the user
\* is the fate of the call it was asked for, across steps and turns, deadlines
\* and calls left from an earlier turn: a call that was refused does not run,
\* one that was allowed is not refused (_permission_callback, _check_permission).
AnswersReachTheirCall ==
    alone => \A i \in Calls :
               /\ said[i] = "n" => st[i] \notin {"running", "ended"}
               /\ said[i] = "y" => st[i] # "denied"

\* Every call that asks is let go in the end, even when its answer went to
\* another call or the interface is gone: no response waits for ever.
AskingEnds == \A i \in Calls : st[i] = "asking" ~> st[i] # "asking"

-----------------------------------------------------------------------------
(***************************************************************************)
(* What the messages of the code say, and the code does not do             *)
(***************************************************************************)

\* A call the user refused is not run ("Permission denied by user for ..." in
\* controller.py): two calls that ask at once exchange their answers.
DeniedNeverRuns ==
    \A i \in Calls : said[i] = "n" => st[i] \notin {"running", "ended"}
=============================================================================
