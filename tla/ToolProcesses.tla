---------------------------- MODULE ToolProcesses ----------------------------
(***************************************************************************)
(* One call of a tool that runs commands, bash, code_exec or git, from     *)
(* AgentController._dispatch_with_retry over ToolRouter.dispatch down to   *)
(* the processes.  Three layers stop waiting for a command: the tool, with *)
(* the limit of the call, the router after DEFAULT_TOOL_TIMEOUT_SECONDS,   *)
(* and the deadline of the task or the user, who cancel the call.  None of *)
(* them ends the process.  Time passes in ticks while a command is waited  *)
(* for; the sleeps between two attempts take less than one.                *)
(***************************************************************************)
EXTENDS Naturals, Sequences

CONSTANTS
    ShellLimits,    \* limits of bash and code_exec calls, in ticks
    GitLimit,       \* DEFAULT_TIMEOUT of git_tool.py, in ticks
    RouterLimit,    \* DEFAULT_TOOL_TIMEOUT_SECONDS, in ticks
    MaxToolRetries  \* MAX_TOOL_RETRIES

ASSUME ToolProcessesAssumption ==
    /\ ShellLimits \subseteq Nat \ {0}
    /\ GitLimit \in Nat \ {0}
    /\ RouterLimit \in Nat \ {0}
    /\ MaxToolRetries \in Nat

VARIABLES
    tool,     \* the tool of the call: kind, commands of one attempt, limit
    phase,    \* new, spawning, waiting, sleeping, reported or cancelled
    attempt,  \* attempts begun
    command,  \* number of the command within the attempt
    age,      \* ticks since the router called the tool
    wait,     \* ticks since the command was started
    elapsed,  \* ticks since the call
    procs,    \* every process of the call, in the order they were started
    report    \* what the call returned to the controller

clocks == <<age, wait, elapsed>>
vars   == <<tool, phase, attempt, command, clocks, procs, report>>

\* A commit is `git add -u`, whose exit code nobody looks at, and `git commit`.
Calls == [kind : {"shell"}, commands : {1}, limit : ShellLimits]
            \cup [kind : {"git"}, commands : 1..2, limit : {GitLimit}]

NoReport == [success |-> FALSE, by |-> "none"]
Failure(by) == [NoReport EXCEPT !.by = by]
Last     == procs[Len(procs)]
Over     == phase \in {"reported", "cancelled"}

Init ==
    /\ tool \in Calls
    /\ phase = "new" /\ attempt = 0 /\ command = 1
    /\ age = 0 /\ wait = 0 /\ elapsed = 0
    /\ procs = <<>>
    /\ report = NoReport

-----------------------------------------------------------------------------
(***************************************************************************)
(* The retries of the controller and the call of the tool                  *)
(***************************************************************************)

\* The first attempt, or the next one after the sleep.
Dispatch ==
    /\ phase \in {"new", "sleeping"}
    /\ phase' = "spawning"
    /\ attempt' = attempt + 1
    /\ command' = 1
    /\ age' = 0
    /\ UNCHANGED <<tool, wait, elapsed, procs, report>>

\* A retry more.
AfterOneMore(r) == IF r.success \/ attempt > MaxToolRetries + 1 THEN "reported" ELSE "sleeping"
\* Whether it succeeded or not, the attempt is repeated.
AfterAny(r) == IF attempt > MaxToolRetries THEN "reported" ELSE "sleeping"
\* A failed attempt is repeated until there were MAX_TOOL_RETRIES + 1.
After(r) == IF r.success \/ attempt > MaxToolRetries THEN "reported" ELSE "sleeping"

EndAttempt(r) ==
    /\ phase' = After(r)
    /\ report' = IF phase' = "reported" THEN r ELSE report

\* create_subprocess_exec.
Spawn ==
    /\ phase = "spawning"
    /\ phase' = "waiting"
    /\ procs' = Append(procs, [attempt |-> attempt, command |-> command, state |-> "running",
                               fate |-> "awaited"])
    /\ wait' = 0
    /\ UNCHANGED <<tool, attempt, command, age, elapsed, report>>

\* An attempt that ends with an exception is not counted.
SpawnFailsUncounted ==
    /\ phase = "spawning"
    /\ phase' = "sleeping"
    /\ attempt' = attempt - 1
    /\ UNCHANGED <<tool, command, clocks, procs, report>>
\* It raises: no such program or directory.
SpawnFails ==
    /\ phase = "spawning"
    /\ EndAttempt(Failure("error"))
    /\ UNCHANGED <<tool, attempt, command, clocks, procs>>

-----------------------------------------------------------------------------
(***************************************************************************)
(* A command                                                               *)
(***************************************************************************)

\* A process ends and closes its pipes, whether or not anybody still waits.
Exit(i, state) ==
    /\ procs[i].state = "running"
    /\ procs' = [procs EXCEPT ![i].state = state]
    /\ UNCHANGED <<tool, phase, attempt, command, clocks, report>>

\* The output is taken without the exit.
AnyTime == TRUE
\* communicate() returns.
Ended == Last.state # "running"

\* The output of the command is there.  A second command follows, or the attempt
\* ends with the exit code.
Read ==
    /\ phase = "waiting"
    /\ Ended
    /\ procs' = [procs EXCEPT ![Len(procs)].fate = "read"]
    /\ IF command < tool.commands
       THEN phase' = "spawning" /\ command' = command + 1 /\ UNCHANGED report
       ELSE LET success == Last.state = "ok" IN
            /\ EndAttempt([success |-> success, by |-> "exit"])
            /\ UNCHANGED command
    /\ UNCHANGED <<tool, attempt, clocks>>

ToolDue == wait >= tool.limit
RouterDue == age >= RouterLimit

Abandon == procs' = [procs EXCEPT ![Len(procs)].fate = "abandoned"]

\* wait_for(process.communicate(), timeout) gives up; the process may just have
\* ended.
ToolTimesOut ==
    /\ phase = "waiting"
    /\ ToolDue
    /\ Abandon
    /\ EndAttempt(Failure("tool"))
    /\ UNCHANGED <<tool, attempt, command, clocks>>

\* wait_for(tool.run(...), timeout) gives up.
RouterTimesOut ==
    /\ phase = "waiting"
    /\ RouterDue
    /\ Abandon
    /\ EndAttempt(Failure("router"))
    /\ UNCHANGED <<tool, attempt, command, clocks>>

\* The call is cancelled: the deadline of the task, or the user.
Cancel ==
    /\ ~Over
    /\ phase' = "cancelled"
    /\ IF phase = "waiting" THEN Abandon ELSE UNCHANGED procs
    /\ UNCHANGED <<tool, attempt, command, clocks, report>>

\* Time passes until the next timer.
Tick ==
    /\ phase = "waiting"
    /\ ~ToolDue /\ ~RouterDue
    /\ age' = age + 1
    /\ wait' = wait + 1
    /\ elapsed' = elapsed + 1
    /\ UNCHANGED <<tool, phase, attempt, command, procs, report>>

-----------------------------------------------------------------------------
Call == Dispatch \/ Spawn \/ SpawnFails \/ Read \/ ToolTimesOut \/ RouterTimesOut

Next ==
    \/ Call \/ Tick \/ Cancel
    \/ \E i \in DOMAIN procs, state \in {"ok", "failed"} : Exit(i, state)

\* The event loop runs the call and its timers, and time passes.  A process need
\* not end, and nobody need cancel.
Spec == Init /\ [][Next]_vars /\ WF_vars(Call) /\ WF_vars(Tick)

-----------------------------------------------------------------------------
(***************************************************************************)
(* Properties                                                              *)
(***************************************************************************)

\* The values of the variables (the locals of _dispatch_with_retry, dispatch
\* and run).
TypeOK ==
    /\ tool \in Calls
    /\ phase \in {"new", "spawning", "waiting", "sleeping", "reported", "cancelled"}
    /\ attempt \in 0..MaxToolRetries + 1
    /\ command \in 1..tool.commands
    /\ age \in 0..RouterLimit
    /\ wait \in 0..tool.limit
    /\ elapsed \in Nat
    /\ procs \in Seq([attempt : 1..MaxToolRetries + 1, command : 1..tool.commands,
                      state : {"running", "ok", "failed"},
                      fate : {"awaited", "read", "abandoned"}])
    /\ report \in [success : BOOLEAN, by : {"none", "exit", "error", "tool", "router"}]

\* A command that was seen to succeed is not run again: it is the last process
\* of the call and the call reports it.  A call that reports a failure has seen
\* none succeed in any attempt (_dispatch_with_retry).
SuccessIsLast ==
    /\ \A i \in DOMAIN procs :
         procs[i].fate = "read" /\ procs[i].state = "ok" /\ procs[i].command = tool.commands
           => i = Len(procs) /\ phase = "reported" /\ report.success
    /\ report.success => Last.fate = "read" /\ Last.state = "ok" /\ Last.attempt = attempt
    /\ phase = "reported" /\ ~report.success => attempt = MaxToolRetries + 1

\* Two processes of a call run at once only when a timer has given the earlier
\* one up: `git commit` does not start while its `git add` runs.
OverlapOnlyAfterTimer ==
    \A i, j \in DOMAIN procs :
      i < j /\ procs[i].state = "running" /\ procs[j].state = "running" => procs[i].fate = "abandoned"

\* Whatever the limits of the tool are and however many commands it runs, the
\* call waits no longer than the attempts of the router together.
TimeBounded ==
    /\ elapsed <= (MaxToolRetries + 1) * RouterLimit
    /\ elapsed <= (MaxToolRetries + 1) * tool.commands * tool.limit

\* A call ends, by the timers alone if its processes never do.
CallEnds == <>Over

=============================================================================
