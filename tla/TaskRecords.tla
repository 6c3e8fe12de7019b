----------------------------- MODULE TaskRecords -----------------------------
(***************************************************************************)
(* What the enclave promises the hosts that send it tasks, with no handler,*)
(* connection, event or transaction in sight: a task id is run once, what  *)
(* is on record of it only grows, and an answer is given for what is on    *)
(* record in full and stays so, through any crash.                         *)
(*                                                                         *)
(* One write may carry the records of several tasks on (a commit of the    *)
(* shared connection does), and a write may be lost before it is made: a   *)
(* crash is no step here.                                                  *)
(***************************************************************************)
EXTENDS Naturals

CONSTANTS
    TaskIds         \* the tasks

VARIABLES
    record,         \* what is durably known of each task
    runs,           \* how often each was run
    answered        \* the tasks whose result was given

recordVars == <<record, runs, answered>>

Record == [status : {"none", "running", "completed"}, total : Nat, steps : Nat, costs : Nat]
Blank  == [status |-> "none", total |-> 0, steps |-> 0, costs |-> 0]

\* Record b is a, or what a may become: a task is accepted, it is completed with its
\* total, and its steps and costs are added one after the other.
GoesOn(a, b) ==
    \/ a.status = "none"
    \/ a.status = "running" /\ b.status = "completed"
    \/ a.status = b.status /\ a.total = b.total /\ a.steps <= b.steps /\ a.costs <= b.costs

\* All that belongs to the result is on record.
InFull(a) == a.status = "completed" /\ a.steps = a.total /\ a.costs = a.total

Init ==
    /\ record = [t \in TaskIds |-> Blank]
    /\ runs = [t \in TaskIds |-> 0]
    /\ answered = {}

\* Records go on, but for those that were answered.
Write ==
    /\ record' \in [TaskIds -> Record]
    /\ \A t \in TaskIds : GoesOn(record[t], record'[t])
    /\ \A t \in answered : record'[t] = record[t]
    /\ \A t \in TaskIds : record'[t].status = "completed" => runs[t] = 1

\* A task is run for the first time, and is on record before it is.
Run(t) ==
    /\ Write
    /\ runs[t] = 0
    /\ runs' = [runs EXCEPT ![t] = 1]
    /\ record'[t].status = "running"
    /\ UNCHANGED answered

Store ==
    /\ Write
    /\ UNCHANGED <<runs, answered>>

Answer(t) ==
    /\ InFull(record[t])
    /\ answered' = answered \cup {t}
    /\ UNCHANGED <<record, runs>>

Next ==
    \/ \E t \in TaskIds : Run(t) \/ Answer(t)
    \/ Store

Spec == Init /\ [][Next]_recordVars
=============================================================================
