--------------------------- MODULE EnclaveService ---------------------------
(***************************************************************************)
(* Task requests inside the enclave: EnclaveService._handle_task_request   *)
(* (enclave/main.py) with the connections of VsockServer, the one agent    *)
(* controller and its one event queue, and the one database connection of  *)
(* TaskStateDB, on which a commit commits whatever any handler has written.*)
(*                                                                         *)
(* Every connection has a handler of its own, and they interleave where    *)
(* they suspend: in a statement or commit of the database, in run_task     *)
(* (AgentLoop has its inside), and in taking an event from an empty queue. *)
(* A task ends without suspending between its last event and the           *)
(* cancellation of the stream (wait_for awaits in place since Python 3.12).*)
(***************************************************************************)
EXTENDS Naturals, Sequences, FiniteSets

CONSTANTS
    Requests,       \* the task_request messages that may arrive
    TaskIds,        \* the task ids they may carry; two may carry the same
    NoRequest,      \* no one's event queue
    MaxAtOnce,      \* bound: requests handled at the same time
    MaxEvents,      \* bound: events of a task, the last one not counted
    MaxResults,     \* bound: step results of a task
    MaxCrashes      \* bound: crashes of the enclave

ASSUME ServiceAssumption ==
    /\ NoRequest \notin Requests
    /\ MaxAtOnce \in Nat
    /\ MaxEvents \in Nat
    /\ MaxResults \in Nat
    /\ MaxCrashes \in Nat

VARIABLES
    pc,         \* where the handler of each request is
    task,       \* the task id a request carries
    connected,  \* the clients that still hold their connection
    owner,      \* whose queue is the controller's _event_queue
    queue,      \* the event queue made for each request
    streaming,  \* the requests whose stream_events_loop is alive
    wire,       \* the frames written to each connection
    emitted,    \* how many events each task has emitted
    results,    \* the step results of each finished task
    recorded,   \* how many of them record_step has done
    db,         \* the rows as the connection sees them
    disk,       \* the rows that are committed
    runs,       \* history: how often run_task was called for each task id
    crashes     \* crashes so far

handling == <<pc, task, connected>>
stream   == <<owner, queue, streaming, wire, emitted>>
store    == <<results, recorded, db, disk>>
vars     == <<handling, stream, store, runs, crashes>>

-----------------------------------------------------------------------------
(***************************************************************************)
(* Frames and rows                                                         *)
(***************************************************************************)

Event(r, n, e)  == [kind |-> "step_event", of |-> r, n |-> n, final |-> e]
Reply(k, r)     == [kind |-> k, of |-> r, n |-> 0, final |-> TRUE]

\* A row of tasks, and how many rows of steps and cost_log go with it.  Every
\* step result costs one unit; a task that failed is completed like any other.
Row   == [status : {"none", "running", "completed"}, total : Nat, steps : Nat, costs : Nat]
NoRow == [status |-> "none", total |-> 0, steps |-> 0, costs |-> 0]

Busy   == {r \in Requests : pc[r] \notin {"idle", "done", "failed", "lost"}}

\* The statements are left to a later commit.
NoCommit == UNCHANGED disk
\* db.commit() commits every handler's statements.
Commit == disk' = db

\* write_frame: nothing arrives at a client that has gone.
Written(w, r, frames) == IF r \in connected THEN [w EXCEPT ![r] = @ \o frames] ELSE w

Init ==
    /\ pc = [r \in Requests |-> "idle"]
    /\ task \in [Requests -> TaskIds]
    /\ connected = {}
    /\ owner = NoRequest
    /\ queue = [r \in Requests |-> <<>>]
    /\ streaming = {}
    /\ wire = [r \in Requests |-> <<>>]
    /\ emitted = [r \in Requests |-> 0]
    /\ results = [r \in Requests |-> 0]
    /\ recorded = [r \in Requests |-> 0]
    /\ db = [t \in TaskIds |-> NoRow]
    /\ disk = [t \in TaskIds |-> NoRow]
    /\ runs = [t \in TaskIds |-> 0]
    /\ crashes = 0

-----------------------------------------------------------------------------
(***************************************************************************)
(* The handler of a request                                                *)
(***************************************************************************)

\* The task id is taken for new whatever the table holds.
AlwaysFresh(t) == TRUE
\* task_id is the primary key of the table.
Fresh(t) == db[t].status = "none"

\* A request with a description arrives: create_task inserts its row.
CreateTask(r) ==
    /\ pc[r] = "idle"
    /\ Cardinality(Busy) < MaxAtOnce
    /\ Fresh(task[r])
    /\ pc' = [pc EXCEPT ![r] = "created"]
    /\ connected' = connected \cup {r}
    /\ db' = [db EXCEPT ![task[r]] = [NoRow EXCEPT !.status = "running"]]
    /\ UNCHANGED <<task, stream, results, recorded, disk, runs, crashes>>

\* The row exists: the server answers with an error frame.
RejectTask(r) ==
    /\ pc[r] = "idle"
    /\ ~Fresh(task[r])
    /\ pc' = [pc EXCEPT ![r] = "failed"]
    /\ connected' = connected \cup {r}
    /\ wire' = [wire EXCEPT ![r] = <<Reply("error", r)>>]
    /\ UNCHANGED <<task, owner, queue, streaming, emitted, store, runs, crashes>>

\* The insert is committed.  Without a suspension: a new event queue becomes the
\* controller's, the stream task is made, and run_task runs up to the first
\* model call, which emits the first event.
StartTask(r) ==
    /\ pc[r] = "created"
    /\ Commit
    /\ pc' = [pc EXCEPT ![r] = "running"]
    /\ owner' = r
    /\ queue' = [queue EXCEPT ![r] = <<Event(r, 1, FALSE)>>]
    /\ streaming' = streaming \cup {r}
    /\ emitted' = [emitted EXCEPT ![r] = 1]
    /\ runs' = [runs EXCEPT ![task[r]] = @ + 1]
    /\ UNCHANGED <<task, connected, wire, results, recorded, db, crashes>>

\* The task goes on and emits an event, to the queue the controller has now.
Emit(r) ==
    /\ pc[r] = "running"
    /\ emitted[r] < MaxEvents
    /\ emitted' = [emitted EXCEPT ![r] = @ + 1]
    /\ queue' = [queue EXCEPT ![owner] = Append(@, Event(r, emitted[r] + 1, FALSE))]
    /\ UNCHANGED <<handling, owner, streaming, wire, store, runs, crashes>>

\* The stream writes what it has taken a second time.
TwiceFrom(q) == q \o q
\* What the stream writes of the events it took.
TakenFrom(q) == q

\* stream_events_loop works off its queue: all that is there, or as much as the
\* client's buffers hold.  A connection that is gone makes the write raise, which
\* ends the loop.
Stream(r) ==
    /\ r \in streaming
    /\ \E k \in 1..Len(queue[r]) :
         /\ wire' = Written(wire, r, TakenFrom(SubSeq(queue[r], 1, k)))
         /\ queue' = [queue EXCEPT ![r] = SubSeq(@, k + 1, Len(@))]
    /\ streaming' = IF r \in connected THEN streaming ELSE streaming \ {r}
    /\ UNCHANGED <<handling, owner, emitted, store, runs, crashes>>

\* The stream is left running.
StreamOn(r) == streaming
\* stream_task.cancel(), and the handler waits until it is over.
StreamStopped(r) == streaming \ {r}

\* run_task emits its last event and returns; the stream is cancelled before it
\* can run again, so that what is in the queue now stays there.
EndTask(r) ==
    /\ pc[r] = "running"
    /\ pc' = [pc EXCEPT ![r] = "ended"]
    /\ emitted' = [emitted EXCEPT ![r] = @ + 1]
    /\ queue' = [queue EXCEPT ![owner] = Append(@, Event(r, emitted[r] + 1, TRUE))]
    /\ streaming' = StreamStopped(r)
    /\ \E n \in 0..MaxResults : results' = [results EXCEPT ![r] = n]
    /\ UNCHANGED <<task, connected, owner, wire, recorded, db, disk, runs, crashes>>

\* complete_task: the update, then the commit.
CompleteTask(r) ==
    /\ pc[r] = "ended"
    /\ pc' = [pc EXCEPT ![r] = "completed"]
    /\ db' = [db EXCEPT ![task[r]].status = "completed", ![task[r]].total = results[r]]
    /\ UNCHANGED <<task, connected, stream, results, recorded, disk, runs, crashes>>

CommitTask(r) ==
    /\ pc[r] = "completed"
    /\ Commit
    /\ pc' = [pc EXCEPT ![r] = "recording"]
    /\ UNCHANGED <<task, connected, stream, results, recorded, db, runs, crashes>>

\* The row in steps is committed by itself.
RecordStepAlone(r) ==
    /\ pc[r] = "recording"
    /\ recorded[r] < results[r]
    /\ pc' = [pc EXCEPT ![r] = "stepped"]
    /\ db' = [db EXCEPT ![task[r]].steps = @ + 1]
    /\ disk' = db'
    /\ UNCHANGED <<task, connected, stream, results, recorded, runs, crashes>>
\* record_step: the row in steps, the row in cost_log, then the commit.
RecordStep(r) ==
    /\ pc[r] = "recording"
    /\ recorded[r] < results[r]
    /\ pc' = [pc EXCEPT ![r] = "stepped"]
    /\ db' = [db EXCEPT ![task[r]].steps = @ + 1]
    /\ UNCHANGED <<task, connected, stream, results, recorded, disk, runs, crashes>>

RecordCost(r) ==
    /\ pc[r] = "stepped"
    /\ pc' = [pc EXCEPT ![r] = "costed"]
    /\ db' = [db EXCEPT ![task[r]].costs = @ + 1]
    /\ UNCHANGED <<task, connected, stream, results, recorded, disk, runs, crashes>>

CommitStep(r) ==
    /\ pc[r] = "costed"
    /\ Commit
    /\ pc' = [pc EXCEPT ![r] = "recording"]
    /\ recorded' = [recorded EXCEPT ![r] = @ + 1]
    /\ UNCHANGED <<task, connected, stream, results, db, runs, crashes>>

\* The receipt is signed and the task_result frame written.
SendResult(r) ==
    /\ pc[r] = "recording"
    /\ recorded[r] = results[r]
    /\ pc' = [pc EXCEPT ![r] = "done"]
    /\ wire' = Written(wire, r, <<Reply("task_result", r)>>)
    /\ UNCHANGED <<task, connected, owner, queue, streaming, emitted, store, runs, crashes>>

-----------------------------------------------------------------------------
(***************************************************************************)
(* The environment                                                         *)
(***************************************************************************)

\* The client gives up waiting for a frame and closes.  Its task goes on.
Disconnect(r) ==
    /\ r \in connected
    /\ connected' = connected \ {r}
    /\ UNCHANGED <<pc, task, stream, store, runs, crashes>>

\* The enclave dies and is started again on the same database file.
Crash ==
    /\ crashes < MaxCrashes
    /\ crashes' = crashes + 1
    /\ pc' = [r \in Requests |-> IF r \in Busy THEN "lost" ELSE pc[r]]
    /\ connected' = {}
    /\ owner' = NoRequest
    /\ queue' = [r \in Requests |-> <<>>]
    /\ streaming' = {}
    /\ db' = disk
    /\ UNCHANGED <<task, wire, emitted, results, recorded, disk, runs>>

\* Every request has been dealt with.
Finished ==
    /\ \A r \in Requests : pc[r] \in {"done", "failed", "lost"}
    /\ UNCHANGED vars

Next ==
    \/ \E r \in Requests :
         \/ CreateTask(r) \/ RejectTask(r) \/ StartTask(r)
         \/ Emit(r) \/ Stream(r) \/ EndTask(r)
         \/ CompleteTask(r) \/ CommitTask(r)
         \/ RecordStep(r) \/ RecordCost(r) \/ CommitStep(r) \/ SendResult(r)
         \/ Disconnect(r)
    \/ Crash
    \/ Finished

Spec == Init /\ [][Next]_vars

-----------------------------------------------------------------------------
(***************************************************************************)
(* Properties                                                              *)
(***************************************************************************)

Frame == [kind : {"step_event", "task_result", "error"}, of : Requests, n : Nat,
          final : BOOLEAN]

\* The values of the variables; what is committed was written before.
TypeOK ==
    /\ pc \in [Requests -> {"idle", "created", "running", "ended", "completed",
                            "recording", "stepped", "costed", "done", "failed", "lost"}]
    /\ task \in [Requests -> TaskIds]
    /\ connected \in SUBSET Requests
    /\ owner \in Requests \cup {NoRequest}
    /\ queue \in [Requests -> Seq(Frame)]
    /\ streaming \in SUBSET Requests
    /\ wire \in [Requests -> Seq(Frame)]
    /\ emitted \in [Requests -> 0..(MaxEvents + 1)]
    /\ results \in [Requests -> 0..MaxResults]
    /\ recorded \in [Requests -> 0..MaxResults]
    /\ db \in [TaskIds -> Row]
    /\ disk \in [TaskIds -> Row]
    /\ runs \in [TaskIds -> Nat]
    /\ crashes \in 0..MaxCrashes
    /\ streaming \subseteq {r \in Requests : pc[r] = "running"}

\* Whichever connection the events of a task end up on, they are there in the
\* order they were emitted in, and none of them twice (stream_events_loop).
EventsInOrder ==
    \A r \in Requests : \A i, j \in DOMAIN wire[r] :
      /\ i < j
      /\ wire[r][i].kind = "step_event" /\ wire[r][j].kind = "step_event"
      /\ wire[r][i].of = wire[r][j].of
      => wire[r][i].n < wire[r][j].n

\* A connection carries at most one closing frame, its own, and nothing comes
\* behind it, although other tasks may still feed the queue of the connection:
\* the client stops reading there (VsockClient.send_stream).
ResultComesLast ==
    \A r \in Requests : \A i \in DOMAIN wire[r] :
      wire[r][i].kind # "step_event" => i = Len(wire[r]) /\ wire[r][i].of = r

\* What a client reads until it stops: events in order, then its one result.
FramesInOrder == EventsInOrder /\ ResultComesLast

\* When the result is sent, the database holds the task, its total and all its
\* steps and costs, whatever other handlers did to the shared connection and
\* whatever crash comes after.
DoneIsRecorded ==
    \A r \in Requests :
      pc[r] = "done" => disk[task[r]] = [status |-> "completed", total |-> results[r],
                                         steps |-> results[r], costs |-> results[r]]

\* A task id is run at most once, by however many requests it arrives, before or
\* after a crash; and a task that ran is on record (create_task before
\* run_task, and the primary key).
RunOnceAndOnRecord ==
    \A t \in TaskIds :
      /\ runs[t] <= 1
      /\ runs[t] = 1 => disk[t].status # "none"

\* The cost rows follow the step rows of a task one behind the other, and never
\* exceed the total it was completed with.  record_step commits the two rows
\* together: one can only be on disk without the other when a commit of another
\* task's handler came between them, on the shared connection.
CostsFollowSteps ==
    \A t \in TaskIds :
      /\ disk[t].costs <= disk[t].steps
      /\ disk[t].steps <= disk[t].costs + 1
      /\ disk[t].steps > 0 =>
           disk[t].status = "completed" /\ disk[t].steps <= disk[t].total
      /\ disk[t].steps # disk[t].costs =>
           \E r \in Requests : task[r] # t /\ pc[r] \notin {"idle", "failed"}

\* The tasks whose result was sent, to a client that may have left.
Answered == {t \in TaskIds : \E r \in Requests : task[r] = t /\ pc[r] = "done"}

Records == INSTANCE TaskRecords WITH
    TaskIds <- TaskIds, record <- disk, runs <- runs, answered <- Answered

\* However the handlers share the connection to the database, and wherever the enclave
\* dies, it keeps records as TaskRecords says: a task id is run once and never again,
\* nothing on record is taken back, and a result is sent only for what is there in full
\* (_handle_task_request: create_task, run_task, complete_task, record_step, the answer).
ImplementsTaskRecords == Records!Spec
=============================================================================
