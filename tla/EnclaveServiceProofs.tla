-------------------------- MODULE EnclaveServiceProofs --------------------------
(***************************************************************************)
(* Proofs about EnclaveService, for any requests, task ids, events, step   *)
(* results and crashes.                                                    *)
(***************************************************************************)
EXTENDS EnclaveService, TLAPS

\* A handler that has made the row of its task and was not cut off by a crash.
Holders == {r \in Requests : pc[r] \notin {"idle", "failed", "lost"}}

\* The types of what the proof is about.
StoreTyped ==
    /\ pc \in [Requests -> {"idle", "created", "running", "ended", "completed",
                            "recording", "stepped", "costed", "done", "failed", "lost"}]
    /\ task \in [Requests -> TaskIds]
    /\ results \in [Requests -> Nat]
    /\ recorded \in [Requests -> Nat]
    /\ db \in [TaskIds -> Row]
    /\ disk \in [TaskIds -> Row]
    /\ runs \in [TaskIds -> Nat]

\* The row of a task whose handler is at place p, with n results of which m are
\* recorded.
RowAt(p, n, m) ==
    CASE p \in {"created", "running", "ended"} -> [NoRow EXCEPT !.status = "running"]
      [] p = "completed" -> [status |-> "completed", total |-> n, steps |-> 0, costs |-> 0]
      [] p = "recording" -> [status |-> "completed", total |-> n, steps |-> m, costs |-> m]
      [] p = "stepped"   -> [status |-> "completed", total |-> n, steps |-> m + 1, costs |-> m]
      [] p = "costed"    -> [status |-> "completed", total |-> n, steps |-> m + 1, costs |-> m + 1]
      [] OTHER           -> [status |-> "completed", total |-> n, steps |-> n, costs |-> n]

\* No two handlers hold the same task, and each finds the row as it left it.
RowsHeld ==
    /\ \A r, q \in Holders : task[r] = task[q] => r = q
    /\ \A r \in Holders : db[task[r]] = RowAt(pc[r], results[r], recorded[r])

\* What is committed is there, between two steps it is all that is there, and
\* nothing is recorded before the task has ended.
RowsCommitted ==
    /\ \A t \in TaskIds : disk[t].status # "none" => db[t].status # "none"
    /\ \A r \in Holders : pc[r] \in {"recording", "done"} => disk[task[r]] = db[task[r]]
    /\ \A r \in Requests : pc[r] \in {"idle", "created", "running", "ended", "completed"}
                              => recorded[r] = 0

\* A task runs once its row is committed, and not again.
RunsCounted ==
    /\ RunOnceAndOnRecord
    /\ \A r \in Requests : pc[r] = "created" => runs[task[r]] = 0

\* The inductive invariant.
StoreInv == StoreTyped /\ RowsHeld /\ RowsCommitted /\ RunsCounted

-----------------------------------------------------------------------------
\* The row of a task that is held is there.
LEMMA HeldRowIsThere ==
    ASSUME StoreInv, NEW r \in Holders PROVE db[task[r]].status # "none"
  <1>1. RowAt(pc[r], results[r], recorded[r]).status \in {"running", "completed"}
    BY DEF RowAt, NoRow
  <1> QED BY <1>1 DEF StoreInv, RowsHeld

\* Nothing is held or recorded at first.
LEMMA InitStore == Init => StoreInv
  BY DEF Init, StoreInv, StoreTyped, RowsHeld, RowsCommitted, RunsCounted, RunOnceAndOnRecord,
         Holders, Row, NoRow

\* The row is new, so that nobody holds it and it never ran.
LEMMA CreateTaskStore ==
    ASSUME StoreInv, NEW r \in Requests, CreateTask(r) PROVE StoreInv'
  <1> DEFINE t == task[r]
  <1>1. /\ t \in TaskIds /\ db[t].status = "none" /\ disk[t].status = "none"
        /\ pc[r] = "idle" /\ recorded[r] = 0
    BY DEF CreateTask, Fresh, StoreInv, StoreTyped, RowsCommitted
  <1>2. \A q \in Holders : task[q] # t
    BY <1>1, HeldRowIsThere
  <1>3. /\ Holders' = Holders \cup {r} /\ r \notin Holders
        /\ task' = task /\ results' = results /\ recorded' = recorded /\ disk' = disk
        /\ runs' = runs
        /\ db' = [db EXCEPT ![t] = [NoRow EXCEPT !.status = "running"]]
        /\ pc' = [pc EXCEPT ![r] = "created"]
    BY <1>1 DEF CreateTask, Holders, StoreInv, StoreTyped
  <1>4. StoreTyped'
    BY <1>1, <1>3 DEF StoreInv, StoreTyped, Row, NoRow
  <1>5. RowsHeld'
    <2>1. \A q \in Holders : db'[task'[q]] = db[task[q]] /\ pc'[q] = pc[q]
      BY <1>2, <1>3 DEF StoreInv, StoreTyped, Holders
    <2>2. db'[task'[r]] = RowAt(pc'[r], results'[r], recorded'[r])
      BY <1>1, <1>3 DEF StoreInv, StoreTyped, RowAt
    <2> QED BY <1>2, <1>3, <2>1, <2>2 DEF StoreInv, RowsHeld
  <1>6. RowsCommitted'
    BY <1>1, <1>2, <1>3 DEF StoreInv, StoreTyped, RowsCommitted, Holders, NoRow
  <1>7. RunsCounted'
    <2>1. runs[t] = 0
      BY <1>1 DEF StoreInv, StoreTyped, RunsCounted, RunOnceAndOnRecord
    <2> QED BY <1>3, <2>1 DEF StoreInv, StoreTyped, RunsCounted, RunOnceAndOnRecord
  <1> QED BY <1>4, <1>5, <1>6, <1>7 DEF StoreInv

\* A handler writes its row, to be committed later.
LEMMA WriteStore ==
    ASSUME StoreInv, NEW r \in Holders, NEW p \in {"completed", "stepped", "costed"},
           pc' = [pc EXCEPT ![r] = p],
           RowAt(p, results[r], recorded[r]) \in Row,
           db' = [db EXCEPT ![task[r]] = RowAt(p, results[r], recorded[r])],
           p = "completed" => recorded[r] = 0,
           UNCHANGED <<task, results, recorded, disk, runs>>
    PROVE  StoreInv'
  <1>1. r \in Requests /\ task[r] \in TaskIds /\ Holders' = Holders
    BY DEF Holders, StoreInv, StoreTyped
  <1>2. StoreTyped'
    BY <1>1 DEF StoreInv, StoreTyped
  <1>3. RowsHeld'
    BY <1>1 DEF StoreInv, StoreTyped, RowsHeld, Holders
  <1>4. RowsCommitted'
    <2>1. RowAt(p, results[r], recorded[r]).status # "none"
      BY DEF RowAt
    <2>2. \A q \in Holders : q # r => task[q] # task[r]
      BY DEF StoreInv, RowsHeld
    <2> QED BY <1>1, <2>1, <2>2 DEF StoreInv, StoreTyped, RowsCommitted, Holders
  <1>5. RunsCounted'
    BY <1>1 DEF StoreInv, StoreTyped, RunsCounted, RunOnceAndOnRecord
  <1> QED BY <1>2, <1>3, <1>4, <1>5 DEF StoreInv

\* A handler commits, and with its own row those of all the others.
LEMMA CommitStore ==
    ASSUME StoreInv, NEW r \in Holders, NEW p \in {"running", "recording"}, NEW m \in Nat,
           pc' = [pc EXCEPT ![r] = p],
           recorded' = [recorded EXCEPT ![r] = m],
           RowAt(p, results[r], m) = db[task[r]],
           p = "running" => m = 0,
           disk' = db,
           UNCHANGED <<task, results, db>>
    PROVE  StoreTyped' = (StoreTyped /\ runs' \in [TaskIds -> Nat]) /\ RowsHeld' /\ RowsCommitted'
  <1>1. r \in Requests /\ task[r] \in TaskIds /\ Holders' = Holders
    BY DEF Holders, StoreInv, StoreTyped
  <1>2. StoreTyped' = (StoreTyped /\ runs' \in [TaskIds -> Nat])
    BY <1>1 DEF StoreInv, StoreTyped
  <1>3. RowsHeld'
    BY <1>1 DEF StoreInv, StoreTyped, RowsHeld, Holders
  <1>4. RowsCommitted'
    BY <1>1 DEF StoreInv, StoreTyped, RowsCommitted
  <1> QED BY <1>2, <1>3, <1>4

\* The insert is committed and the task runs, for the first time.
LEMMA StartTaskStore ==
    ASSUME StoreInv, NEW r \in Requests, StartTask(r) PROVE StoreInv'
  <1> DEFINE t == task[r]
  <1>1. /\ r \in Holders /\ t \in TaskIds /\ pc[r] = "created" /\ recorded[r] = 0
        /\ runs[t] = 0 /\ runs' = [runs EXCEPT ![t] = @ + 1] /\ disk' = db
        /\ pc' = [pc EXCEPT ![r] = "running"]
        /\ recorded' = [recorded EXCEPT ![r] = 0]
        /\ UNCHANGED <<task, results, db>>
    BY DEF StartTask, Commit, Holders, StoreInv, StoreTyped, RowsCommitted, RunsCounted
  <1>2. RowAt("running", results[r], 0) = db[t]
    BY <1>1 DEF StoreInv, RowsHeld, RowAt
  <1>3. StoreTyped' /\ RowsHeld' /\ RowsCommitted'
    <2>1. runs' \in [TaskIds -> Nat]
      BY <1>1 DEF StoreInv, StoreTyped
    <2> QED BY <1>1, <1>2, <2>1, CommitStore DEF StoreInv
  <1>4. RunsCounted'
    <2>1. db[t].status # "none"
      BY <1>1, HeldRowIsThere
    <2>2. \A q \in Requests : pc'[q] = "created" => q # r /\ pc[q] = "created" /\ task[q] # t
      BY <1>1 DEF StoreInv, StoreTyped, RowsHeld, Holders
    <2> QED BY <1>1, <2>1, <2>2 DEF StoreInv, StoreTyped, RowsCommitted, RunsCounted, RunOnceAndOnRecord
  <1> QED BY <1>3, <1>4 DEF StoreInv

\* complete_task commits, and the recording of the steps begins with none recorded.
LEMMA CommitTaskStore ==
    ASSUME StoreInv, NEW r \in Requests, CommitTask(r) PROVE StoreInv'
  <1>1. /\ r \in Holders /\ pc[r] = "completed" /\ recorded[r] = 0 /\ disk' = db
        /\ pc' = [pc EXCEPT ![r] = "recording"]
        /\ recorded' = [recorded EXCEPT ![r] = 0]
        /\ UNCHANGED <<task, results, db, runs>>
    BY DEF CommitTask, Commit, Holders, StoreInv, StoreTyped, RowsCommitted
  <1>2. RowAt("recording", results[r], 0) = db[task[r]]
    BY <1>1 DEF StoreInv, RowsHeld, RowAt
  <1>3. StoreTyped' /\ RowsHeld' /\ RowsCommitted'
    BY <1>1, <1>2, CommitStore DEF StoreInv, StoreTyped
  <1>4. RunsCounted'
    BY <1>1 DEF StoreInv, StoreTyped, RowsCommitted, RunsCounted, RunOnceAndOnRecord
  <1> QED BY <1>3, <1>4 DEF StoreInv

\* record_step commits: the step row and the cost row are counted together.
LEMMA CommitStepStore ==
    ASSUME StoreInv, NEW r \in Requests, CommitStep(r) PROVE StoreInv'
  <1>1. /\ r \in Holders /\ pc[r] = "costed" /\ recorded[r] + 1 \in Nat /\ disk' = db
        /\ pc' = [pc EXCEPT ![r] = "recording"]
        /\ recorded' = [recorded EXCEPT ![r] = recorded[r] + 1]
        /\ UNCHANGED <<task, results, db, runs>>
    BY DEF CommitStep, Commit, Holders, StoreInv, StoreTyped
  <1>2. RowAt("recording", results[r], recorded[r] + 1) = db[task[r]]
    BY <1>1 DEF StoreInv, RowsHeld, RowAt
  <1>3. StoreTyped' /\ RowsHeld' /\ RowsCommitted'
    BY <1>1, <1>2, CommitStore DEF StoreInv, StoreTyped
  <1>4. RunsCounted'
    BY <1>1 DEF StoreInv, StoreTyped, RowsCommitted, RunsCounted, RunOnceAndOnRecord
  <1> QED BY <1>3, <1>4 DEF StoreInv

\* complete_task writes status and total over the row as create_task left it.
LEMMA CompleteTaskStore ==
    ASSUME StoreInv, NEW r \in Requests, CompleteTask(r) PROVE StoreInv'
  <1>1. /\ r \in Holders /\ pc[r] = "ended" /\ recorded[r] = 0 /\ task[r] \in TaskIds
        /\ results[r] \in Nat
    BY DEF CompleteTask, Holders, StoreInv, StoreTyped, RowsCommitted
  <1>2. db[task[r]] = [NoRow EXCEPT !.status = "running"]
    BY <1>1 DEF StoreInv, RowsHeld, RowAt
  <1>3. db' = [db EXCEPT ![task[r]] = RowAt("completed", results[r], recorded[r])]
    <2> DEFINE old == db[task[r]]
    <2>1. db' = [[db EXCEPT ![task[r]] = [old EXCEPT !.status = "completed"]]
                    EXCEPT ![task[r]].total = results[r]]
      BY DEF CompleteTask
    <2>2. db' = [db EXCEPT ![task[r]] = [[old EXCEPT !.status = "completed"]
                                             EXCEPT !.total = results[r]]]
      BY <1>1, <2>1 DEF StoreInv, StoreTyped
    <2>3. [[old EXCEPT !.status = "completed"] EXCEPT !.total = results[r]]
              = RowAt("completed", results[r], recorded[r])
      <3> DEFINE mid == [old EXCEPT !.status = "completed"]
      <3>1. old = [status |-> "running", total |-> 0, steps |-> 0, costs |-> 0]
        BY <1>2 DEF NoRow
      <3> HIDE DEF old
      <3>2. mid = [status |-> "completed", total |-> 0, steps |-> 0, costs |-> 0]
        BY <3>1
      <3> HIDE DEF mid
      <3>3. [mid EXCEPT !.total = results[r]]
                = [status |-> "completed", total |-> results[r], steps |-> 0, costs |-> 0]
        BY <3>2
      <3>4. RowAt("completed", results[r], recorded[r])
                = [status |-> "completed", total |-> results[r], steps |-> 0, costs |-> 0]
        BY DEF RowAt
      <3> QED BY <3>3, <3>4 DEF mid
    <2> QED BY <2>2, <2>3
  <1>4. RowAt("completed", results[r], recorded[r]) \in Row
    BY <1>1 DEF RowAt, Row
  <1>5. pc' = [pc EXCEPT ![r] = "completed"] /\ UNCHANGED <<task, results, recorded, disk, runs>>
    BY DEF CompleteTask
  <1> QED BY <1>1, <1>3, <1>4, <1>5, WriteStore

\* record_step is one step row ahead of its cost rows.
LEMMA RecordStepStore ==
    ASSUME StoreInv, NEW r \in Requests, RecordStep(r) PROVE StoreInv'
  <1>1. /\ r \in Holders /\ pc[r] = "recording" /\ task[r] \in TaskIds
        /\ results[r] \in Nat /\ recorded[r] \in Nat
    BY DEF RecordStep, Holders, StoreInv, StoreTyped
  <1>2. db[task[r]] = RowAt("recording", results[r], recorded[r])
    BY <1>1 DEF StoreInv, RowsHeld
  <1>3. db' = [db EXCEPT ![task[r]] = RowAt("stepped", results[r], recorded[r])]
    <2> DEFINE old == db[task[r]]
    <2>1. db' = [db EXCEPT ![task[r]] = [old EXCEPT !.steps = old.steps + 1]]
      BY DEF RecordStep
    <2>2. [old EXCEPT !.steps = old.steps + 1] = RowAt("stepped", results[r], recorded[r])
      BY <1>1, <1>2 DEF RowAt
    <2> QED BY <2>1, <2>2
  <1>4. RowAt("stepped", results[r], recorded[r]) \in Row
    BY <1>1 DEF RowAt, Row
  <1>5. pc' = [pc EXCEPT ![r] = "stepped"] /\ UNCHANGED <<task, results, recorded, disk, runs>>
    BY DEF RecordStep
  <1> QED BY <1>1, <1>3, <1>4, <1>5, WriteStore

\* record_step has written the cost row too.
LEMMA RecordCostStore ==
    ASSUME StoreInv, NEW r \in Requests, RecordCost(r) PROVE StoreInv'
  <1>1. /\ r \in Holders /\ pc[r] = "stepped" /\ task[r] \in TaskIds
        /\ results[r] \in Nat /\ recorded[r] \in Nat
    BY DEF RecordCost, Holders, StoreInv, StoreTyped
  <1>2. db[task[r]] = RowAt("stepped", results[r], recorded[r])
    BY <1>1 DEF StoreInv, RowsHeld
  <1>3. db' = [db EXCEPT ![task[r]] = RowAt("costed", results[r], recorded[r])]
    <2> DEFINE old == db[task[r]]
    <2>1. db' = [db EXCEPT ![task[r]] = [old EXCEPT !.costs = old.costs + 1]]
      BY DEF RecordCost
    <2>2. [old EXCEPT !.costs = old.costs + 1] = RowAt("costed", results[r], recorded[r])
      BY <1>1, <1>2 DEF RowAt
    <2> QED BY <2>1, <2>2
  <1>4. RowAt("costed", results[r], recorded[r]) \in Row
    BY <1>1 DEF RowAt, Row
  <1>5. pc' = [pc EXCEPT ![r] = "costed"] /\ UNCHANGED <<task, results, recorded, disk, runs>>
    BY DEF RecordCost
  <1> QED BY <1>1, <1>3, <1>4, <1>5, WriteStore

\* A handler whose task id is taken never gets a row.
LEMMA RejectTaskStore ==
    ASSUME StoreInv, NEW r \in Requests, RejectTask(r) PROVE StoreInv'
  <1>1. Holders' = Holders
    BY DEF RejectTask, Holders, StoreInv, StoreTyped
  <1>2. /\ StoreTyped'
        /\ UNCHANGED <<task, results, recorded, db, disk, runs>>
        /\ \A q \in Requests : pc'[q] = pc[q] \/ pc'[q] = "failed"
        /\ \A q \in Holders : pc'[q] = pc[q]
    BY DEF RejectTask, store, StoreInv, StoreTyped, Holders
  <1>3. RowsHeld'
    BY <1>1, <1>2 DEF StoreInv, RowsHeld
  <1>4. RowsCommitted' /\ RunsCounted'
    BY <1>1, <1>2 DEF StoreInv, RowsCommitted, RunsCounted, RunOnceAndOnRecord
  <1> QED BY <1>2, <1>3, <1>4 DEF StoreInv

\* The task ends with its results; its row is as it was.
LEMMA EndTaskStore ==
    ASSUME StoreInv, NEW r \in Requests, EndTask(r), MaxResults \in Nat PROVE StoreInv'
  <1>1. Holders' = Holders
    BY DEF EndTask, Holders, StoreInv, StoreTyped
  <1>2. PICK n \in Nat : results' = [results EXCEPT ![r] = n]
    <2>1. PICK n \in 0..MaxResults : results' = [results EXCEPT ![r] = n]
      BY DEF EndTask
    <2>2. n \in Nat
      OBVIOUS
    <2> QED BY <2>1, <2>2
  <1>3. StoreTyped'
    BY <1>2 DEF EndTask, StoreInv, StoreTyped
  <1>4. RowsHeld'
    BY <1>1, <1>2 DEF EndTask, StoreInv, StoreTyped, RowsHeld, RowAt, Holders
  <1>5. RowsCommitted' /\ RunsCounted'
    BY <1>1 DEF EndTask, StoreInv, StoreTyped, RowsCommitted, RunsCounted, RunOnceAndOnRecord, Holders
  <1> QED BY <1>3, <1>4, <1>5 DEF StoreInv

\* With all results recorded, the row is the one a result promises.
LEMMA SendResultStore ==
    ASSUME StoreInv, NEW r \in Requests, SendResult(r) PROVE StoreInv'
  <1>1. Holders' = Holders /\ r \in Holders
    BY DEF SendResult, Holders, StoreInv, StoreTyped
  <1>2. RowAt("done", results[r], recorded[r]) = RowAt(pc[r], results[r], recorded[r])
    BY DEF SendResult, RowAt
  <1>3. StoreTyped'
    BY DEF SendResult, store, StoreInv, StoreTyped
  <1>4. RowsHeld'
    BY <1>1, <1>2 DEF SendResult, store, StoreInv, StoreTyped, RowsHeld, Holders
  <1>5. RowsCommitted' /\ RunsCounted'
    BY <1>1 DEF SendResult, store, StoreInv, StoreTyped, RowsCommitted, RunsCounted,
                RunOnceAndOnRecord, Holders
  <1> QED BY <1>3, <1>4, <1>5 DEF StoreInv

\* A crash leaves only the handlers that are done, whose rows were committed.
LEMMA CrashStore ==
    ASSUME StoreInv, Crash PROVE StoreInv'
  <1>1. /\ Holders' = {r \in Holders : pc[r] = "done"}
        /\ \A r \in Requests : pc'[r] # "lost" => pc'[r] = pc[r]
        /\ \A r \in Holders' : pc'[r] = "done" /\ pc[r] = "done"
        /\ \A r \in Requests : pc'[r] \in {"idle", "done", "failed", "lost"}
    BY DEF Crash, Holders, Busy, StoreInv, StoreTyped
  <1>2. StoreTyped'
    BY DEF Crash, StoreInv, StoreTyped
  <1>3. RowsHeld'
    BY <1>1 DEF Crash, StoreInv, RowsHeld, RowsCommitted
  <1>4. RowsCommitted' /\ RunsCounted'
    BY <1>1 DEF Crash, StoreInv, RowsCommitted, RunsCounted, RunOnceAndOnRecord
  <1> QED BY <1>2, <1>3, <1>4 DEF StoreInv

\* A step that touches neither a handler's place nor the store keeps the invariant.
LEMMA ElsewhereStore ==
    ASSUME StoreInv, UNCHANGED <<pc, task, store, runs>> PROVE StoreInv'
  BY DEF store, StoreInv, StoreTyped, RowsHeld, RowsCommitted, RunsCounted, RunOnceAndOnRecord, Holders

\* Every step keeps the invariant.
LEMMA StepStore == StoreInv /\ [Next]_vars => StoreInv'
  <1> SUFFICES ASSUME StoreInv, [Next]_vars PROVE StoreInv'
    OBVIOUS
  <1>1. CASE \E r \in Requests : CreateTask(r) \/ RejectTask(r) \/ StartTask(r)
    BY <1>1, CreateTaskStore, RejectTaskStore, StartTaskStore
  <1>2. CASE \E r \in Requests : Emit(r) \/ Stream(r) \/ Disconnect(r)
    BY <1>2, ElsewhereStore DEF Emit, Stream, Disconnect, handling
  <1>3. CASE \E r \in Requests : EndTask(r) \/ CompleteTask(r) \/ CommitTask(r)
    BY <1>3, EndTaskStore, CompleteTaskStore, CommitTaskStore, ServiceAssumption
  <1>4. CASE \E r \in Requests : RecordStep(r) \/ RecordCost(r) \/ CommitStep(r) \/ SendResult(r)
    BY <1>4, RecordStepStore, RecordCostStore, CommitStepStore, SendResultStore
  <1>5. CASE Crash
    BY <1>5, CrashStore
  <1>6. CASE UNCHANGED vars
    BY <1>6, ElsewhereStore DEF vars, handling
  <1>7. CASE Finished
    BY <1>7, ElsewhereStore DEF Finished, vars, handling
  <1> QED BY <1>1, <1>2, <1>3, <1>4, <1>5, <1>6, <1>7 DEF Next

\* The invariant holds in every reachable state.
LEMMA StoreInvariance == Spec => []StoreInv
  BY InitStore, StepStore, PTL DEF Spec

-----------------------------------------------------------------------------
(***************************************************************************)
(* The step and cost rows                                                  *)
(***************************************************************************)

\* The cost rows of a task follow its step rows, and there are no more than its total.
RowEven(row) == row.steps = row.costs
RowGood(row) ==
    /\ row.costs <= row.steps
    /\ row.steps <= row.costs + 1
    /\ row.steps > 0 => row.status = "completed" /\ row.steps <= row.total

\* Someone else has made a row.
Another(t) == \E r \in Requests : task[r] # t /\ pc[r] \notin {"idle", "failed"}

\* CostsFollowSteps, with what it needs: a handler records no more than its results, and
\* the rows that no handler holds are as they were committed.
Recording ==
    \A r \in Requests :
      /\ pc[r] = "recording" => recorded[r] <= results[r]
      /\ pc[r] \in {"stepped", "costed"} => recorded[r] < results[r]
Orphans == \A t \in TaskIds : (\A r \in Holders : task[r] # t) => db[t] = disk[t]
OnDisk ==
    \A t \in TaskIds : RowGood(disk[t]) /\ (~RowEven(disk[t]) => Another(t))
CostsInv == Recording /\ Orphans /\ OnDisk

\* The row of a handler is good, and even unless it stands between its step and its cost.
LEMMA HeldRowIsGood ==
    ASSUME StoreInv, CostsInv, NEW r \in Holders
    PROVE  RowGood(db[task[r]]) /\ (~RowEven(db[task[r]]) => pc[r] = "stepped")
  <1>1. /\ r \in Requests /\ results[r] \in Nat /\ recorded[r] \in Nat
        /\ pc[r] \in {"created", "running", "ended", "completed", "recording",
                      "stepped", "costed", "done"}
        /\ db[task[r]] = RowAt(pc[r], results[r], recorded[r])
    BY DEF Holders, StoreInv, StoreTyped, RowsHeld
  <1>2. CASE pc[r] \in {"created", "running", "ended"}
    BY <1>1, <1>2 DEF RowAt, NoRow, RowGood, RowEven
  <1>3. CASE pc[r] = "completed" \/ pc[r] = "done"
    BY <1>1, <1>3 DEF RowAt, RowGood, RowEven
  <1>4. CASE pc[r] = "recording"
    BY <1>1, <1>4 DEF RowAt, RowGood, RowEven, CostsInv, Recording
  <1>5. CASE pc[r] = "stepped"
    BY <1>1, <1>5 DEF RowAt, RowGood, RowEven, CostsInv, Recording
  <1>6. CASE pc[r] = "costed"
    BY <1>1, <1>6 DEF RowAt, RowGood, RowEven, CostsInv, Recording
  <1> QED BY <1>1, <1>2, <1>3, <1>4, <1>5, <1>6

\* Nothing is recorded at first.
LEMMA InitCosts == Init => CostsInv
  BY DEF Init, CostsInv, Recording, Orphans, OnDisk, RowGood, RowEven, NoRow

\* A commit: the one row that may be uneven is that of another handler.
LEMMA CommitCosts ==
    ASSUME StoreInv, CostsInv, NEW r \in Holders, pc[r] # "stepped",
           NEW p \in {"running", "recording"}, pc' = [pc EXCEPT ![r] = p],
           disk' = db, UNCHANGED <<task, db>>, Recording'
    PROVE  CostsInv'
  <1>1. r \in Requests /\ Holders' = Holders
    BY DEF Holders, StoreInv, StoreTyped
  <1>2. Orphans'
    BY DEF Orphans
  <1>3. \A t \in TaskIds : Another(t) => Another(t)'
    BY <1>1 DEF Another, StoreInv, StoreTyped
  <1>4. ASSUME NEW t \in TaskIds PROVE RowGood(db[t]) /\ (~RowEven(db[t]) => Another(t)')
    <2>1. CASE \E q \in Holders : task[q] = t
      <3>1. PICK q \in Holders : task[q] = t
        BY <2>1
      <3>2. RowGood(db[t]) /\ (~RowEven(db[t]) => pc[q] = "stepped")
        BY <3>1, HeldRowIsGood
      <3>3. pc[q] = "stepped" => Another(t)'
        <4> SUFFICES ASSUME pc[q] = "stepped" PROVE Another(t)'
          OBVIOUS
        <4>1. q # r /\ task[r] # t
          BY <3>1 DEF StoreInv, RowsHeld
        <4>2. pc'[r] = p
          BY <1>1 DEF StoreInv, StoreTyped
        <4> QED BY <1>1, <4>1, <4>2 DEF Another
      <3> QED BY <3>2, <3>3
    <2>2. CASE \A q \in Holders : task[q] # t
      <3>1. db[t] = disk[t]
        BY <2>2 DEF CostsInv, Orphans
      <3> QED BY <3>1, <1>3 DEF CostsInv, OnDisk
    <2> QED BY <2>1, <2>2
  <1>5. OnDisk'
    BY <1>4 DEF OnDisk, RowGood, RowEven
  <1> QED BY <1>2, <1>5 DEF CostsInv

\* A step that commits nothing, and by which nobody is forgotten: only the row of a
\* handler may change.
LEMMA QuietCosts ==
    ASSUME CostsInv, UNCHANGED <<task, disk>>,
           \A r \in Requests : pc[r] \notin {"idle", "failed"} => pc'[r] \notin {"idle", "failed"},
           \A t \in TaskIds : (\A r \in Holders' : task[r] # t) => db'[t] = disk[t],
           Recording'
    PROVE  CostsInv'
  <1>1. \A t \in TaskIds : Another(t) => Another(t)'
    BY DEF Another
  <1>2. OnDisk'
    BY <1>1 DEF CostsInv, OnDisk, RowGood, RowEven
  <1>3. Orphans'
    BY DEF Orphans
  <1> QED BY <1>2, <1>3 DEF CostsInv

\* Every step keeps the rows.
LEMMA StepCosts == StoreInv /\ CostsInv /\ [Next]_vars => CostsInv'
  <1> SUFFICES ASSUME StoreInv, CostsInv, [Next]_vars PROVE CostsInv'
    OBVIOUS
  <1>0. StoreTyped /\ Recording /\ Orphans
    BY DEF StoreInv, CostsInv
  <1>1. ASSUME NEW r \in Requests, CreateTask(r) PROVE CostsInv'
    <2>1. Holders' = Holders \cup {r} /\ pc[r] = "idle" /\ pc' = [pc EXCEPT ![r] = "created"]
          /\ task[r] \in TaskIds
          /\ db' = [db EXCEPT ![task[r]] = [NoRow EXCEPT !.status = "running"]]
          /\ UNCHANGED <<task, disk, results, recorded>>
      BY <1>0, <1>1 DEF CreateTask, StoreTyped, Holders
    <2>2. \A t \in TaskIds : (\A q \in Holders' : task[q] # t) => db'[t] = disk[t]
      BY <1>0, <2>1 DEF StoreTyped, Orphans
    <2>3. Recording'
      BY <1>0, <2>1 DEF StoreTyped, Recording
    <2> QED BY <1>0, <2>1, <2>2, <2>3, QuietCosts DEF StoreTyped
  <1>2. ASSUME NEW r \in Requests, RejectTask(r) PROVE CostsInv'
    <2>1. Holders' = Holders /\ pc[r] = "idle" /\ pc' = [pc EXCEPT ![r] = "failed"]
          /\ UNCHANGED <<task, db, disk, results, recorded>>
      BY <1>0, <1>2 DEF RejectTask, StoreTyped, Holders, store
    <2>2. Recording'
      BY <1>0, <2>1 DEF StoreTyped, Recording
    <2> QED BY <1>0, <2>1, <2>2, QuietCosts DEF StoreTyped, Orphans
  <1>3. ASSUME NEW r \in Requests, StartTask(r) \/ CommitTask(r) \/ CommitStep(r) PROVE CostsInv'
    <2>1. /\ r \in Holders /\ pc[r] # "stepped" /\ disk' = db
          /\ UNCHANGED <<task, db, results>>
          /\ \E p \in {"running", "recording"} : pc' = [pc EXCEPT ![r] = p]
      BY <1>3 DEF StartTask, CommitTask, CommitStep, Commit, Holders
    <2>2. Recording'
      <3>1. CASE StartTask(r)
        BY <1>0, <3>1 DEF StartTask, StoreTyped, Recording
      <3>2. CASE CommitTask(r)
        <4>1. recorded[r] = 0 /\ results[r] \in Nat
          BY <3>2 DEF CommitTask, StoreInv, StoreTyped, RowsCommitted
        <4> QED BY <1>0, <3>2, <4>1 DEF CommitTask, StoreTyped, Recording
      <3>3. CASE CommitStep(r)
        <4>1. recorded[r] < results[r] /\ recorded[r] \in Nat /\ results[r] \in Nat
          BY <1>0, <3>3 DEF CommitStep, StoreTyped, Recording
        <4> QED BY <1>0, <3>3, <4>1 DEF CommitStep, StoreTyped, Recording
      <3> QED BY <1>3, <3>1, <3>2, <3>3
    <2> QED BY <2>1, <2>2, CommitCosts
  <1>4. ASSUME NEW r \in Requests, CompleteTask(r) \/ RecordStep(r) \/ RecordCost(r) PROVE CostsInv'
    <2>1. /\ r \in Holders /\ Holders' = Holders
          /\ UNCHANGED <<task, disk, results, recorded>>
          /\ \E p \in {"completed", "stepped", "costed"} : pc' = [pc EXCEPT ![r] = p]
      BY <1>0, <1>4 DEF CompleteTask, RecordStep, RecordCost, StoreTyped, Holders
    <2>2. \A t \in TaskIds : t # task[r] => db'[t] = db[t]
      BY <1>0, <1>4 DEF CompleteTask, RecordStep, RecordCost, StoreTyped
    <2>3. Recording'
      BY <1>0, <1>4 DEF CompleteTask, RecordStep, RecordCost, StoreTyped, Recording
    <2> QED BY <1>0, <2>1, <2>2, <2>3, QuietCosts DEF StoreTyped, Orphans
  <1>5. ASSUME NEW r \in Requests, EndTask(r) \/ SendResult(r) PROVE CostsInv'
    <2>1. /\ Holders' = Holders /\ UNCHANGED <<task, db, disk, recorded>>
          /\ \E p \in {"ended", "done"} : pc' = [pc EXCEPT ![r] = p]
          /\ \A q \in Requests \ {r} : results'[q] = results[q]
      BY <1>0, <1>5 DEF EndTask, SendResult, StoreTyped, Holders, store
    <2>2. Recording'
      BY <1>0, <2>1 DEF StoreTyped, Recording
    <2> QED BY <1>0, <2>1, <2>2, QuietCosts DEF StoreTyped, Orphans
  <1>6. CASE Crash
    <2>1. /\ db' = disk /\ UNCHANGED <<task, disk, results, recorded>>
          /\ pc' = [r \in Requests |-> IF r \in Busy THEN "lost" ELSE pc[r]]
      BY <1>6 DEF Crash
    <2>2. Recording'
      BY <1>0, <2>1 DEF StoreTyped, Recording
    <2> QED BY <2>1, <2>2, QuietCosts
  <1>7. ASSUME UNCHANGED <<pc, task, store>> PROVE CostsInv'
    BY <1>7 DEF store, CostsInv, Recording, Orphans, OnDisk, Another, Holders
  <1>8. CASE \E r \in Requests : Emit(r) \/ Stream(r) \/ Disconnect(r)
    BY <1>7, <1>8 DEF Emit, Stream, Disconnect, handling
  <1>9. CASE UNCHANGED vars \/ Finished
    BY <1>7, <1>9 DEF Finished, vars, handling
  <1> QED BY <1>1, <1>2, <1>3, <1>4, <1>5, <1>6, <1>8, <1>9 DEF Next

-----------------------------------------------------------------------------
(***************************************************************************)
(* The frames                                                              *)
(***************************************************************************)

IsStep(f) == f.kind = "step_event"

\* Step event e comes later in its task than f, if f is of the same task.
Later(f, e) == IsStep(f) /\ IsStep(e) /\ f.of = e.of => f.n < e.n

\* The events of each task are in order in s, and those in s come before those in t.
Inc(s)       == \A i, j \in 1..Len(s) : i < j => Later(s[i], s[j])
Before(s, t) == \A i \in 1..Len(s), j \in 1..Len(t) : Later(s[i], t[j])

FramesTyped ==
    /\ wire \in [Requests -> Seq(Frame)]
    /\ queue \in [Requests -> Seq(Frame)]
    /\ emitted \in [Requests -> Nat]
    /\ streaming \subseteq Requests
    /\ \A r \in streaming : pc[r] = "running"

\* No event has a number its task has not reached.
Numbered ==
    /\ \A c \in Requests : \A i \in 1..Len(wire[c]) :
         IsStep(wire[c][i]) => wire[c][i].n <= emitted[wire[c][i].of]
    /\ \A c \in Requests : \A i \in 1..Len(queue[c]) :
         IsStep(queue[c][i]) /\ queue[c][i].n <= emitted[queue[c][i].of]

\* Before a task starts there is nothing on its connection.
Begun == \A r \in Requests : pc[r] \in {"idle", "created"} => emitted[r] = 0 /\ wire[r] = <<>>

\* While a connection streams, its queue goes on where the connection is.
Flows ==
    /\ \A c \in Requests : Inc(wire[c])
    /\ \A c \in streaming : Inc(queue[c]) /\ Before(wire[c], queue[c])

\* Until its handler is done, a connection carries events alone.
Open ==
    \A c \in Requests : pc[c] \notin {"done", "failed"} =>
      \A i \in 1..Len(wire[c]) : IsStep(wire[c][i])

FramesInv == FramesTyped /\ Numbered /\ Begun /\ Flows /\ Open /\ ResultComesLast

\* A new event is a frame.
LEMMA EventFrame ==
    ASSUME NEW r \in Requests, NEW m \in Nat, NEW b \in BOOLEAN
    PROVE  /\ Event(r, m, b) \in Frame /\ IsStep(Event(r, m, b))
           /\ Event(r, m, b).of = r /\ Event(r, m, b).n = m
  BY DEF Event, Frame, IsStep

\* A new reply is a frame.
LEMMA ReplyFrame ==
    ASSUME NEW r \in Requests, NEW k \in {"task_result", "error"}
    PROVE  Reply(k, r) \in Frame /\ ~IsStep(Reply(k, r)) /\ Reply(k, r).of = r
  BY DEF Reply, Frame, IsStep

\* The fields of a frame.
LEMMA FrameFields ==
    ASSUME NEW f \in Frame PROVE f.of \in Requests /\ f.n \in Nat
  BY DEF Frame

\* One frame behind others.
LEMMA OneMoreFrame ==
    ASSUME NEW s \in Seq(Frame), NEW e \in Frame
    PROVE  /\ Append(s, e) \in Seq(Frame) /\ Len(s) \in Nat
           /\ Len(Append(s, e)) = Len(s) + 1
           /\ \A i \in 1..Len(s) : Append(s, e)[i] = s[i]
           /\ Append(s, e)[Len(s) + 1] = e
           /\ s \o <<e>> = Append(s, e)
  OBVIOUS

\* A later event behind others keeps their order.
LEMMA AppendInc ==
    ASSUME NEW s \in Seq(Frame), NEW e \in Frame, Inc(s), \A i \in 1..Len(s) : Later(s[i], e)
    PROVE  Inc(Append(s, e))
  <1> DEFINE t == Append(s, e)
  <1>1. /\ Len(t) = Len(s) + 1 /\ Len(s) \in Nat
        /\ \A i \in 1..Len(s) : t[i] = s[i]
        /\ t[Len(s) + 1] = e
    BY OneMoreFrame
  <1> HIDE DEF t
  <1>2. ASSUME NEW i \in 1..Len(t), NEW j \in 1..Len(t), i < j PROVE Later(t[i], t[j])
    <2>1. i \in 1..Len(s) /\ t[i] = s[i]
      BY <1>1, <1>2
    <2>2. CASE j = Len(s) + 1
      BY <1>1, <2>1, <2>2
    <2>3. CASE j # Len(s) + 1
      <3>1. j \in 1..Len(s) /\ t[j] = s[j]
        BY <1>1, <2>3
      <3> QED BY <1>2, <2>1, <3>1 DEF Inc
    <2> QED BY <2>2, <2>3
  <1> QED BY <1>2 DEF Inc, t

\* The stream moves the first k frames of a queue to the connection.
LEMMA Moved ==
    ASSUME NEW w \in Seq(Frame), NEW q \in Seq(Frame), NEW k \in 1..Len(q)
    PROVE  LET x == w \o SubSeq(q, 1, k)
               y == SubSeq(q, k + 1, Len(q))
           IN /\ x \in Seq(Frame) /\ y \in Seq(Frame)
              /\ \A i \in 1..Len(x) : \/ i \in 1..Len(w) /\ x[i] = w[i]
                                      \/ i > Len(w) /\ i - Len(w) \in 1..k /\ x[i] = q[i - Len(w)]
              /\ \A j \in 1..Len(y) : k + j \in (k + 1)..Len(q) /\ y[j] = q[k + j]
  <1> DEFINE s == SubSeq(q, 1, k)
             y == SubSeq(q, k + 1, Len(q))
             x == w \o s
  <1>1. Len(q) \in Nat /\ Len(w) \in Nat /\ k \in Nat /\ k <= Len(q)
    OBVIOUS
  <1>2. s \in Seq(Frame) /\ Len(s) = k /\ \A i \in 1..k : s[i] = q[i]
    BY <1>1
  <1>3. y \in Seq(Frame) /\ Len(y) = Len(q) - k /\ \A j \in 1..Len(y) : y[j] = q[k + j]
    BY <1>1
  <1> HIDE DEF s, y
  <1>4. /\ x \in Seq(Frame) /\ Len(x) = Len(w) + k
        /\ \A i \in 1..Len(w) : x[i] = w[i]
        /\ \A i \in Len(w) + 1 .. Len(w) + k : x[i] = s[i - Len(w)]
    BY <1>1, <1>2, SMTT(30)
  <1> HIDE DEF x
  <1>5. ASSUME NEW i \in 1..Len(x)
        PROVE  \/ i \in 1..Len(w) /\ x[i] = w[i]
               \/ i > Len(w) /\ i - Len(w) \in 1..k /\ x[i] = q[i - Len(w)]
    <2>1. CASE i <= Len(w)
      BY <1>1, <1>4, <2>1
    <2>2. CASE i > Len(w)
      <3>1. i \in Len(w) + 1 .. Len(w) + k /\ i - Len(w) \in 1..k
        BY <1>1, <1>4, <2>2
      <3> QED BY <3>1, <1>2, <1>4, <2>2
    <2> QED BY <1>1, <2>1, <2>2
  <1>6. \A j \in 1..Len(y) : k + j \in (k + 1)..Len(q)
    BY <1>1, <1>3
  <1> QED BY <1>3, <1>4, <1>5, <1>6 DEF x, y, s

\* What is moved stays in order, and so does what is left.
LEMMA MovedInc ==
    ASSUME NEW w \in Seq(Frame), NEW q \in Seq(Frame), NEW k \in 1..Len(q),
           Inc(w), Inc(q), Before(w, q)
    PROVE  LET x == w \o SubSeq(q, 1, k)
               y == SubSeq(q, k + 1, Len(q))
           IN Inc(x) /\ Inc(y) /\ Before(x, y)
  <1> DEFINE x == w \o SubSeq(q, 1, k)
             y == SubSeq(q, k + 1, Len(q))
             In(i) == i \in 1..Len(w) /\ x[i] = w[i]
             Out(i) == i > Len(w) /\ i - Len(w) \in 1..k /\ x[i] = q[i - Len(w)]
  <1>1. /\ \A i \in 1..Len(x) : In(i) \/ Out(i)
        /\ \A j \in 1..Len(y) : k + j \in (k + 1)..Len(q) /\ y[j] = q[k + j]
        /\ x \in Seq(Frame) /\ y \in Seq(Frame)
    BY Moved
  <1>2. k \in Nat /\ Len(q) \in Nat /\ Len(w) \in Nat /\ k <= Len(q)
        /\ Len(x) \in Nat /\ Len(y) \in Nat
    BY <1>1
  <1> HIDE DEF x, y
  <1>3. ASSUME NEW i \in 1..Len(x), NEW j \in 1..Len(x), i < j PROVE Later(x[i], x[j])
    <2>1. CASE In(i) /\ In(j)
      BY <1>3, <2>1 DEF Inc
    <2>2. CASE In(i) /\ Out(j)
      <3>1. j - Len(w) \in 1..Len(q)
        BY <1>2, <2>2
      <3> QED BY <2>2, <3>1 DEF Before
    <2>3. CASE Out(i) /\ Out(j)
      <3>1. i - Len(w) \in 1..Len(q) /\ j - Len(w) \in 1..Len(q) /\ i - Len(w) < j - Len(w)
        BY <1>2, <1>3, <2>3, SMTT(30)
      <3> QED BY <2>3, <3>1 DEF Inc
    <2>4. ~ (Out(i) /\ In(j))
      BY <1>2, <1>3
    <2> QED BY <1>1, <2>1, <2>2, <2>3, <2>4
  <1>4. ASSUME NEW i \in 1..Len(y), NEW j \in 1..Len(y), i < j PROVE Later(y[i], y[j])
    <2>1. k + i \in 1..Len(q) /\ k + j \in 1..Len(q) /\ k + i < k + j
      BY <1>1, <1>2, <1>4
    <2> QED BY <1>1, <2>1 DEF Inc
  <1>5. ASSUME NEW i \in 1..Len(x), NEW j \in 1..Len(y) PROVE Later(x[i], y[j])
    <2>1. k + j \in 1..Len(q) /\ y[j] = q[k + j] /\ k + j > k
      BY <1>1, <1>2
    <2>2. CASE In(i)
      BY <2>1, <2>2 DEF Before
    <2>3. CASE Out(i)
      <3>1. i - Len(w) \in 1..Len(q) /\ i - Len(w) < k + j
        BY <1>2, <2>1, <2>3, SMTT(30)
      <3> QED BY <2>1, <2>3, <3>1 DEF Inc
    <2> QED BY <1>1, <2>2, <2>3
  <1> QED BY <1>3, <1>4, <1>5 DEF Inc, Before, x, y

\* Nothing is sent at first.
LEMMA InitFrames == Init => FramesInv
  <1> SUFFICES ASSUME Init PROVE FramesInv
    OBVIOUS
  <1>1. \A r \in Requests : wire[r] = <<>> /\ queue[r] = <<>> /\ emitted[r] = 0
    BY DEF Init
  <1>2. FramesTyped
    BY DEF Init, FramesTyped
  <1> QED BY <1>1, <1>2 DEF Init, FramesInv, Numbered, Begun, Flows, Open, ResultComesLast, Inc

\* A step that moves a handler and leaves the frames.
LEMMA PlaceFrames ==
    ASSUME FramesInv, UNCHANGED <<wire, queue, emitted, streaming>>,
           \A c \in Requests : pc'[c] \in {"idle", "created"} => pc[c] \in {"idle", "created"},
           \A c \in Requests : pc[c] \in {"done", "failed"} => pc'[c] \in {"done", "failed"},
           \A c \in streaming : pc'[c] = "running"
    PROVE  FramesInv'
  BY DEF FramesInv, FramesTyped, Numbered, Begun, Flows, Open, ResultComesLast, Inc, Before

\* A task emits its next event to whatever queue the controller has.
LEMMA EmitFrames ==
    ASSUME FramesInv, StoreTyped, NEW r \in Requests, NEW b \in BOOLEAN,
           emitted' = [emitted EXCEPT ![r] = @ + 1],
           queue' = [queue EXCEPT ![owner] = Append(@, Event(r, emitted[r] + 1, b))],
           wire' = wire, streaming' \subseteq streaming,
           pc[r] = "running",
           \A c \in Requests \ {r} : pc'[c] = pc[c],
           pc'[r] \in {"running", "ended"},
           \A c \in streaming' : pc'[c] = "running"
    PROVE  FramesInv'
  <1> DEFINE e == Event(r, emitted[r] + 1, b)
  <1>1. FramesTyped /\ Numbered /\ Begun /\ Flows /\ Open /\ ResultComesLast
    BY DEF FramesInv
  <1>2. /\ emitted[r] \in Nat /\ e \in Frame /\ IsStep(e) /\ e.of = r /\ e.n = emitted[r] + 1
        /\ emitted'[r] = emitted[r] + 1
        /\ \A c \in Requests : emitted'[c] \in Nat /\ emitted[c] \in Nat /\ emitted[c] <= emitted'[c]
    <2>1. emitted[r] \in Nat /\ emitted[r] + 1 \in Nat
      BY <1>1 DEF FramesTyped
    <2> QED BY <2>1, <1>1, EventFrame DEF FramesTyped
  <1> HIDE DEF e
  <1>3. \A c \in Requests : /\ wire[c] \in Seq(Frame) /\ queue[c] \in Seq(Frame)
                            /\ c # owner => queue'[c] = queue[c]
                            /\ c = owner => queue'[c] = Append(queue[c], e)
    BY <1>1 DEF FramesTyped, e
  <1>4. FramesTyped'
    <2>1. queue' \in [Requests -> Seq(Frame)]
      <3>1. \A c \in Requests : queue'[c] \in Seq(Frame)
        BY <1>2, <1>3, OneMoreFrame
      <3>2. queue' = [c \in Requests |-> queue'[c]]
        BY <1>1 DEF FramesTyped
      <3> QED BY <3>1, <3>2
    <2>2. emitted' \in [Requests -> Nat]
      BY <1>1, <1>2 DEF FramesTyped
    <2> QED BY <1>1, <2>1, <2>2 DEF FramesTyped
  <1>5. ASSUME NEW f \in Frame, f.n <= emitted[f.of] PROVE f.n <= emitted'[f.of] /\ Later(f, e)
    <2>1. f.of \in Requests /\ f.n \in Nat
      BY FrameFields
    <2> QED BY <1>2, <1>5, <2>1 DEF Later
  <1>6. ASSUME NEW c \in Requests
        PROVE  /\ \A i \in 1..Len(wire[c]) :
                    IsStep(wire[c][i]) => wire[c][i].n <= emitted'[wire[c][i].of]
               /\ \A i \in 1..Len(wire[c]) : Later(wire[c][i], e)
               /\ \A i \in 1..Len(queue[c]) :
                    /\ IsStep(queue[c][i]) /\ queue[c][i].n <= emitted'[queue[c][i].of]
                    /\ Later(queue[c][i], e)
    <2>1. \A i \in 1..Len(wire[c]) : wire[c][i] \in Frame
      BY <1>3
    <2>2. \A i \in 1..Len(queue[c]) : queue[c][i] \in Frame
      BY <1>3
    <2>3. \A i \in 1..Len(wire[c]) : ~IsStep(wire[c][i]) => Later(wire[c][i], e)
      BY DEF Later
    <2>4. \A i \in 1..Len(wire[c]) : IsStep(wire[c][i]) => wire[c][i].n <= emitted[wire[c][i].of]
      BY <1>1 DEF Numbered
    <2>5. \A i \in 1..Len(queue[c]) : IsStep(queue[c][i]) /\ queue[c][i].n <= emitted[queue[c][i].of]
      BY <1>1 DEF Numbered
    <2> QED BY <1>5, <2>1, <2>2, <2>3, <2>4, <2>5
  <1>7. ASSUME NEW c \in Requests, c = owner
        PROVE  /\ Len(queue[c]) \in Nat /\ Len(queue'[c]) = Len(queue[c]) + 1
               /\ \A i \in 1..Len(queue[c]) : queue'[c][i] = queue[c][i]
               /\ queue'[c][Len(queue[c]) + 1] = e
    BY <1>2, <1>3, <1>7, OneMoreFrame
  <1>8. Numbered'
    <2>1. \A c \in Requests : \A i \in 1..Len(wire'[c]) :
            IsStep(wire'[c][i]) => wire'[c][i].n <= emitted'[wire'[c][i].of]
      BY <1>6
    <2>2. ASSUME NEW c \in Requests, NEW i \in 1..Len(queue'[c])
          PROVE  IsStep(queue'[c][i]) /\ queue'[c][i].n <= emitted'[queue'[c][i].of]
      <3>1. CASE c # owner
        BY <1>3, <1>6, <3>1
      <3>2. CASE c = owner /\ i \in 1..Len(queue[c])
        BY <1>6, <1>7, <3>2
      <3>3. CASE c = owner /\ i \notin 1..Len(queue[c])
        <4>1. i = Len(queue[c]) + 1
          BY <1>7, <3>3
        <4>2. queue'[c][i] = e
          BY <1>7, <3>3, <4>1
        <4> QED BY <1>2, <4>2
      <3> QED BY <3>1, <3>2, <3>3
    <2> QED BY <2>1, <2>2 DEF Numbered
  <1>9. Begun'
    BY <1>1, <1>2, <1>4 DEF Begun, FramesTyped
  <1>10. Flows'
    <2>1. \A c \in Requests : Inc(wire'[c])
      BY <1>1 DEF Flows
    <2>2. ASSUME NEW c \in streaming' PROVE Inc(queue'[c]) /\ Before(wire'[c], queue'[c])
      <3>1. c \in Requests /\ Inc(queue[c]) /\ Before(wire[c], queue[c])
        BY <1>1 DEF Flows, FramesTyped
      <3>2. CASE c # owner
        BY <1>3, <3>1, <3>2
      <3>3. CASE c = owner
        <4>1. Inc(queue'[c])
          <5>1. /\ queue[c] \in Seq(Frame) /\ e \in Frame
                /\ \A i \in 1..Len(queue[c]) : Later(queue[c][i], e)
            BY <1>2, <1>3, <1>6, <3>1
          <5>2. Inc(Append(queue[c], e))
            BY <3>1, <5>1, AppendInc
          <5> QED BY <1>3, <3>1, <3>3, <5>2
        <4>2. ASSUME NEW i \in 1..Len(wire[c]), NEW j \in 1..Len(queue'[c])
              PROVE  Later(wire[c][i], queue'[c][j])
          <5>1. CASE j = Len(queue[c]) + 1
            BY <1>6, <1>7, <3>1, <3>3, <5>1
          <5>2. CASE j # Len(queue[c]) + 1
            <6>1. j \in 1..Len(queue[c]) /\ queue'[c][j] = queue[c][j]
              BY <1>7, <3>1, <3>3, <5>2
            <6> QED BY <3>1, <6>1 DEF Before
          <5> QED BY <5>1, <5>2
        <4> QED BY <4>1, <4>2 DEF Before
      <3> QED BY <3>2, <3>3
    <2> QED BY <2>1, <2>2 DEF Flows
  <1>11. Open' /\ ResultComesLast'
    BY <1>1 DEF Open, ResultComesLast
  <1> QED BY <1>4, <1>8, <1>9, <1>10, <1>11 DEF FramesInv

\* A task starts with its first event in a queue of its own.
LEMMA StartFrames == ASSUME FramesInv, StoreTyped, NEW r \in Requests, StartTask(r) PROVE FramesInv'
  <1> DEFINE e == Event(r, 1, FALSE)
  <1>1. FramesTyped /\ Numbered /\ Begun /\ Flows /\ Open /\ ResultComesLast
    BY DEF FramesInv
  <1>2. /\ pc[r] = "created" /\ emitted[r] = 0 /\ wire[r] = <<>>
        /\ pc' = [pc EXCEPT ![r] = "running"] /\ wire' = wire
        /\ queue' = [queue EXCEPT ![r] = <<e>>] /\ streaming' = streaming \cup {r}
        /\ emitted' = [emitted EXCEPT ![r] = 1]
    BY <1>1 DEF StartTask, Begun
  <1>3. e \in Frame /\ IsStep(e) /\ e.of = r /\ e.n = 1
    <2>1. 1 \in Nat /\ FALSE \in BOOLEAN
      OBVIOUS
    <2> QED BY <2>1, EventFrame
  <1> HIDE DEF e
  <1>4. <<e>> \in Seq(Frame) /\ Len(<<e>>) = 1 /\ <<e>>[1] = e
    BY <1>3
  <1>5. FramesTyped'
    <2>1. queue' \in [Requests -> Seq(Frame)]
      BY <1>1, <1>2, <1>4 DEF FramesTyped
    <2>2. emitted' \in [Requests -> Nat]
      BY <1>1, <1>2 DEF FramesTyped
    <2> QED BY <1>1, <1>2, <2>1, <2>2 DEF FramesTyped, StoreTyped
  <1>6. \A c \in Requests : emitted[c] \in Nat /\ emitted'[c] \in Nat /\ emitted[c] <= emitted'[c]
    BY <1>1, <1>2 DEF FramesTyped
  <1>7. ASSUME NEW f \in Frame, f.n <= emitted[f.of] PROVE f.n <= emitted'[f.of]
    <2>1. f.of \in Requests /\ f.n \in Nat
      BY FrameFields
    <2> QED BY <1>6, <1>7, <2>1
  <1>8. Numbered'
    <2>1. ASSUME NEW c \in Requests, NEW i \in 1..Len(wire[c]), IsStep(wire[c][i])
          PROVE  wire[c][i].n <= emitted'[wire[c][i].of]
      <3>1. wire[c] \in Seq(Frame)
        BY <1>1 DEF FramesTyped
      <3>2. wire[c][i] \in Frame
        BY <3>1
      <3> QED BY <1>1, <1>7, <2>1, <3>2 DEF Numbered
    <2>2. ASSUME NEW c \in Requests, NEW i \in 1..Len(queue'[c])
          PROVE  IsStep(queue'[c][i]) /\ queue'[c][i].n <= emitted'[queue'[c][i].of]
      <3>1. CASE c # r
        <4>1. queue'[c] = queue[c] /\ queue[c] \in Seq(Frame)
          BY <1>1, <1>2, <3>1 DEF FramesTyped
        <4>2. queue[c][i] \in Frame
          BY <4>1
        <4> QED BY <1>1, <1>7, <4>1, <4>2 DEF Numbered
      <3>2. CASE c = r
        <4>1. queue'[c] = <<e>> /\ emitted'[r] = 1
          BY <1>1, <1>2, <3>2 DEF FramesTyped
        <4>2. queue'[c][i] = e
          BY <1>4, <4>1
        <4> QED BY <1>3, <4>1, <4>2
      <3> QED BY <3>1, <3>2
    <2> QED BY <1>2, <2>1, <2>2 DEF Numbered
  <1>9. Begun'
    BY <1>1, <1>2 DEF Begun, FramesTyped, StoreTyped
  <1>10. Flows'
    <2>1. ASSUME NEW c \in streaming' PROVE Inc(queue'[c]) /\ Before(wire[c], queue'[c])
      <3>1. CASE c = r
        <4>1. queue'[c] = <<e>> /\ wire[c] = <<>>
          BY <1>1, <1>2, <3>1 DEF FramesTyped
        <4> QED BY <1>4, <4>1 DEF Inc, Before
      <3>2. CASE c # r
        <4>1. c \in streaming /\ queue'[c] = queue[c]
          BY <1>1, <1>2, <2>1, <3>2 DEF FramesTyped
        <4> QED BY <1>1, <4>1 DEF Flows
      <3> QED BY <3>1, <3>2
    <2> QED BY <1>1, <1>2, <2>1 DEF Flows
  <1>11. Open' /\ ResultComesLast'
    BY <1>1, <1>2 DEF Open, ResultComesLast, StoreTyped
  <1> QED BY <1>5, <1>8, <1>9, <1>10, <1>11 DEF FramesInv

\* The stream moves events from its queue to its connection, or drops them.
LEMMA StreamFrames == ASSUME FramesInv, StoreTyped, NEW r \in Requests, Stream(r) PROVE FramesInv'
  <1>1. FramesTyped /\ Numbered /\ Begun /\ Flows /\ Open /\ ResultComesLast
    BY DEF FramesInv
  <1>2. PICK k \in 1..Len(queue[r]) :
          /\ wire' = Written(wire, r, SubSeq(queue[r], 1, k))
          /\ queue' = [queue EXCEPT ![r] = SubSeq(@, k + 1, Len(@))]
    BY DEF Stream, TakenFrom
  <1> DEFINE w == wire[r]
             q == queue[r]
             x == w \o SubSeq(q, 1, k)
             y == SubSeq(q, k + 1, Len(q))
             In(i) == i \in 1..Len(w) /\ x[i] = w[i]
             Out(i) == i > Len(w) /\ i - Len(w) \in 1..k /\ x[i] = q[i - Len(w)]
  <1>3. /\ r \in streaming /\ streaming' \subseteq streaming /\ pc[r] = "running"
        /\ UNCHANGED <<pc, emitted>>
        /\ r \notin connected => r \notin streaming'
    BY <1>1 DEF Stream, handling, FramesTyped
  <1>4. w \in Seq(Frame) /\ q \in Seq(Frame) /\ Len(q) \in Nat /\ Len(w) \in Nat
    BY <1>1 DEF FramesTyped
  <1>5. /\ x \in Seq(Frame) /\ y \in Seq(Frame)
        /\ \A i \in 1..Len(x) : In(i) \/ Out(i)
        /\ \A j \in 1..Len(y) : k + j \in (k + 1)..Len(q) /\ y[j] = q[k + j]
    BY <1>4, Moved
  <1>6. Inc(x) /\ Inc(y) /\ Before(x, y)
    BY <1>1, <1>3, <1>4, MovedInc DEF Flows
  <1>7. /\ wire'[r] \in {w, x} /\ queue'[r] = y
        /\ r \in connected => wire'[r] = x
        /\ \A c \in Requests \ {r} : wire'[c] = wire[c] /\ queue'[c] = queue[c]
    BY <1>1, <1>2 DEF Written, FramesTyped
  <1>8. /\ wire' = [wire EXCEPT ![r] = wire'[r]]
        /\ queue' = [queue EXCEPT ![r] = y]
    BY <1>1, <1>2, <1>7 DEF Written, FramesTyped
  <1> HIDE DEF x, y, w, q
  <1>9. FramesTyped'
    <2>1. wire' \in [Requests -> Seq(Frame)] /\ queue' \in [Requests -> Seq(Frame)]
      BY <1>1, <1>4, <1>5, <1>7, <1>8, ZenonT(40) DEF FramesTyped
    <2> QED BY <1>1, <1>3, <2>1 DEF FramesTyped
  <1>10. /\ \A i \in 1..Len(w) : IsStep(w[i]) /\ w[i].n <= emitted[w[i].of]
         /\ \A i \in 1..Len(q) : IsStep(q[i]) /\ q[i].n <= emitted[q[i].of]
    BY <1>1, <1>3 DEF Open, Numbered, w, q
  <1>11. \A i \in 1..Len(x) : IsStep(x[i]) /\ x[i].n <= emitted[x[i].of]
    <2> TAKE i \in 1..Len(x)
    <2>1. CASE In(i)
      BY <1>10, <2>1
    <2>2. CASE Out(i)
      <3>1. i - Len(w) \in 1..Len(q)
        BY <1>2, <1>4, <2>2 DEF q
      <3> QED BY <1>10, <2>2, <3>1
    <2> QED BY <1>5, <2>1, <2>2
  <1>12. \A j \in 1..Len(y) : IsStep(y[j]) /\ y[j].n <= emitted[y[j].of]
    <2> TAKE j \in 1..Len(y)
    <2>1. k + j \in 1..Len(q)
      BY <1>2, <1>4, <1>5 DEF q
    <2> QED BY <1>5, <1>10, <2>1
  <1>13. Numbered'
    <2>1. ASSUME NEW c \in Requests, NEW i \in 1..Len(wire'[c]), IsStep(wire'[c][i])
          PROVE  wire'[c][i].n <= emitted[wire'[c][i].of]
      <3>1. CASE c # r
        BY <1>1, <1>7, <2>1, <3>1 DEF Numbered
      <3>2. CASE c = r
        BY <1>7, <1>10, <1>11, <2>1, <3>2
      <3> QED BY <3>1, <3>2
    <2>2. ASSUME NEW c \in Requests, NEW i \in 1..Len(queue'[c])
          PROVE  IsStep(queue'[c][i]) /\ queue'[c][i].n <= emitted[queue'[c][i].of]
      <3>1. CASE c # r
        BY <1>1, <1>7, <3>1 DEF Numbered
      <3>2. CASE c = r
        BY <1>7, <1>12, <3>2
      <3> QED BY <3>1, <3>2
    <2> QED BY <1>3, <2>1, <2>2 DEF Numbered
  <1>14. Begun'
    BY <1>1, <1>3, <1>7 DEF Begun
  <1>15. Flows'
    <2>1. Inc(w)
      BY <1>1 DEF Flows, w
    <2>2. \A c \in Requests : Inc(wire'[c])
      BY <1>1, <1>6, <1>7, <2>1 DEF Flows
    <2>3. ASSUME NEW c \in streaming' PROVE Inc(queue'[c]) /\ Before(wire'[c], queue'[c])
      <3>1. CASE c = r
        BY <1>3, <1>6, <1>7, <2>3, <3>1
      <3>2. CASE c # r
        BY <1>1, <1>3, <1>7, <2>3, <3>2 DEF Flows, FramesTyped
      <3> QED BY <3>1, <3>2
    <2> QED BY <2>2, <2>3 DEF Flows
  <1>16. Open'
    BY <1>1, <1>3, <1>7, <1>10, <1>11 DEF Open
  <1>17. ResultComesLast'
    <2>1. \A c \in Requests : wire'[c] \in Seq(Frame)
      BY <1>9 DEF FramesTyped
    <2>2. \A i \in DOMAIN wire'[r] : IsStep(wire'[r][i])
      <3>1. DOMAIN w = 1..Len(w) /\ DOMAIN x = 1..Len(x)
        BY <1>4, <1>5
      <3>2. CASE wire'[r] = w
        BY <1>10, <3>1, <3>2
      <3>3. CASE wire'[r] = x
        BY <1>11, <3>1, <3>3
      <3> QED BY <1>7, <3>2, <3>3
    <2> QED BY <1>1, <1>7, <2>2 DEF ResultComesLast, IsStep
  <1> QED BY <1>9, <1>13, <1>14, <1>15, <1>16, <1>17 DEF FramesInv

\* The closing frame of a connection that carried events alone and streams no more.
LEMMA CloseFrames ==
    ASSUME FramesInv, StoreTyped, NEW r \in Requests, NEW f \in Frame,
           ~IsStep(f), f.of = r,
           pc[r] \in {"idle", "recording"},
           \E p \in {"done", "failed"} : pc' = [pc EXCEPT ![r] = p],
           wire' = wire \/ wire' = [wire EXCEPT ![r] = Append(@, f)],
           UNCHANGED <<queue, emitted, streaming>>
    PROVE  FramesInv'
  <1>1. FramesTyped /\ Numbered /\ Begun /\ Flows /\ Open /\ ResultComesLast
    BY DEF FramesInv
  <1>2. /\ r \notin streaming
        /\ \A c \in Requests \ {r} : pc'[c] = pc[c]
        /\ pc'[r] \in {"done", "failed"}
    BY <1>1 DEF FramesTyped, StoreTyped
  <1>3. CASE wire' = wire
    BY <1>1, <1>2, <1>3, PlaceFrames DEF FramesTyped
  <1>4. CASE wire' = [wire EXCEPT ![r] = Append(@, f)]
    <2> DEFINE w == wire[r]
               x == Append(w, f)
    <2>1. /\ w \in Seq(Frame) /\ wire'[r] = x
          /\ \A c \in Requests \ {r} : wire'[c] = wire[c]
      BY <1>1, <1>4 DEF FramesTyped
    <2>2. \A i \in 1..Len(w) : IsStep(w[i])
      BY <1>1 DEF Open
    <2>3. /\ x \in Seq(Frame) /\ Len(w) \in Nat /\ Len(x) = Len(w) + 1
          /\ \A i \in 1..Len(w) : x[i] = w[i]
          /\ x[Len(w) + 1] = f
      BY <2>1, OneMoreFrame
    <2>4. Inc(x)
      <3>1. \A i \in 1..Len(w) : Later(w[i], f)
        BY DEF Later
      <3>2. Inc(w)
        BY <1>1 DEF Flows
      <3> HIDE DEF w
      <3> QED BY <2>1, <3>1, <3>2, AppendInc
    <2>5. \A i \in 1..Len(w) : IsStep(w[i]) => w[i].n <= emitted[w[i].of]
      BY <1>1 DEF Numbered
    <2> HIDE DEF x, w
    <2>6. FramesTyped'
      <3>1. wire' \in [Requests -> Seq(Frame)]
        BY <1>1, <1>4, <2>1, <2>3 DEF FramesTyped
      <3> QED BY <1>1, <1>2, <3>1 DEF FramesTyped
    <2>7. Numbered'
      <3>1. \A i \in 1..Len(x) : IsStep(x[i]) => i \in 1..Len(w) /\ x[i] = w[i]
        BY <2>3
      <3>2. ASSUME NEW c \in Requests, NEW i \in 1..Len(wire'[c]), IsStep(wire'[c][i])
            PROVE  wire'[c][i].n <= emitted[wire'[c][i].of]
        <4>1. CASE c = r
          BY <2>1, <2>5, <3>1, <3>2, <4>1
        <4>2. CASE c # r
          BY <1>1, <2>1, <3>2, <4>2 DEF Numbered
        <4> QED BY <4>1, <4>2
      <3> QED BY <1>1, <3>2 DEF Numbered
    <2>8. Begun'
      <3>1. ASSUME NEW c \in Requests, pc'[c] \in {"idle", "created"}
            PROVE  emitted[c] = 0 /\ wire'[c] = <<>>
        <4>1. c # r /\ pc[c] \in {"idle", "created"}
          BY <1>2, <3>1
        <4> QED BY <1>1, <2>1, <4>1 DEF Begun
      <3> QED BY <3>1 DEF Begun
    <2>9. Flows'
      <3>1. \A c \in Requests : Inc(wire'[c])
        <4> TAKE c \in Requests
        <4>1. CASE c = r
          BY <2>1, <2>4, <4>1
        <4>2. CASE c # r
          BY <1>1, <2>1, <4>2 DEF Flows
        <4> QED BY <4>1, <4>2
      <3>2. ASSUME NEW c \in streaming PROVE Inc(queue[c]) /\ Before(wire'[c], queue[c])
        <4>1. c \in Requests /\ c # r
          BY <1>1, <1>2 DEF FramesTyped
        <4> QED BY <1>1, <2>1, <4>1 DEF Flows
      <3> QED BY <3>1, <3>2 DEF Flows
    <2>10. Open'
      BY <1>1, <1>2, <2>1 DEF Open
    <2>11. ResultComesLast'
      <3>1. \A i \in DOMAIN x : ~IsStep(x[i]) => i = Len(x) /\ x[i].of = r
        BY <2>2, <2>3
      <3> QED BY <1>1, <2>1, <3>1 DEF ResultComesLast, IsStep
    <2> QED BY <2>6, <2>7, <2>8, <2>9, <2>10, <2>11 DEF FramesInv
  <1> QED BY <1>3, <1>4

\* Every step keeps the frames.
LEMMA StepFrames == StoreTyped /\ FramesInv /\ [Next]_vars => FramesInv'
  <1> SUFFICES ASSUME StoreTyped, FramesInv, [Next]_vars PROVE FramesInv'
    OBVIOUS
  <1>0. FramesTyped /\ Begun
    BY DEF FramesInv
  <1>1. ASSUME NEW r \in Requests, RejectTask(r) PROVE FramesInv'
    <2>1. wire[r] = <<>> /\ Append(<<>>, Reply("error", r)) = <<Reply("error", r)>>
      BY <1>0, <1>1 DEF RejectTask, Begun
    <2>2. wire' = [wire EXCEPT ![r] = Append(@, Reply("error", r))]
      BY <1>0, <1>1, <2>1 DEF RejectTask, FramesTyped
    <2>3. Reply("error", r) \in Frame /\ ~IsStep(Reply("error", r)) /\ Reply("error", r).of = r
      <3>1. "error" \in {"task_result", "error"}
        OBVIOUS
      <3> QED BY <3>1, ReplyFrame
    <2> QED BY <1>1, <2>2, <2>3, CloseFrames DEF RejectTask
  <1>2. ASSUME NEW r \in Requests, SendResult(r) PROVE FramesInv'
    <2> DEFINE f == Reply("task_result", r)
    <2>1. f \in Frame /\ ~IsStep(f) /\ f.of = r
      <3>1. "task_result" \in {"task_result", "error"}
        OBVIOUS
      <3> QED BY <3>1, ReplyFrame
    <2>2. wire[r] \o <<f>> = Append(wire[r], f)
      BY <1>0, <2>1, OneMoreFrame DEF FramesTyped
    <2>3. wire' = wire \/ wire' = [wire EXCEPT ![r] = Append(@, f)]
      BY <1>0, <1>2, <2>2 DEF SendResult, Written, FramesTyped
    <2> HIDE DEF f
    <2> QED BY <1>2, <2>1, <2>3, CloseFrames DEF SendResult
  <1>3. ASSUME NEW r \in Requests, StartTask(r) PROVE FramesInv'
    BY <1>3, StartFrames
  <1>4. ASSUME NEW r \in Requests, Emit(r) PROVE FramesInv'
    BY <1>0, <1>4, EmitFrames DEF Emit, handling, FramesTyped
  <1>5. ASSUME NEW r \in Requests, EndTask(r) PROVE FramesInv'
    BY <1>0, <1>5, EmitFrames DEF EndTask, StreamStopped, FramesTyped, StoreTyped
  <1>6. ASSUME NEW r \in Requests, Stream(r) PROVE FramesInv'
    BY <1>6, StreamFrames
  <1>7. ASSUME NEW r \in Requests,
               CreateTask(r) \/ CompleteTask(r) \/ CommitTask(r) \/ RecordStep(r)
                 \/ RecordCost(r) \/ CommitStep(r)
        PROVE  FramesInv'
    <2>1. /\ UNCHANGED <<wire, queue, emitted, streaming>>
          /\ \/ pc[r] = "idle" /\ pc' = [pc EXCEPT ![r] = "created"]
             \/ /\ pc[r] \in {"ended", "completed", "recording", "stepped", "costed"}
                /\ \E p \in {"completed", "recording", "stepped", "costed"} : pc' = [pc EXCEPT ![r] = p]
      BY <1>7 DEF CreateTask, CompleteTask, CommitTask, RecordStep, RecordCost, CommitStep, stream
    <2>2. r \notin streaming /\ pc[r] \notin {"done", "failed"}
      BY <1>0, <2>1 DEF FramesTyped
    <2>3. \A c \in Requests \ {r} : pc'[c] = pc[c]
      BY <2>1 DEF StoreTyped
    <2>4. pc'[r] \in {"idle", "created"} => pc[r] \in {"idle", "created"}
      BY <2>1 DEF StoreTyped
    <2> QED BY <1>0, <2>1, <2>2, <2>3, <2>4, PlaceFrames DEF FramesTyped
  <1>8. ASSUME NEW r \in Requests, Disconnect(r) PROVE FramesInv'
    BY <1>0, <1>8, PlaceFrames DEF Disconnect, stream, FramesTyped
  <1>9. CASE Crash
    <2>1. /\ UNCHANGED <<wire, emitted>> /\ streaming' = {}
          /\ queue' = [r \in Requests |-> <<>>]
          /\ \A r \in Requests : pc'[r] = IF r \in Busy THEN "lost" ELSE pc[r]
      BY <1>9 DEF Crash
    <2>2. \A r \in Requests : /\ pc'[r] \in {"idle", "created"} => pc[r] \in {"idle", "created"}
                              /\ pc[r] \in {"done", "failed"} => pc'[r] \in {"done", "failed"}
      BY <2>1 DEF Busy
    <2>3. FramesTyped' /\ \A r \in Requests : queue'[r] = <<>>
      BY <1>0, <2>1 DEF FramesTyped
    <2> QED BY <2>1, <2>2, <2>3 DEF FramesInv, Numbered, Begun, Flows, Open, ResultComesLast
  <1>10. CASE UNCHANGED vars \/ Finished
    BY <1>0, <1>10, PlaceFrames DEF Finished, vars, handling, stream, FramesTyped
  <1> QED BY <1>1, <1>2, <1>3, <1>4, <1>5, <1>6, <1>7, <1>8, <1>9, <1>10 DEF Next

-----------------------------------------------------------------------------
(***************************************************************************)
(* The theorems                                                            *)
(***************************************************************************)

\* When a result was sent, the database holds the task with all its steps and
\* costs, whatever the other handlers commit and whatever crashes come.
THEOREM DoneTheorem == Spec => []DoneIsRecorded
  <1>1. StoreInv => DoneIsRecorded
    <2> SUFFICES ASSUME StoreInv, NEW r \in Requests, pc[r] = "done"
                 PROVE  disk[task[r]] = [status |-> "completed", total |-> results[r],
                                         steps |-> results[r], costs |-> results[r]]
      BY DEF DoneIsRecorded
    <2>1. r \in Holders
      BY DEF Holders
    <2>2. disk[task[r]] = db[task[r]] /\ db[task[r]] = RowAt("done", results[r], recorded[r])
      BY <2>1 DEF StoreInv, RowsHeld, RowsCommitted
    <2> QED BY <2>2 DEF RowAt
  <1> QED BY <1>1, StoreInvariance, PTL

\* A task id runs at most once, by however many requests it arrives and however
\* often the enclave crashes, and what ran is on record.
THEOREM RunOnceTheorem == Spec => []RunOnceAndOnRecord
  <1>1. StoreInv => RunOnceAndOnRecord
    BY DEF StoreInv, RunsCounted
  <1> QED BY <1>1, StoreInvariance, PTL

\* For any number of handlers on the one connection and wherever the enclave crashes,
\* a step row is on disk without its cost row only by the commit of another handler
\* (record_step).
THEOREM CostsTheorem == Spec => []CostsFollowSteps
  <1>1. CostsInv => CostsFollowSteps
    BY DEF CostsInv, OnDisk, RowGood, RowEven, Another, CostsFollowSteps
  <1> QED BY <1>1, InitCosts, StepCosts, StoreInvariance, PTL DEF Spec

\* However the handlers feed each other's queues and whichever client leaves, a client
\* reads the events of every task in order and once, and its own closing frame last
\* (stream_events_loop, _handle_task_request).
THEOREM FramesTheorem == Spec => []FramesInOrder
  <1>1. StoreInv /\ FramesInv /\ [Next]_vars => FramesInv'
    BY StepFrames DEF StoreInv
  <1>2. FramesInv => FramesInOrder
    <2> SUFFICES ASSUME FramesInv PROVE EventsInOrder
      BY DEF FramesInv, FramesInOrder
    <2>1. \A r \in Requests : DOMAIN wire[r] = 1..Len(wire[r]) /\ Inc(wire[r])
      BY DEF FramesInv, FramesTyped, Flows
    <2> QED BY <2>1 DEF EventsInOrder, Inc, Later, IsStep
  <1> QED BY <1>1, <1>2, InitFrames, StoreInvariance, PTL DEF Spec
-----------------------------------------------------------------------------
(***************************************************************************)
(* The service implements TaskRecords                                      *)
(***************************************************************************)

\* What is on disk is behind what is in the tables, and what is completed was run.
Behind == \A t \in TaskIds : Records!GoesOn(disk[t], db[t])
RanBefore ==
    /\ \A r \in Holders : pc[r] # "created" => runs[task[r]] = 1
    /\ \A t \in TaskIds : db[t].status = "completed" \/ disk[t].status = "completed" => runs[t] = 1
RecordsInv == Behind /\ RanBefore

\* A row may stay as it is, and go on twice.
LEMMA GoesOnOrder ==
    /\ \A a \in Row : Records!GoesOn(a, a)
    /\ \A a, b, c \in Row : Records!GoesOn(a, b) /\ Records!GoesOn(b, c) => Records!GoesOn(a, c)
  <1>1. \A a \in Row : Records!GoesOn(a, a)
    BY DEF Row, Records!GoesOn
  <1>2. ASSUME NEW a \in Row, NEW b \in Row, NEW c \in Row,
               Records!GoesOn(a, b), Records!GoesOn(b, c)
        PROVE  Records!GoesOn(a, c)
    <2>1. /\ a.total \in Nat /\ a.steps \in Nat /\ a.costs \in Nat
          /\ b.total \in Nat /\ b.steps \in Nat /\ b.costs \in Nat
          /\ c.total \in Nat /\ c.steps \in Nat /\ c.costs \in Nat
      BY DEF Row
    <2> QED BY <1>2, <2>1 DEF Records!GoesOn
  <1> QED BY <1>1, <1>2

LEMMA InitRecords == Init => RecordsInv /\ Records!Init
  <1> SUFFICES ASSUME Init PROVE RecordsInv /\ Records!Init
    OBVIOUS
  <1>1. Answered = {}
    BY DEF Init, Answered
  <1>2. Records!Init
    BY <1>1 DEF Init, Records!Init, NoRow, Records!Blank
  <1>3. RecordsInv
    BY DEF Init, RecordsInv, Behind, RanBefore, Holders, NoRow, Records!GoesOn
  <1> QED BY <1>2, <1>3

\* A handler writes to its own row, and commits nothing.
LEMMA WriteRecords ==
    ASSUME StoreInv, RecordsInv, NEW r \in Requests, UNCHANGED <<task, disk, runs>>,
           NEW row \in Row, db' = [db EXCEPT ![task[r]] = row],
           Records!GoesOn(db[task[r]], row),
           row.status = "completed" => runs[task[r]] = 1,
           \A q \in Holders' : q \in Holders \/ pc'[q] = "created",
           \A q \in Holders : pc[q] = "created" => pc'[q] = "created"
    PROVE  RecordsInv'
  <1>1. /\ task[r] \in TaskIds /\ db \in [TaskIds -> Row] /\ disk \in [TaskIds -> Row]
        /\ Behind /\ RanBefore
    BY DEF StoreInv, StoreTyped, RecordsInv
  <1>2. Behind'
    <2> SUFFICES ASSUME NEW t \in TaskIds PROVE Records!GoesOn(disk[t], db'[t])
      BY DEF Behind, Records!GoesOn
    <2>1. CASE t = task[r]
      <3>1. db'[t] = row /\ Records!GoesOn(disk[t], db[t])
        BY <1>1, <2>1 DEF Behind
      <3> QED BY <1>1, <2>1, <3>1, GoesOnOrder
    <2>2. CASE t # task[r]
      BY <1>1, <2>2 DEF Behind
    <2> QED BY <2>1, <2>2
  <1>3. RanBefore'
    BY <1>1 DEF RanBefore
  <1> QED BY <1>2, <1>3 DEF RecordsInv

\* Every step keeps the records behind the tables.
LEMMA StepRecords == StoreInv /\ RecordsInv /\ [Next]_vars => RecordsInv'
  <1> SUFFICES ASSUME StoreInv, RecordsInv, [Next]_vars PROVE RecordsInv'
    OBVIOUS
  <1>0. StoreTyped /\ Behind /\ RanBefore
    BY DEF StoreInv, RecordsInv
  <1>1. ASSUME UNCHANGED <<task, disk, runs, db>>,
               \A q \in Holders' : q \in Holders,
               \A q \in Holders : pc[q] = "created" => pc'[q] = "created"
        PROVE  RecordsInv'
    BY <1>0, <1>1 DEF RecordsInv, Behind, RanBefore, Records!GoesOn
  <1>2. ASSUME NEW r \in Requests, CreateTask(r) PROVE RecordsInv'
    <2> DEFINE row == [NoRow EXCEPT !.status = "running"]
    <2>1. row \in Row /\ row.status = "running"
      BY DEF row, NoRow, Row
    <2>2. Records!GoesOn(db[task[r]], row)
      BY <1>2 DEF CreateTask, Fresh, Records!GoesOn
    <2>3. /\ db' = [db EXCEPT ![task[r]] = row] /\ UNCHANGED <<task, disk, runs>>
          /\ \A q \in Holders' : q \in Holders \/ pc'[q] = "created"
          /\ \A q \in Holders : pc[q] = "created" => pc'[q] = "created"
      BY <1>0, <1>2 DEF CreateTask, Holders, StoreTyped
    <2> HIDE DEF row
    <2> QED BY <2>1, <2>2, <2>3, WriteRecords
  <1>3. ASSUME NEW r \in Requests, CompleteTask(r) \/ RecordStep(r) \/ RecordCost(r)
        PROVE  RecordsInv'
    <2> DEFINE old == db[task[r]]
               row == db'[task[r]]
    <2>1. /\ r \in Holders /\ pc[r] \in {"ended", "recording", "stepped"}
          /\ task[r] \in TaskIds /\ runs[task[r]] = 1
          /\ UNCHANGED <<task, disk, runs>>
          /\ \A q \in Holders' : q \in Holders
          /\ \A q \in Holders : pc[q] = "created" => pc'[q] = "created"
          /\ results[r] \in Nat /\ recorded[r] \in Nat
      BY <1>0, <1>3 DEF CompleteTask, RecordStep, RecordCost, StoreTyped, Holders, RanBefore
    <2>2. old \in Row /\ old = RowAt(pc[r], results[r], recorded[r])
      BY <1>0, <2>1 DEF StoreInv, StoreTyped, RowsHeld
    <2>3. /\ db' = [db EXCEPT ![task[r]] = row]
          /\ \/ pc[r] = "ended" /\ row = [old EXCEPT !.status = "completed", !.total = results[r]]
             \/ pc[r] = "recording" /\ row = [old EXCEPT !.steps = @ + 1]
             \/ pc[r] = "stepped" /\ row = [old EXCEPT !.costs = @ + 1]
      BY <1>0, <1>3, <2>1 DEF CompleteTask, RecordStep, RecordCost, StoreTyped
    <2> HIDE DEF old, row
    <2>4. row \in Row
      <3>1. results[r] \in Nat /\ old.steps + 1 \in Nat /\ old.costs + 1 \in Nat
        BY <2>1, <2>2 DEF Row
      <3>2. CASE pc[r] = "ended"
        BY <2>2, <2>3, <3>1, <3>2 DEF Row
      <3>3. CASE pc[r] = "recording"
        BY <2>2, <2>3, <3>1, <3>3 DEF Row
      <3>4. CASE pc[r] = "stepped"
        BY <2>2, <2>3, <3>1, <3>4 DEF Row
      <3> QED BY <2>1, <3>2, <3>3, <3>4
    <2>5. Records!GoesOn(old, row)
      <3>1. CASE pc[r] = "ended"
        BY <2>2, <2>3, <3>1 DEF RowAt, NoRow, Records!GoesOn, Row
      <3>2. CASE pc[r] # "ended"
        <4>1. old.steps \in Nat /\ old.costs \in Nat
          BY <2>2 DEF Row
        <4> QED BY <2>2, <2>3, <3>2, <4>1 DEF Records!GoesOn, Row
      <3> QED BY <3>1, <3>2
    <2> QED BY <2>1, <2>3, <2>4, <2>5, WriteRecords DEF old
  <1>4. ASSUME NEW r \in Requests, StartTask(r) PROVE RecordsInv'
    <2>1. /\ pc[r] = "created" /\ pc' = [pc EXCEPT ![r] = "running"] /\ disk' = db
          /\ r \in Holders /\ Holders' = Holders /\ task[r] \in TaskIds
          /\ runs' = [runs EXCEPT ![task[r]] = @ + 1] /\ UNCHANGED <<task, db>>
      BY <1>0, <1>4 DEF StartTask, Commit, StoreTyped, Holders
    <2>2. runs[task[r]] = 0
      BY <2>1 DEF StoreInv, RunsCounted, Holders
    <2>3. Behind'
      BY <1>0, <2>1, GoesOnOrder DEF Behind, StoreTyped, Records!GoesOn
    <2>4. db[task[r]].status = "running"
      BY <2>1 DEF StoreInv, RowsHeld, RowAt, NoRow
    <2>5. \A q \in Holders' : pc'[q] # "created" => runs'[task'[q]] = 1
      <3> SUFFICES ASSUME NEW q \in Holders, pc'[q] # "created" PROVE runs'[task[q]] = 1
        BY <2>1
      <3>1. CASE q = r
        BY <1>0, <2>1, <2>2, <3>1 DEF StoreTyped
      <3>2. CASE q # r
        <4>1. task[q] # task[r] /\ task[q] \in TaskIds /\ pc[q] # "created"
          BY <1>0, <2>1, <3>2 DEF StoreInv, RowsHeld, StoreTyped, Holders
        <4> QED BY <1>0, <2>1, <4>1 DEF RanBefore, StoreTyped
      <3> QED BY <3>1, <3>2
    <2>6. \A t \in TaskIds : db[t].status = "completed" => runs'[t] = 1
      BY <1>0, <2>1, <2>4 DEF RanBefore, StoreTyped
    <2> QED BY <2>1, <2>3, <2>5, <2>6 DEF RecordsInv, RanBefore
  <1>5. ASSUME NEW r \in Requests, CommitTask(r) \/ CommitStep(r) PROVE RecordsInv'
    <2>1. /\ disk' = db /\ UNCHANGED <<task, db, runs>> /\ Holders' = Holders
          /\ \A q \in Holders : pc[q] = "created" => pc'[q] = "created"
      BY <1>0, <1>5 DEF CommitTask, CommitStep, Commit, StoreTyped, Holders
    <2>2. Behind'
      BY <1>0, <2>1, GoesOnOrder DEF Behind, StoreTyped, Records!GoesOn
    <2> QED BY <1>0, <1>5, <2>1, <2>2 DEF RecordsInv, RanBefore, CommitTask, CommitStep, StoreTyped, Holders
  <1>6. CASE Crash
    <2>1. db' = disk /\ UNCHANGED <<task, disk, runs>>
          /\ \A q \in Holders' : q \in Holders /\ pc'[q] = pc[q]
      BY <1>0, <1>6 DEF Crash, Holders, StoreTyped
    <2>2. Behind'
      BY <1>0, <2>1, GoesOnOrder DEF Behind, StoreTyped, Records!GoesOn
    <2>3. RanBefore'
      BY <1>0, <2>1 DEF RanBefore
    <2> QED BY <2>2, <2>3 DEF RecordsInv
  <1>7. ASSUME NEW r \in Requests,
               RejectTask(r) \/ Emit(r) \/ Stream(r) \/ EndTask(r) \/ SendResult(r) \/ Disconnect(r)
        PROVE  RecordsInv'
    BY <1>0, <1>1, <1>7 DEF RejectTask, Emit, Stream, EndTask, SendResult, Disconnect,
                            handling, store, Holders, StoreTyped
  <1>8. CASE UNCHANGED vars \/ Finished
    BY <1>1, <1>8 DEF Finished, vars, handling, store, Holders
  <1> QED BY <1>2, <1>3, <1>4, <1>5, <1>6, <1>7, <1>8 DEF Next

\* A commit makes what the tables hold the records, of all tasks that are not answered.
LEMMA CommitWrites ==
    ASSUME StoreInv, RecordsInv, disk' = db PROVE Records!Write
  <1>1. db \in [TaskIds -> Records!Record]
    BY DEF StoreInv, StoreTyped, Row, Records!Record
  <1>2. \A t \in TaskIds : Records!GoesOn(disk[t], db[t])
    BY DEF RecordsInv, Behind
  <1>3. \A t \in Answered : db[t] = disk[t]
    BY DEF Answered, StoreInv, RowsCommitted, Holders
  <1>4. \A t \in TaskIds : db[t].status = "completed" => runs[t] = 1
    BY DEF RecordsInv, RanBefore
  <1> QED BY <1>1, <1>2, <1>3, <1>4 DEF Records!Write

\* Every step of the service is one of the records, or changes none.
LEMMA StepKeepsRecords ==
    StoreInv /\ RecordsInv /\ [Next]_vars => [Records!Next]_(Records!recordVars)
  <1> SUFFICES ASSUME StoreInv, RecordsInv, [Next]_vars
               PROVE  [Records!Next]_(Records!recordVars)
    OBVIOUS
  <1>0. StoreTyped
    BY DEF StoreInv
  <1>1. ASSUME UNCHANGED <<task, disk, runs>>, \A q \in Requests : pc'[q] = "done" <=> pc[q] = "done"
        PROVE  UNCHANGED Records!recordVars
    BY <1>1 DEF Records!recordVars, Answered
  <1>2. ASSUME NEW r \in Requests, StartTask(r) PROVE Records!Run(task[r]) /\ task[r] \in TaskIds
    <2>1. /\ disk' = db /\ task[r] \in TaskIds /\ pc[r] = "created"
          /\ runs' = [runs EXCEPT ![task[r]] = @ + 1]
      BY <1>0, <1>2 DEF StartTask, Commit, StoreTyped
    <2>2. runs[task[r]] = 0
      BY <2>1 DEF StoreInv, RunsCounted
    <2>3. db[task[r]].status = "running"
      BY <2>1 DEF StoreInv, RowsHeld, RowAt, NoRow, Holders
    <2>4. Answered' = Answered
      BY <1>0, <1>2 DEF StartTask, Answered, StoreTyped
    <2>5. runs' = [runs EXCEPT ![task[r]] = 1]
      BY <1>0, <2>1, <2>2 DEF StoreTyped
    <2> QED BY <2>1, <2>2, <2>3, <2>4, <2>5, CommitWrites DEF Records!Run
  <1>3. ASSUME NEW r \in Requests, CommitTask(r) \/ CommitStep(r) PROVE Records!Store
    <2>1. disk' = db /\ runs' = runs
      BY <1>3 DEF CommitTask, CommitStep, Commit
    <2>2. Answered' = Answered
      BY <1>0, <1>3 DEF CommitTask, CommitStep, Answered, StoreTyped
    <2> QED BY <2>1, <2>2, CommitWrites DEF Records!Store
  <1>4. ASSUME NEW r \in Requests, SendResult(r) PROVE Records!Answer(task[r]) /\ task[r] \in TaskIds
    <2>1. /\ task[r] \in TaskIds /\ pc[r] = "recording" /\ recorded[r] = results[r]
          /\ pc' = [pc EXCEPT ![r] = "done"] /\ UNCHANGED <<task, disk, runs>>
          /\ r \in Holders
      BY <1>0, <1>4 DEF SendResult, StoreTyped, store, Holders
    <2>2. disk[task[r]] = RowAt(pc[r], results[r], recorded[r])
      BY <2>1 DEF StoreInv, RowsHeld, RowsCommitted
    <2>3. Records!InFull(disk[task[r]])
      BY <2>1, <2>2 DEF RowAt, Records!InFull
    <2>4. Answered' = Answered \cup {task[r]}
      BY <1>0, <2>1 DEF Answered, StoreTyped
    <2> QED BY <2>1, <2>3, <2>4 DEF Records!Answer
  <1>5. ASSUME NEW r \in Requests,
               \/ CreateTask(r) \/ RejectTask(r) \/ Emit(r) \/ Stream(r) \/ EndTask(r)
               \/ CompleteTask(r) \/ RecordStep(r) \/ RecordCost(r) \/ Disconnect(r)
        PROVE  UNCHANGED Records!recordVars
    BY <1>0, <1>1, <1>5 DEF CreateTask, RejectTask, Emit, Stream, EndTask, CompleteTask,
                            RecordStep, RecordCost, Disconnect, handling, store, StoreTyped
  <1>6. CASE Crash
    BY <1>0, <1>1, <1>6 DEF Crash, Busy, StoreTyped
  <1>7. CASE UNCHANGED vars \/ Finished
    BY <1>1, <1>7 DEF Finished, vars, handling, store
  <1> QED BY <1>2, <1>3, <1>4, <1>5, <1>6, <1>7 DEF Next, Records!Next

\* For any requests, ids and crashes, and however the commits of the handlers fall, the
\* service keeps the records of TaskRecords (_handle_task_request and TaskStateDB).
THEOREM RecordsTheorem == Spec => ImplementsTaskRecords
  <1>1. StoreInv /\ RecordsInv /\ [Next]_vars => RecordsInv'
    BY StepRecords
  <1>2. Init => RecordsInv /\ Records!Init
    BY InitRecords
  <1>3. StoreInv /\ RecordsInv /\ [Next]_vars => [Records!Next]_(Records!recordVars)
    BY StepKeepsRecords
  <1> QED BY <1>1, <1>2, <1>3, StoreInvariance, PTL
          DEF Spec, ImplementsTaskRecords, Records!Spec

=============================================================================
