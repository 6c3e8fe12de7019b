------------------------- MODULE ToolProcessesProofs -------------------------
(***************************************************************************)
(* Proofs about ToolProcesses: for any limits of the tools and of the      *)
(* router and any number of retries.  The invariant says of every process  *)
(* of a call whether it is awaited, was read or was given up, and of the   *)
(* time how it adds up over the commands that were started.                *)
(***************************************************************************)
EXTENDS ToolProcesses, TLAPS

\* Multiplication is monotonic, and a factor one greater adds one summand.
LEMMA Monotonic ==
    ASSUME NEW a \in Nat, NEW b \in Nat, NEW c \in Nat, a <= b PROVE a * c <= b * c
  OBVIOUS

LEMMA OneMore ==
    ASSUME NEW a \in Nat, NEW c \in Nat PROVE (a + 1) * c = a * c + c
  OBVIOUS

LEMMA ProductType == ASSUME NEW a \in Nat, NEW c \in Nat PROVE a * c \in Nat
  OBVIOUS

-----------------------------------------------------------------------------
(***************************************************************************)
(* The inductive invariant                                                 *)
(***************************************************************************)

\* A call is over after MAX_TOOL_RETRIES + 1 attempts, and has begun one when it runs.
AttemptsCount ==
    /\ phase \in {"new", "sleeping"} => attempt <= MaxToolRetries
    /\ phase \in {"spawning", "waiting"} => attempt > 0
    /\ phase = "reported" /\ ~report.success => attempt = MaxToolRetries + 1
    /\ phase # "reported" => ~report.success

\* The one process that is awaited is the last, and of this command; what was read
\* has ended.
Awaited ==
    /\ phase = "waiting" =>
         /\ procs # <<>>
         /\ Last.fate = "awaited" /\ Last.attempt = attempt /\ Last.command = command
    /\ \A i \in DOMAIN procs :
         /\ procs[i].fate = "awaited" => i = Len(procs) /\ phase = "waiting"
         /\ procs[i].fate = "read" => procs[i].state # "running"

\* The commands of the call before this one, with those its attempts left out.
Slots == (attempt - 1) * tool.commands + (command - 1)

\* Since the commands before took the limit of the tool at most, and the attempts
\* before that of the router.
Time ==
    /\ attempt = 0 => elapsed = 0 /\ phase \in {"new", "cancelled"}
    /\ attempt > 0 => elapsed <= (attempt - 1) * RouterLimit + age
    /\ attempt > 0 /\ phase = "spawning" => elapsed <= Slots * tool.limit
    /\ attempt > 0 /\ phase = "waiting" => elapsed <= Slots * tool.limit + wait
    /\ attempt > 0 => elapsed <= Slots * tool.limit + tool.limit

ProcInv == TypeOK /\ AttemptsCount /\ Awaited /\ SuccessIsLast /\ Time

\* A call has one command or two, and a limit.
LEMMA CallType ==
    ASSUME NEW c \in Calls PROVE c.commands \in {1, 2} /\ c.limit \in Nat \ {0}
  <1>1. c.commands \in {1} \cup 1..2 /\ c.limit \in ShellLimits \cup {GitLimit}
    BY DEF Calls
  <1>2. c.commands \in {1, 2}
    BY <1>1
  <1>3. c.limit \in Nat \ {0}
    BY <1>1, ToolProcessesAssumption
  <1> QED BY <1>2, <1>3

\* The kinds of the values that the proofs calculate with.
LEMMA Numbers ==
    ASSUME TypeOK
    PROVE  /\ attempt \in Nat /\ command \in Nat \ {0} /\ age \in Nat /\ wait \in Nat /\ elapsed \in Nat
           /\ tool.commands \in {1, 2} /\ tool.limit \in Nat \ {0} /\ command <= tool.commands
           /\ RouterLimit \in Nat \ {0} /\ MaxToolRetries \in Nat
           /\ attempt <= MaxToolRetries + 1 /\ age <= RouterLimit /\ wait <= tool.limit
  <1>1. tool.commands \in {1, 2} /\ tool.limit \in Nat \ {0}
    BY CallType DEF TypeOK
  <1>2. command \in 1..tool.commands /\ wait \in 0..tool.limit /\ age \in 0..RouterLimit
        /\ attempt \in 0..MaxToolRetries + 1 /\ elapsed \in Nat
    BY DEF TypeOK
  <1> QED BY <1>1, <1>2, ToolProcessesAssumption

LEMMA InitInv == Init => ProcInv
  <1> SUFFICES ASSUME Init PROVE ProcInv
    OBVIOUS
  <1> USE ToolProcessesAssumption DEF Init
  <1>1. tool.commands \in {1, 2} /\ tool.limit \in Nat \ {0}
    BY CallType
  <1>2. TypeOK
    <2>1. command \in 1..tool.commands /\ wait \in 0..tool.limit
      BY <1>1
    <2> QED BY <2>1 DEF TypeOK, NoReport
  <1>3. AttemptsCount /\ Awaited /\ SuccessIsLast
    BY DEF AttemptsCount, Awaited, SuccessIsLast, NoReport
  <1>4. Time
    BY DEF Time
  <1> QED BY <1>2, <1>3, <1>4 DEF ProcInv

\* An attempt ends in one of three ways.
LEMMA AttemptEnds ==
    ASSUME TypeOK, AttemptsCount, phase \in {"spawning", "waiting"},
           NEW r \in [success : BOOLEAN, by : {"exit", "error", "tool", "router"}],
           EndAttempt(r)
    PROVE  \/ phase' = "reported" /\ report' = r /\ (~r.success => attempt = MaxToolRetries + 1)
           \/ phase' = "sleeping" /\ report' = report /\ ~r.success /\ attempt <= MaxToolRetries
  BY Numbers DEF EndAttempt, After

\* The next attempt begins with its first command.
LEMMA DispatchInv == ASSUME ProcInv, Dispatch PROVE ProcInv'
  <1> USE DEF ProcInv, Dispatch
  <1>1. TypeOK'
    <2>1. attempt' \in 0..MaxToolRetries + 1
      BY Numbers DEF AttemptsCount
    <2>2. command' \in 1..tool'.commands /\ age' \in 0..RouterLimit
      BY Numbers
    <2> QED BY <2>1, <2>2 DEF TypeOK
  <1>2. AttemptsCount'
    BY Numbers DEF AttemptsCount
  <1>3. Awaited'
    BY DEF Awaited, Last
  <1>4. SuccessIsLast'
    BY DEF SuccessIsLast, AttemptsCount
  <1>5. Time'
    <2>1. attempt' = attempt + 1 /\ command' = 1 /\ elapsed' = elapsed /\ age' = 0 /\ phase' = "spawning"
          /\ tool' = tool
      OBVIOUS
    <2>2. elapsed <= attempt * RouterLimit
      <3>1. CASE attempt = 0
        BY <3>1, Numbers, ProductType DEF Time
      <3>2. CASE attempt > 0
        <4>1. attempt - 1 \in Nat
          BY <3>2, Numbers
        <4>2. ((attempt - 1) + 1) * RouterLimit = (attempt - 1) * RouterLimit + RouterLimit
              /\ (attempt - 1) * RouterLimit \in Nat
          BY <4>1, Numbers, OneMore, ProductType
        <4>3. (attempt - 1) + 1 = attempt
          BY Numbers
        <4>4. elapsed <= (attempt - 1) * RouterLimit + age
          BY <3>2 DEF Time
        <4> QED BY <4>2, <4>3, <4>4, Numbers
      <3> QED BY <3>1, <3>2, Numbers
    <2>3. elapsed <= (attempt * tool.commands) * tool.limit
      <3>1. CASE attempt = 0
        BY <3>1, Numbers, ProductType DEF Time
      <3>2. CASE attempt > 0
        <4>1. Slots \in Nat /\ Slots + 1 <= attempt * tool.commands /\ attempt * tool.commands \in Nat
          BY <3>2, Numbers DEF Slots
        <4>2. (Slots + 1) * tool.limit = Slots * tool.limit + tool.limit
          BY <4>1, Numbers, OneMore
        <4>3. (Slots + 1) * tool.limit <= (attempt * tool.commands) * tool.limit
          <5>1. Slots + 1 \in Nat
            BY <4>1
          <5> QED BY <4>1, <5>1, Numbers, Monotonic
        <4>4. elapsed <= (Slots + 1) * tool.limit
          BY <3>2, <4>2 DEF Time
        <4>5. (Slots + 1) * tool.limit \in Nat /\ (attempt * tool.commands) * tool.limit \in Nat
          BY <4>1, Numbers, ProductType
        <4> QED BY <4>3, <4>4, <4>5, Numbers
      <3> QED BY <3>1, <3>2, Numbers
    <2>4. Slots' = attempt * tool.commands
      <3>1. (attempt' - 1) * tool'.commands + (command' - 1) = attempt * tool.commands + 0
        <4>1. attempt' - 1 = attempt /\ command' - 1 = 0
          BY <2>1, Numbers
        <4> QED BY <2>1, <4>1
      <3>2. attempt * tool.commands \in Nat
        BY Numbers, ProductType
      <3> QED BY <3>1, <3>2 DEF Slots
    <2>5. (attempt' - 1) * RouterLimit + age' = attempt * RouterLimit
      BY <2>1, Numbers, ProductType
    <2>6. Slots' * tool'.limit = (attempt * tool.commands) * tool.limit
          /\ (attempt * tool.commands) * tool.limit \in Nat
      <3>1. attempt * tool.commands \in Nat
        BY Numbers, ProductType
      <3> QED BY <2>1, <2>4, <3>1, Numbers, ProductType
    <2>7. elapsed' <= (attempt' - 1) * RouterLimit + age'
      BY <2>1, <2>2, <2>5
    <2>8. elapsed' <= Slots' * tool'.limit /\ elapsed' <= Slots' * tool'.limit + tool'.limit
      <3>1. tool'.limit \in Nat /\ elapsed' \in Nat
        BY <2>1, Numbers
      <3> QED BY <2>1, <2>3, <2>6, <3>1
    <2>9. attempt' > 0
      BY <2>1, Numbers
    <2> HIDE DEF ProcInv, Dispatch
    <2> QED BY <2>1, <2>7, <2>8, <2>9 DEF Time
  <1> QED BY <1>1, <1>2, <1>3, <1>4, <1>5

\* The time that is accounted for when nothing but the phase changes.
LEMMA TimeKeeps ==
    ASSUME Time, UNCHANGED <<tool, attempt, command, clocks>>, phase' \notin {"new", "spawning", "waiting"},
           attempt = 0 => phase' = "cancelled"
    PROVE  Time'
  <1>1. Slots' = Slots
    BY DEF Slots
  <1> QED BY <1>1 DEF Time, clocks

\* The processes of a call.
Process(c) == [attempt : 1..MaxToolRetries + 1, command : 1..c.commands,
               state : {"running", "ok", "failed"}, fate : {"awaited", "read", "abandoned"}]

\* The last process is read or given up.
LEMMA Settled ==
    ASSUME TypeOK, Awaited, phase = "waiting", NEW f \in {"read", "abandoned"},
           procs' = [procs EXCEPT ![Len(procs)].fate = f], tool' = tool
    PROVE  /\ DOMAIN procs' = DOMAIN procs /\ Len(procs') = Len(procs)
           /\ Len(procs) \in DOMAIN procs
           /\ \A i \in DOMAIN procs : i # Len(procs) => procs'[i] = procs[i] /\ procs[i].fate # "awaited"
           /\ procs'[Len(procs)].fate = f
           /\ procs'[Len(procs)].state = Last.state
           /\ procs'[Len(procs)].command = command
           /\ procs'[Len(procs)].attempt = attempt
           /\ procs' \in Seq(Process(tool'))
  <1>1. procs \in Seq(Process(tool)) /\ procs # <<>>
    BY DEF TypeOK, Awaited, Process
  <1>2. Len(procs) \in DOMAIN procs /\ Len(procs) \in Nat \ {0} /\ procs[Len(procs)] \in Process(tool)
    BY <1>1
  <1> DEFINE q == [Last EXCEPT !.fate = f]
  <1>3. q \in Process(tool) /\ q.fate = f /\ q.state = Last.state /\ q.command = command /\ q.attempt = attempt
    <2>1. Last \in Process(tool) /\ Last.command = command /\ Last.attempt = attempt
      BY <1>2 DEF Last, Awaited
    <2> QED BY <2>1 DEF Process
  <1>4. procs' = [procs EXCEPT ![Len(procs)] = q]
    BY <1>2 DEF Last
  <1> HIDE DEF q
  <1>5. procs' \in Seq(Process(tool)) /\ Len(procs') = Len(procs) /\ DOMAIN procs' = DOMAIN procs
    BY <1>1, <1>2, <1>3, <1>4
  <1>6. procs'[Len(procs)] = q
    BY <1>2, <1>4
  <1>7. \A i \in DOMAIN procs : i # Len(procs) => procs'[i] = procs[i] /\ procs[i].fate # "awaited"
    BY <1>4 DEF Awaited
  <1> QED BY <1>2, <1>3, <1>5, <1>6, <1>7

\* Who stops waiting for a command gives its process up, and the attempt fails.
LEMMA GiveUpInv ==
    ASSUME ProcInv, phase = "waiting", Abandon, NEW by \in {"tool", "router"}, EndAttempt(Failure(by)),
           UNCHANGED <<tool, attempt, command, clocks>>
    PROVE  ProcInv'
  <1> DEFINE r == Failure(by)
  <1>1. r \in [success : BOOLEAN, by : {"exit", "error", "tool", "router"}] /\ ~r.success
    BY DEF Failure, NoReport
  <1>2. \/ phase' = "reported" /\ report' = r /\ attempt = MaxToolRetries + 1
        \/ phase' = "sleeping" /\ report' = report /\ attempt <= MaxToolRetries
    BY <1>1, AttemptEnds DEF ProcInv
  <1>3. TypeOK /\ Awaited /\ AttemptsCount /\ Time /\ SuccessIsLast
    BY DEF ProcInv
  <1> HIDE DEF r
  <1>4. /\ DOMAIN procs' = DOMAIN procs /\ Len(procs') = Len(procs)
        /\ Len(procs) \in DOMAIN procs
        /\ \A i \in DOMAIN procs : i # Len(procs) => procs'[i] = procs[i] /\ procs[i].fate # "awaited"
        /\ procs'[Len(procs)].fate = "abandoned"
        /\ procs' \in Seq(Process(tool'))
    BY <1>3, Settled DEF Abandon
  <1>5. TypeOK'
    <2>1. report' \in [success : BOOLEAN, by : {"none", "exit", "error", "tool", "router"}]
      BY <1>1, <1>2, <1>3 DEF TypeOK
    <2> QED BY <1>2, <1>3, <1>4, <2>1 DEF TypeOK, clocks, Process
  <1>6. AttemptsCount'
    BY <1>1, <1>2, <1>3 DEF AttemptsCount
  <1>7. Awaited'
    <2>1. \A i \in DOMAIN procs' : procs'[i].fate # "awaited"
      BY <1>4
    <2>2. \A i \in DOMAIN procs' : procs'[i].fate = "read" => procs'[i].state # "running"
      BY <1>3, <1>4 DEF Awaited
    <2> QED BY <1>2, <2>1, <2>2 DEF Awaited
  <1>8. SuccessIsLast'
    BY <1>1, <1>2, <1>3, <1>4 DEF SuccessIsLast, AttemptsCount
  <1>9. Time'
    BY <1>2, <1>3, TimeKeeps DEF AttemptsCount
  <1> QED BY <1>5, <1>6, <1>7, <1>8, <1>9 DEF ProcInv

\* A new process is the last of the call and is awaited.
LEMMA SpawnInv == ASSUME ProcInv, Spawn PROVE ProcInv'
  <1> DEFINE p == [attempt |-> attempt, command |-> command, state |-> "running", fate |-> "awaited"]
  <1>1. TypeOK /\ Awaited /\ AttemptsCount /\ Time /\ SuccessIsLast
    BY DEF ProcInv
  <1>2. /\ phase = "spawning" /\ phase' = "waiting" /\ procs' = Append(procs, p) /\ wait' = 0
        /\ UNCHANGED <<tool, attempt, command, age, elapsed, report>>
    BY DEF Spawn
  <1>3. /\ p \in Process(tool) /\ p.attempt = attempt /\ p.command = command
        /\ p.state = "running" /\ p.fate = "awaited"
    <2>1. attempt \in 1..MaxToolRetries + 1 /\ command \in 1..tool.commands
      BY <1>1, <1>2, Numbers DEF AttemptsCount
    <2> QED BY <2>1 DEF Process
  <1> HIDE DEF p
  <1>4. /\ procs' \in Seq(Process(tool)) /\ Len(procs') = Len(procs) + 1
        /\ DOMAIN procs' = DOMAIN procs \cup {Len(procs')} /\ Len(procs') \notin DOMAIN procs
        /\ procs'[Len(procs')] = p
        /\ \A i \in DOMAIN procs : procs'[i] = procs[i]
    <2>1. procs \in Seq(Process(tool))
      BY <1>1 DEF TypeOK, Process
    <2> QED BY <1>2, <1>3, <2>1
  <1>5. TypeOK'
    <2>1. wait' \in 0..tool'.limit
      BY <1>1, <1>2, Numbers
    <2> QED BY <1>1, <1>2, <1>4, <2>1 DEF TypeOK, Process
  <1>6. AttemptsCount'
    BY <1>1, <1>2 DEF AttemptsCount
  <1>7. Awaited'
    <2>1. procs' # <<>> /\ Last' = p
      <3>1. procs' # <<>>
        BY <1>2
      <3>2. Last' = procs'[Len(procs')]
        BY DEF Last
      <3> QED BY <1>4, <3>1, <3>2
    <2>2. \A i \in DOMAIN procs' : procs'[i].fate = "awaited" => i = Len(procs')
      BY <1>1, <1>2, <1>4 DEF Awaited
    <2>3. \A i \in DOMAIN procs' : procs'[i].fate = "read" => procs'[i].state # "running"
      BY <1>1, <1>3, <1>4 DEF Awaited
    <2> QED BY <1>2, <1>3, <2>1, <2>2, <2>3 DEF Awaited
  <1>8. SuccessIsLast'
    BY <1>1, <1>2, <1>3, <1>4 DEF SuccessIsLast, AttemptsCount
  <1>9. Time'
    <2>1. Slots' = Slots
      BY <1>2 DEF Slots
    <2>2. attempt > 0 /\ elapsed <= Slots * tool.limit + 0
      <3>1. Slots \in Nat
        <4>1. attempt - 1 \in Nat /\ command - 1 \in Nat
          BY <1>1, <1>2, Numbers DEF AttemptsCount
        <4>2. (attempt - 1) * tool.commands \in Nat
          BY <1>1, <4>1, Numbers, ProductType
        <4> QED BY <4>1, <4>2 DEF Slots
      <3>2. Slots * tool.limit \in Nat
        BY <1>1, <3>1, Numbers, ProductType
      <3> QED BY <1>1, <1>2, <3>2 DEF Time, AttemptsCount
    <2> QED BY <1>1, <1>2, <2>1, <2>2, Numbers DEF Time
  <1> QED BY <1>5, <1>6, <1>7, <1>8, <1>9 DEF ProcInv

\* Nothing but the end of an attempt.
LEMMA SpawnFailsInv == ASSUME ProcInv, SpawnFails PROVE ProcInv'
  <1> DEFINE r == Failure("error")
  <1>1. r \in [success : BOOLEAN, by : {"exit", "error", "tool", "router"}] /\ ~r.success
    BY DEF Failure, NoReport
  <1>2. TypeOK /\ Awaited /\ AttemptsCount /\ Time /\ SuccessIsLast
    BY DEF ProcInv
  <1>3. phase = "spawning" /\ EndAttempt(r) /\ UNCHANGED <<tool, attempt, command, clocks, procs>>
    BY DEF SpawnFails
  <1>4. \/ phase' = "reported" /\ report' = r /\ attempt = MaxToolRetries + 1
        \/ phase' = "sleeping" /\ report' = report /\ attempt <= MaxToolRetries
    BY <1>1, <1>2, <1>3, AttemptEnds
  <1> HIDE DEF r
  <1>5. TypeOK'
    BY <1>1, <1>2, <1>3, <1>4 DEF TypeOK, clocks
  <1>6. AttemptsCount'
    BY <1>1, <1>2, <1>3, <1>4 DEF AttemptsCount
  <1>7. Awaited'
    BY <1>2, <1>3, <1>4 DEF Awaited
  <1>8. SuccessIsLast'
    BY <1>1, <1>2, <1>3, <1>4 DEF SuccessIsLast, AttemptsCount
  <1>9. Time'
    BY <1>2, <1>3, <1>4, TimeKeeps DEF AttemptsCount
  <1> QED BY <1>5, <1>6, <1>7, <1>8, <1>9 DEF ProcInv

\* What was read has ended before, so that an exit concerns no success.
LEMMA ExitInv ==
    ASSUME ProcInv, NEW i \in DOMAIN procs, NEW s \in {"ok", "failed"}, Exit(i, s) PROVE ProcInv'
  <1> DEFINE q == [procs[i] EXCEPT !.state = s]
  <1>1. TypeOK /\ Awaited /\ AttemptsCount /\ Time /\ SuccessIsLast
    BY DEF ProcInv
  <1>2. /\ procs[i].state = "running" /\ procs' = [procs EXCEPT ![i] = q]
        /\ UNCHANGED <<tool, phase, attempt, command, clocks, report>>
    BY DEF Exit
  <1>3. procs \in Seq(Process(tool)) /\ procs[i] \in Process(tool)
    <2>1. procs \in Seq(Process(tool))
      BY <1>1 DEF TypeOK, Process
    <2> QED BY <2>1
  <1>4. /\ q \in Process(tool) /\ q.fate = procs[i].fate /\ q.attempt = procs[i].attempt
        /\ q.command = procs[i].command
    BY <1>3 DEF Process
  <1> HIDE DEF q
  <1>5. /\ procs' \in Seq(Process(tool)) /\ DOMAIN procs' = DOMAIN procs /\ Len(procs') = Len(procs)
        /\ procs'[i] = q
        /\ \A j \in DOMAIN procs : j # i => procs'[j] = procs[j]
    BY <1>2, <1>3, <1>4
  <1>6. procs[i].fate # "read"
    BY <1>1, <1>2 DEF Awaited
  <1>7. \A j \in DOMAIN procs' : procs'[j].fate = procs[j].fate /\ procs'[j].attempt = procs[j].attempt
          /\ procs'[j].command = procs[j].command
    BY <1>3, <1>4, <1>5
  <1>8. \A j \in DOMAIN procs' : procs[j].fate = "read" => procs'[j] = procs[j]
    BY <1>5, <1>6
  <1>9. procs # <<>> /\ procs' # <<>> /\ Len(procs) \in DOMAIN procs'
    BY <1>3, <1>5
  <1>10. TypeOK'
    BY <1>1, <1>2, <1>5 DEF TypeOK, clocks, Process
  <1>11. AttemptsCount'
    BY <1>1, <1>2 DEF AttemptsCount
  <1>12. Last' = procs'[Len(procs)] /\ Last = procs[Len(procs)]
    BY <1>5 DEF Last
  <1>13. Awaited'
    <2>1. Last'.fate = Last.fate /\ Last'.attempt = Last.attempt /\ Last'.command = Last.command
      BY <1>7, <1>12, <1>9
    <2>2. \A j \in DOMAIN procs' : procs'[j].fate = "awaited" => j = Len(procs') /\ phase' = "waiting"
      BY <1>1, <1>2, <1>5, <1>7 DEF Awaited
    <2>3. \A j \in DOMAIN procs' : procs'[j].fate = "read" => procs'[j].state # "running"
      BY <1>1, <1>5, <1>7, <1>8 DEF Awaited
    <2> QED BY <1>1, <1>2, <1>9, <2>1, <2>2, <2>3 DEF Awaited
  <1>14. SuccessIsLast'
    <2>1. \A j \in DOMAIN procs' : procs'[j].fate = "read" => procs'[j] = procs[j]
      BY <1>7, <1>8
    <2>2. Last.fate = "read" => Last' = Last
      BY <1>12, <1>8, <1>9
    <2> QED BY <1>1, <1>2, <1>5, <2>1, <2>2 DEF SuccessIsLast
  <1>15. Time'
    BY <1>1, <1>2 DEF Time, clocks, Slots
  <1> QED BY <1>10, <1>11, <1>13, <1>14, <1>15 DEF ProcInv

\* The output of a command is taken.  After the last command it is the report.
LEMMA ReadInv == ASSUME ProcInv, Read PROVE ProcInv'
  <1> DEFINE r == [success |-> Last.state = "ok", by |-> "exit"]
  <1>1. TypeOK /\ Awaited /\ AttemptsCount /\ Time /\ SuccessIsLast
    BY DEF ProcInv
  <1>2. /\ phase = "waiting" /\ Last.state # "running"
        /\ procs' = [procs EXCEPT ![Len(procs)].fate = "read"]
        /\ UNCHANGED <<tool, attempt, clocks>>
    BY DEF Read, Ended
  <1>3. /\ DOMAIN procs' = DOMAIN procs /\ Len(procs') = Len(procs)
        /\ Len(procs) \in DOMAIN procs
        /\ \A i \in DOMAIN procs : i # Len(procs) => procs'[i] = procs[i] /\ procs[i].fate # "awaited"
        /\ procs'[Len(procs)].fate = "read"
        /\ procs'[Len(procs)].state = Last.state
        /\ procs'[Len(procs)].command = command
        /\ procs'[Len(procs)].attempt = attempt
        /\ procs' \in Seq(Process(tool'))
    BY <1>1, <1>2, Settled
  <1>4. /\ \A i \in DOMAIN procs' : procs'[i].fate # "awaited"
        /\ \A i \in DOMAIN procs' : procs'[i].fate = "read" => procs'[i].state # "running"
    BY <1>1, <1>2, <1>3 DEF Awaited
  <1>5. \A i \in DOMAIN procs' :
          procs'[i].fate = "read" /\ procs'[i].state = "ok" /\ procs'[i].command = tool.commands
            => i = Len(procs') /\ command = tool.commands /\ Last.state = "ok"
    BY <1>1, <1>2, <1>3 DEF SuccessIsLast
  <1>6. ~report.success
    BY <1>1, <1>2 DEF AttemptsCount
  <1>7. CASE command < tool.commands
    <2>1. phase' = "spawning" /\ command' = command + 1 /\ report' = report
      BY <1>7 DEF Read
    <2>2. TypeOK'
      <3>1. command' \in 1..tool'.commands
        BY <1>1, <1>2, <1>7, <2>1, Numbers
      <3> QED BY <1>1, <1>2, <1>3, <2>1, <3>1 DEF TypeOK, clocks, Process
    <2>3. AttemptsCount'
      BY <1>1, <1>2, <1>6, <2>1 DEF AttemptsCount
    <2>4. Awaited'
      BY <1>4, <2>1 DEF Awaited
    <2>5. SuccessIsLast'
      <3>1. command # tool.commands
        BY <1>1, <1>7, Numbers
      <3> QED BY <1>2, <1>5, <1>6, <2>1, <3>1 DEF SuccessIsLast
    <2>6. Time'
      <3>1. Slots \in Nat /\ Slots' = Slots + 1
        <4>1. attempt - 1 \in Nat /\ command - 1 \in Nat
          BY <1>1, <1>2, Numbers DEF AttemptsCount
        <4>2. (attempt - 1) * tool.commands \in Nat
          BY <1>1, <4>1, Numbers, ProductType
        <4>3. (command + 1) - 1 = (command - 1) + 1 /\ tool' = tool /\ attempt' = attempt
          BY <1>1, <1>2, Numbers
        <4> QED BY <2>1, <4>1, <4>2, <4>3 DEF Slots
      <3>2. (Slots + 1) * tool.limit = Slots * tool.limit + tool.limit /\ (Slots + 1) * tool.limit \in Nat
        BY <1>1, <3>1, Numbers, OneMore, ProductType
      <3>3. attempt > 0 /\ elapsed <= Slots * tool.limit + tool.limit
            /\ elapsed <= (attempt - 1) * RouterLimit + age
        BY <1>1, <1>2 DEF Time, AttemptsCount
      <3>4. elapsed' <= Slots' * tool'.limit
        BY <1>2, <3>1, <3>2, <3>3 DEF clocks
      <3>5. elapsed' <= Slots' * tool'.limit + tool'.limit
        BY <1>1, <1>2, <3>1, <3>2, <3>4, Numbers, SMTT(30) DEF clocks
      <3> QED BY <1>1, <1>2, <2>1, <3>3, <3>4, <3>5, Numbers DEF Time, clocks
    <2> QED BY <2>2, <2>3, <2>4, <2>5, <2>6 DEF ProcInv
  <1>8. CASE ~(command < tool.commands)
    <2>1. EndAttempt(r) /\ command' = command
      BY <1>8 DEF Read
    <2>2. r \in [success : BOOLEAN, by : {"exit", "error", "tool", "router"}] /\ (r.success <=> Last.state = "ok")
      OBVIOUS
    <2> HIDE DEF r
    <2>3. \/ phase' = "reported" /\ report' = r /\ (~r.success => attempt = MaxToolRetries + 1)
          \/ phase' = "sleeping" /\ report' = report /\ ~r.success /\ attempt <= MaxToolRetries
      BY <1>1, <1>2, <2>1, <2>2, AttemptEnds
    <2>4. TypeOK'
      <3>1. report' \in [success : BOOLEAN, by : {"none", "exit", "error", "tool", "router"}]
        BY <1>1, <2>2, <2>3 DEF TypeOK
      <3> QED BY <1>1, <1>2, <1>3, <2>1, <2>3, <3>1 DEF TypeOK, clocks, Process
    <2>5. AttemptsCount'
      BY <1>1, <1>2, <1>6, <2>3 DEF AttemptsCount
    <2>6. Awaited'
      BY <1>4, <2>3 DEF Awaited
    <2>7. SuccessIsLast'
      <3>1. Last' = procs'[Len(procs)]
        BY <1>3 DEF Last
      <3>2. CASE Last.state = "ok"
        <4>1. phase' = "reported" /\ report'.success
          BY <2>2, <2>3, <3>2
        <4> QED BY <1>2, <1>3, <1>5, <3>1, <3>2, <4>1 DEF SuccessIsLast
      <3>3. CASE Last.state # "ok"
        <4>1. ~report'.success /\ (phase' = "reported" => attempt = MaxToolRetries + 1)
          BY <1>6, <2>2, <2>3, <3>3
        <4> QED BY <1>2, <1>5, <3>3, <4>1 DEF SuccessIsLast
      <3> QED BY <3>2, <3>3
    <2>8. Time'
      <3>1. UNCHANGED <<tool, attempt, command, clocks>> /\ phase' \notin {"new", "spawning", "waiting"} /\ attempt # 0
        BY <1>1, <1>2, <2>1, <2>3, Numbers DEF AttemptsCount
      <3> QED BY <1>1, <3>1, TimeKeeps
    <2> QED BY <2>4, <2>5, <2>6, <2>7, <2>8 DEF ProcInv
  <1> QED BY <1>7, <1>8

\* A call that is cancelled gives up the process it waits for.
LEMMA CancelInv == ASSUME ProcInv, Cancel PROVE ProcInv'
  <1>1. TypeOK /\ Awaited /\ AttemptsCount /\ Time /\ SuccessIsLast
    BY DEF ProcInv
  <1>2. /\ phase \notin {"reported", "cancelled"} /\ phase' = "cancelled"
        /\ UNCHANGED <<tool, attempt, command, clocks, report>>
    BY DEF Cancel, Over
  <1>3. ~report.success
    BY <1>1, <1>2 DEF AttemptsCount
  <1>4. /\ DOMAIN procs' = DOMAIN procs /\ Len(procs') = Len(procs)
        /\ procs' \in Seq(Process(tool'))
        /\ \A i \in DOMAIN procs' : procs'[i].fate # "awaited"
        /\ \A i \in DOMAIN procs' : procs'[i].fate = "read" => procs'[i] = procs[i]
    <2>1. CASE phase = "waiting"
      <3>1. procs' = [procs EXCEPT ![Len(procs)].fate = "abandoned"]
        BY <2>1 DEF Cancel, Abandon
      <3>2. /\ DOMAIN procs' = DOMAIN procs /\ Len(procs') = Len(procs)
            /\ \A i \in DOMAIN procs : i # Len(procs) => procs'[i] = procs[i] /\ procs[i].fate # "awaited"
            /\ procs'[Len(procs)].fate = "abandoned"
            /\ procs' \in Seq(Process(tool'))
        BY <1>1, <1>2, <2>1, <3>1, Settled
      <3> QED BY <3>2
    <2>2. CASE phase # "waiting"
      <3>1. procs' = procs /\ tool' = tool
        BY <1>2, <2>2 DEF Cancel
      <3>2. procs \in Seq(Process(tool))
        BY <1>1 DEF TypeOK, Process
      <3> QED BY <1>1, <2>2, <3>1, <3>2 DEF Awaited
    <2> QED BY <2>1, <2>2
  <1>5. TypeOK'
    BY <1>1, <1>2, <1>4 DEF TypeOK, clocks, Process
  <1>6. AttemptsCount'
    BY <1>2, <1>3 DEF AttemptsCount
  <1>7. Awaited'
    <2>1. \A i \in DOMAIN procs' : procs'[i].fate # "awaited"
      BY <1>4
    <2>2. \A i \in DOMAIN procs' : procs'[i].fate = "read" => procs'[i].state # "running"
      BY <1>1, <1>4 DEF Awaited
    <2> QED BY <1>2, <2>1, <2>2 DEF Awaited
  <1>8. SuccessIsLast'
    BY <1>1, <1>2, <1>3, <1>4 DEF SuccessIsLast
  <1>9. Time'
    BY <1>1, <1>2, TimeKeeps
  <1> QED BY <1>5, <1>6, <1>7, <1>8, <1>9 DEF ProcInv

\* All three clocks move on, and neither timer is due.
LEMMA TickInv == ASSUME ProcInv, Tick PROVE ProcInv'
  <1>1. TypeOK /\ Awaited /\ AttemptsCount /\ Time /\ SuccessIsLast
    BY DEF ProcInv
  <1>2. /\ phase = "waiting" /\ wait < tool.limit /\ age < RouterLimit
        /\ age' = age + 1 /\ wait' = wait + 1 /\ elapsed' = elapsed + 1
        /\ UNCHANGED <<tool, phase, attempt, command, procs, report>>
    BY <1>1, Numbers DEF Tick, ToolDue, RouterDue
  <1>3. TypeOK'
    <2>1. age' \in 0..RouterLimit /\ wait' \in 0..tool'.limit /\ elapsed' \in Nat
      BY <1>1, <1>2, Numbers
    <2> QED BY <1>1, <1>2, <2>1 DEF TypeOK
  <1>4. AttemptsCount' /\ Awaited' /\ SuccessIsLast'
    BY <1>1, <1>2 DEF AttemptsCount, Awaited, SuccessIsLast, Last
  <1>5. Time'
    <2>1. attempt > 0 /\ Slots' = Slots /\ tool'.limit = tool.limit
      BY <1>1, <1>2 DEF AttemptsCount, Slots
    <2>2. Slots \in Nat /\ attempt - 1 \in Nat
      <3>1. attempt - 1 \in Nat /\ command - 1 \in Nat
        BY <1>1, <2>1, Numbers
      <3>2. (attempt - 1) * tool.commands \in Nat
        BY <1>1, <3>1, Numbers, ProductType
      <3> QED BY <3>1, <3>2 DEF Slots
    <2>3. Slots * tool.limit \in Nat /\ (attempt - 1) * RouterLimit \in Nat
      BY <1>1, <2>2, Numbers, ProductType
    <2>4. elapsed <= Slots * tool.limit + wait /\ elapsed <= (attempt - 1) * RouterLimit + age
      BY <1>1, <1>2, <2>1 DEF Time
    <2>5. elapsed' <= Slots * tool.limit + wait' /\ elapsed' <= (attempt - 1) * RouterLimit + age'
      BY <1>1, <1>2, <2>3, <2>4, Numbers
    <2>6. elapsed' <= Slots * tool.limit + tool.limit
      BY <1>1, <1>2, <2>3, <2>5, Numbers
    <2> QED BY <1>2, <2>1, <2>5, <2>6 DEF Time
  <1> QED BY <1>3, <1>4, <1>5 DEF ProcInv

LEMMA Invariance == Spec => []ProcInv
  <1>1. ProcInv /\ [Next]_vars => ProcInv'
    <2> SUFFICES ASSUME ProcInv, [Next]_vars PROVE ProcInv'
      OBVIOUS
    <2>1. CASE Dispatch
      BY <2>1, DispatchInv
    <2>2. CASE Spawn
      BY <2>2, SpawnInv
    <2>3. CASE SpawnFails
      BY <2>3, SpawnFailsInv
    <2>4. CASE Read
      BY <2>4, ReadInv
    <2>5. CASE ToolTimesOut
      BY <2>5, GiveUpInv DEF ToolTimesOut
    <2>6. CASE RouterTimesOut
      BY <2>6, GiveUpInv DEF RouterTimesOut
    <2>7. CASE Tick
      BY <2>7, TickInv
    <2>8. CASE Cancel
      BY <2>8, CancelInv
    <2>9. ASSUME NEW i \in DOMAIN procs, NEW s \in {"ok", "failed"}, Exit(i, s) PROVE ProcInv'
      BY <2>9, ExitInv
    <2>10. CASE UNCHANGED vars
      BY <2>10 DEF vars, clocks, ProcInv, TypeOK, AttemptsCount, Awaited, SuccessIsLast, Time, Slots, Last
    <2> QED BY <2>1, <2>2, <2>3, <2>4, <2>5, <2>6, <2>7, <2>8, <2>9, <2>10 DEF Next, Call
  <1> QED BY InitInv, <1>1, PTL DEF Spec

-----------------------------------------------------------------------------
(***************************************************************************)
(* Theorems                                                                *)
(***************************************************************************)

\* The values of the locals of _dispatch_with_retry, dispatch and run.
THEOREM TypeCorrect == Spec => []TypeOK
  <1>1. ProcInv => TypeOK
    BY DEF ProcInv
  <1> QED BY Invariance, <1>1, PTL

\* A command that was seen to succeed is the last of its call, whatever the limits and
\* the number of retries (_dispatch_with_retry).
THEOREM SuccessTheorem == Spec => []SuccessIsLast
  <1>1. ProcInv => SuccessIsLast
    BY DEF ProcInv
  <1> QED BY Invariance, <1>1, PTL

\* Of two processes that run at once the earlier was given up by a timer (the waits of
\* BashTool.run, GitTool._run_git and CodeExecutor.run).
THEOREM OverlapTheorem == Spec => []OverlapOnlyAfterTimer
  <1>1. ProcInv => OverlapOnlyAfterTimer
    <2> SUFFICES ASSUME ProcInv, NEW i \in DOMAIN procs, NEW j \in DOMAIN procs,
                        i < j, procs[i].state = "running"
                 PROVE  procs[i].fate = "abandoned"
      BY DEF OverlapOnlyAfterTimer
    <2>1. procs \in Seq(Process(tool))
      BY DEF ProcInv, TypeOK, Process
    <2>2. procs[i] \in Process(tool) /\ i # Len(procs)
      BY <2>1
    <2>3. procs[i].fate \notin {"awaited", "read"}
      BY <2>2 DEF ProcInv, Awaited
    <2> QED BY <2>2, <2>3 DEF Process
  <1> QED BY Invariance, <1>1, PTL

\* However its commands behave, a call waits no longer than its attempts may, by the
\* limit of the router and by its own (the timers of dispatch and of the tools).
THEOREM TimeTheorem == Spec => []TimeBounded
  <1>1. ProcInv => TimeBounded
    <2> SUFFICES ASSUME ProcInv PROVE TimeBounded
      OBVIOUS
    <2>1. TypeOK /\ Time
      BY DEF ProcInv
    <2>2. MaxToolRetries + 1 \in Nat
      BY <2>1, Numbers
    <2>3. CASE attempt = 0
      <3>1. (MaxToolRetries + 1) * tool.commands \in Nat
        BY <2>1, <2>2, Numbers, ProductType
      <3>2. (MaxToolRetries + 1) * RouterLimit \in Nat /\ (MaxToolRetries + 1) * tool.commands * tool.limit \in Nat
        BY <2>1, <2>2, <3>1, Numbers, ProductType
      <3>3. elapsed = 0
        BY <2>1, <2>3 DEF Time
      <3> QED BY <3>2, <3>3 DEF TimeBounded
    <2>4. CASE attempt > 0
      <3>1. elapsed <= attempt * RouterLimit /\ attempt * RouterLimit \in Nat
        <4>1. attempt - 1 \in Nat /\ (attempt - 1) + 1 = attempt
          BY <2>1, <2>4, Numbers
        <4>2. attempt * RouterLimit = (attempt - 1) * RouterLimit + RouterLimit
              /\ (attempt - 1) * RouterLimit \in Nat
          BY <2>1, <4>1, Numbers, OneMore, ProductType
        <4>3. elapsed <= (attempt - 1) * RouterLimit + age
          BY <2>1, <2>4 DEF Time
        <4> QED BY <2>1, <4>2, <4>3, Numbers
      <3>2. attempt * RouterLimit <= (MaxToolRetries + 1) * RouterLimit
            /\ (MaxToolRetries + 1) * RouterLimit \in Nat
        BY <2>1, <2>2, Numbers, Monotonic, ProductType
      <3>3. Slots + 1 \in Nat /\ Slots \in Nat /\ Slots + 1 <= attempt * tool.commands
            /\ attempt * tool.commands \in Nat
        BY <2>1, <2>4, Numbers DEF Slots
      <3>4. attempt * tool.commands <= (MaxToolRetries + 1) * tool.commands
            /\ (MaxToolRetries + 1) * tool.commands \in Nat
        BY <2>1, <2>2, Numbers, Monotonic, ProductType
      <3>5. Slots + 1 <= (MaxToolRetries + 1) * tool.commands
        BY <3>3, <3>4
      <3>6. (Slots + 1) * tool.limit <= (MaxToolRetries + 1) * tool.commands * tool.limit
            /\ (MaxToolRetries + 1) * tool.commands * tool.limit \in Nat
        BY <2>1, <3>3, <3>4, <3>5, Numbers, Monotonic, ProductType
      <3>7. elapsed <= (Slots + 1) * tool.limit /\ (Slots + 1) * tool.limit \in Nat
        <4>1. (Slots + 1) * tool.limit = Slots * tool.limit + tool.limit
          BY <2>1, <3>3, Numbers, OneMore
        <4>2. elapsed <= Slots * tool.limit + tool.limit
          BY <2>1, <2>4 DEF Time
        <4> QED BY <2>1, <3>3, <4>1, <4>2, Numbers, ProductType
      <3>8. elapsed \in Nat
        BY <2>1, Numbers
      <3>9. elapsed <= (MaxToolRetries + 1) * RouterLimit
        BY <3>1, <3>2, <3>8
      <3>10. elapsed <= (MaxToolRetries + 1) * tool.commands * tool.limit
        BY <3>6, <3>7, <3>8
      <3> QED BY <3>9, <3>10 DEF TimeBounded
    <2> QED BY <2>1, <2>3, <2>4, Numbers
  <1> QED BY Invariance, <1>1, PTL
=============================================================================
