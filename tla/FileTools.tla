------------------------------ MODULE FileTools ------------------------------
(***************************************************************************)
(* The tools that read and change files, called side by side on one file:  *)
(* edit_file, multi_edit, write_file and read_file of the coding registry, *)
(* file_ops of the plain one.  A tool runs from its first check to its     *)
(* return without an await, so that it holds the event loop meanwhile; the *)
(* sleeps before its retries are where its siblings run.  Other processes  *)
(* (a command of bash, the editor of the user) change the file when they   *)
(* like.  Path.write_text truncates the file, then writes: it may fail in  *)
(* between (no space, a text that is not encodable), and the program may   *)
(* end there.  The file is opened in text mode: what is read has \n for    *)
(* every end of a line, and every \n is written as the end of a line of    *)
(* the system.                                                             *)
(***************************************************************************)
EXTENDS Naturals, SequencesExt

CONSTANTS
    Calls,           \* the calls of one response
    Coding,          \* requests of the coding tools that a call may make
    Plain,           \* requests of file_ops that a call may make
    Texts,           \* what other processes leave in the file
    Missing,         \* there is no file
    Folder,          \* there is a directory of that name
    Refused,         \* a change that is not made
    Process,         \* any other process
    NoCall,          \* nobody: the event loop is free
    LF, CR,          \* \n and \r
    LineSep,         \* os.linesep
    MaxToolRetries,  \* MAX_TOOL_RETRIES
    MaxWrite,        \* MAX_WRITE_BYTES
    MaxChanges,      \* bound: changes by other processes
    MaxFaults        \* bound: failures of the file system

Edit  == [old : Seq(Nat), new : Seq(Nat)]
Tools == {"edit_file", "multi_edit", "write_file", "read_file", "write", "delete", "read"}
Request == [tool : Tools, edits : Seq(Edit), text : Seq(Nat)]

ASSUME FileToolsAssumption ==
    /\ Coding \cup Plain \subseteq Request
    /\ \A r \in Coding : /\ r.tool \in {"edit_file", "multi_edit", "write_file", "read_file"}
                        /\ r.tool = "edit_file" => Len(r.edits) = 1
    /\ \A r \in Plain : r.tool \in {"write", "delete", "read"}
    /\ Texts \subseteq Seq(Nat) \cup {Missing, Folder}
    /\ {Missing, Folder, Refused} \cap Seq(Nat) = {}
    /\ Missing # Folder /\ Refused \notin {Missing, Folder}
    /\ Process \notin Calls /\ NoCall \notin Calls
    /\ LF \in Nat /\ CR \in Nat /\ LF # CR
    /\ LineSep \in {<<LF>>, <<CR, LF>>}
    /\ MaxToolRetries \in Nat /\ MaxWrite \in Nat
    /\ MaxChanges \in Nat /\ MaxFaults \in Nat

VARIABLES
    disk,     \* the file: its characters, Missing or Folder
    request,  \* what each call asks for
    state,    \* of each call: new, opening, writing, sleeping, succeeded, failed or cancelled
    tries,    \* attempts of each call
    base,     \* what each call read from the file in its last attempt
    text,     \* what it is about to write, as it will be in the file
    answer,   \* what a read returned
    loop,     \* the call that holds the event loop, or NoCall
    alive,    \* the program runs
    changes,  \* changes by other processes so far
    faults,   \* failures so far
    log       \* every change of the file: by whom, from what, to what, whether whole

call   == <<state, tries, base, text, answer>>
bounds == <<changes, faults>>
vars   == <<disk, request, call, loop, alive, bounds, log>>

Init ==
    /\ disk \in Texts
    /\ request \in [Calls -> Coding] \cup [Calls -> Plain]
    /\ state = [c \in Calls |-> "new"]
    /\ tries = [c \in Calls |-> 0]
    /\ base = [c \in Calls |-> <<>>]
    /\ text = [c \in Calls |-> <<>>]
    /\ answer = [c \in Calls |-> <<>>]
    /\ loop = NoCall
    /\ alive = TRUE
    /\ changes = 0 /\ faults = 0
    /\ log = <<[by |-> Process, base |-> disk, text |-> disk, whole |-> TRUE]>>

-----------------------------------------------------------------------------
(***************************************************************************)
(* Files in text mode                                                      *)
(***************************************************************************)

\* read_text: \r\n and \r become \n.
ReadText(t) ==
    FlattenSeq([n \in 1..Len(t) |-> IF n > 1 /\ t[n] = LF /\ t[n - 1] = CR THEN <<>>
                                    ELSE <<IF t[n] = CR THEN LF ELSE t[n]>>])

\* write_text: \n becomes the end of a line of the system.
WriteText(t) == FlattenSeq([n \in 1..Len(t) |-> IF t[n] = LF THEN LineSep ELSE <<t[n]>>])

-----------------------------------------------------------------------------
(***************************************************************************)
(* Search and replace                                                      *)
(***************************************************************************)

\* Where old stands in t, as numbers of characters before it.
Places(t, old) ==
    {i \in 0..Len(t) : i + Len(old) <= Len(t) /\ SubSeq(t, i + 1, i + Len(old)) = old}

First(t, old) == CHOOSE i \in Places(t, old) : \A j \in Places(t, old) : i <= j

\* An edit of a text that is not unique changes the first place.
CountsAny(t, old) == Places(t, old) # {}
\* str.count(old) = 1.  count goes from left to right and behind a place it found
\* skips those that overlap it; the empty string stands at all Len(t) + 1.
CountsOne(t, old) ==
    /\ Places(t, old) # {}
    /\ \A i \in Places(t, old) : i # First(t, old) => i < First(t, old) + Len(old)

Splice(t, i, e) == SubSeq(t, 1, i) \o e.new \o SubSeq(t, i + Len(e.old) + 1, Len(t))

\* count and replace(old_str, new_str, 1).
Replaced(t, e) == IF CountsOne(t, e.old) THEN Splice(t, First(t, e.old), e) ELSE Refused

\* Edits that do not apply are skipped.
ReplacedSome(t, edits) ==
    LET Upto[n \in 0..Len(edits)] ==
          IF n = 0 THEN t
          ELSE IF Replaced(Upto[n - 1], edits[n]) = Refused THEN Upto[n - 1]
          ELSE Replaced(Upto[n - 1], edits[n])
    IN Upto[Len(edits)]
\* One edit after the other; the first that does not apply ends them all.
ReplacedAll(t, edits) ==
    LET Upto[n \in 0..Len(edits)] ==
          IF n = 0 THEN t
          ELSE IF Upto[n - 1] = Refused THEN Refused
          ELSE Replaced(Upto[n - 1], edits[n])
    IN Upto[Len(edits)]

-----------------------------------------------------------------------------
(***************************************************************************)
(* What the file is to become, if a request is carried out on d            *)
(***************************************************************************)

NoFile(d) == d \in {Missing, Folder}

EditFile(r, d)  == IF NoFile(d) THEN Refused ELSE Replaced(ReadText(d), r.edits[1])
MultiEdit(r, d) == IF NoFile(d) THEN Refused ELSE ReplacedAll(ReadText(d), r.edits)
\* write_file and the write of file_ops; a directory is met when it is opened.
Write(r)  == IF Len(r.text) > MaxWrite THEN Refused ELSE r.text
Delete(d) == IF d = Missing THEN Refused ELSE Missing

Reads == {"read_file", "read"}

Written(u) == IF u = Refused THEN Refused ELSE WriteText(u)

Change(r, d) ==
    CASE r.tool = "edit_file" -> Written(EditFile(r, d))
      [] r.tool = "multi_edit" -> Written(MultiEdit(r, d))
      [] r.tool \in {"write_file", "write"} -> Written(Write(r))
      [] r.tool = "delete" -> Delete(d)
      [] r.tool \in Reads -> IF NoFile(d) THEN Refused ELSE ReadText(d)

-----------------------------------------------------------------------------
(***************************************************************************)
(* A call                                                                  *)
(***************************************************************************)

\* A tool awaits while it reads and writes.
LetAll == TRUE
\* No tool is between its check and its return.
LoopFree == loop = NoCall

\* Also what succeeded is run again.
ReturnAnyway(c, n, ok) ==
    /\ state' = [state EXCEPT ![c] = IF n <= MaxToolRetries THEN "sleeping"
                                     ELSE IF ok THEN "succeeded" ELSE "failed"]
    /\ loop' = NoCall
\* The attempt number n returns; _dispatch_with_retry repeats a failure.
Return(c, n, ok) ==
    /\ state' = [state EXCEPT ![c] = IF ok THEN "succeeded"
                                     ELSE IF n <= MaxToolRetries THEN "sleeping" ELSE "failed"]
    /\ loop' = NoCall

Log(c, t, whole) ==
    log' = Append(log, [by |-> c, base |-> base[c], text |-> t, whole |-> whole])

\* dispatch calls run, which looks at the file and computes the change.
Begin(c) ==
    /\ alive
    /\ LoopFree
    /\ state[c] \in {"new", "sleeping"}
    /\ tries' = [tries EXCEPT ![c] = @ + 1]
    /\ base' = [base EXCEPT ![c] = disk]
    /\ LET new == Change(request[c], disk) IN
       \/ /\ new = Refused
          /\ Return(c, tries[c] + 1, FALSE)
          /\ UNCHANGED <<text, answer>>
       \/ /\ new # Refused /\ request[c].tool \in Reads
          /\ Return(c, tries[c] + 1, TRUE)
          /\ answer' = [answer EXCEPT ![c] = new]
          /\ UNCHANGED text
       \/ /\ new # Refused /\ request[c].tool \notin Reads
          /\ state' = [state EXCEPT ![c] = "opening"]
          /\ text' = [text EXCEPT ![c] = new]
          /\ loop' = c
          /\ UNCHANGED answer
    /\ UNCHANGED <<disk, request, alive, bounds, log>>

\* open(path, "w") truncates the file, or makes one with its directories.
Open(c) ==
    /\ alive
    /\ state[c] = "opening" /\ text[c] # Missing /\ disk # Folder
    /\ state' = [state EXCEPT ![c] = "writing"]
    /\ disk' = <<>>
    /\ UNCHANGED <<request, tries, base, text, answer, loop, alive, bounds, log>>

\* write() and close().
Fill(c) ==
    /\ alive
    /\ state[c] = "writing"
    /\ disk' = text[c]
    /\ Log(c, text[c], TRUE)
    /\ Return(c, tries[c], TRUE)
    /\ UNCHANGED <<request, tries, base, text, answer, alive, bounds>>

\* unlink, or rmtree.
Unlink(c) ==
    /\ alive
    /\ state[c] = "opening" /\ text[c] = Missing /\ disk # Missing
    /\ disk' = Missing
    /\ Log(c, Missing, TRUE)
    /\ Return(c, tries[c], TRUE)
    /\ UNCHANGED <<request, tries, base, text, answer, alive, bounds>>

\* Somebody else has removed it since exists(): it is neither a file nor a
\* directory, nothing is done, and the tool reports success.
NothingToUnlink(c) ==
    /\ alive
    /\ state[c] = "opening" /\ text[c] = Missing /\ disk = Missing
    /\ Return(c, tries[c], TRUE)
    /\ UNCHANGED <<disk, request, tries, base, text, answer, alive, bounds, log>>

\* open or unlink raises: it is a directory, it is gone, it is not allowed.
CannotOpen(c) ==
    /\ alive
    /\ state[c] = "opening"
    /\ \/ disk = (IF text[c] = Missing THEN Missing ELSE Folder) /\ UNCHANGED faults
       \/ faults < MaxFaults /\ faults' = faults + 1
    /\ Return(c, tries[c], FALSE)
    /\ UNCHANGED <<disk, request, tries, base, text, answer, alive, changes, log>>

\* The file ends up with the first n characters.
Tear(c, n) ==
    /\ disk' = SubSeq(text[c], 1, n)
    /\ Log(c, SubSeq(text[c], 1, n), FALSE)

\* write() or close() raises.
CannotFill(c) ==
    /\ alive
    /\ state[c] = "writing"
    /\ faults < MaxFaults /\ faults' = faults + 1
    /\ \E n \in 0..Len(text[c]) : Tear(c, n)
    /\ Return(c, tries[c], FALSE)
    /\ UNCHANGED <<request, tries, base, text, answer, alive, changes>>

\* The turn or the task is cancelled while the call waits for its next attempt.
Cancel(c) ==
    /\ alive
    /\ LoopFree
    /\ state[c] \in {"new", "sleeping"}
    /\ state' = [state EXCEPT ![c] = "cancelled"]
    /\ UNCHANGED <<disk, request, tries, base, text, answer, loop, alive, bounds, log>>

-----------------------------------------------------------------------------
\* The program ends, whatever it is doing.
Exit ==
    /\ alive
    /\ alive' = FALSE
    /\ \/ /\ \A c \in Calls : state[c] # "writing"
          /\ UNCHANGED <<disk, log>>
       \/ \E c \in Calls :
            /\ state[c] = "writing"
            /\ \E n \in 0..Len(text[c]) : Tear(c, n)
    /\ UNCHANGED <<request, call, loop, bounds>>

\* Another process changes the file (but not in the instant between the two
\* halves of a write).
Outside(d) ==
    /\ alive
    /\ changes < MaxChanges
    /\ d # disk
    /\ \A c \in Calls : state[c] # "writing"
    /\ disk' = d
    /\ changes' = changes + 1
    /\ log' = Append(log, [by |-> Process, base |-> disk, text |-> d, whole |-> TRUE])
    /\ UNCHANGED <<request, call, loop, alive, faults>>

Next ==
    \/ \E c \in Calls :
         \/ Begin(c) \/ Open(c) \/ Fill(c) \/ Unlink(c) \/ NothingToUnlink(c)
         \/ CannotOpen(c) \/ CannotFill(c) \/ Cancel(c)
    \/ Exit
    \/ \E d \in Texts : Outside(d)

Spec == Init /\ [][Next]_vars

-----------------------------------------------------------------------------
(***************************************************************************)
(* Properties                                                              *)
(***************************************************************************)

Files == Seq(Nat) \cup {Missing, Folder}
Edits == {"edit_file", "multi_edit"}

\* The values of the variables (the file, and the locals of run and of
\* _dispatch_with_retry).
TypeOK ==
    /\ disk \in Files
    /\ request \in [Calls -> Coding] \cup [Calls -> Plain]
    /\ state \in [Calls -> {"new", "opening", "writing", "sleeping", "succeeded", "failed",
                            "cancelled"}]
    /\ tries \in [Calls -> 0..MaxToolRetries + 1]
    /\ base \in [Calls -> Files]
    /\ text \in [Calls -> Seq(Nat) \cup {Missing}]
    /\ answer \in [Calls -> Seq(Nat)]
    /\ loop \in Calls \cup {NoCall}
    /\ alive \in BOOLEAN
    /\ changes \in 0..MaxChanges
    /\ faults \in 0..MaxFaults
    /\ log \in Seq([by : Calls \cup {Process}, base : Files, text : Files, whole : BOOLEAN])

\* Nothing that a sibling call did to the file is lost to an edit: what the edit
\* was computed from is the file as the last call left it, or as some process
\* made it since (the tools never suspend between read_text and write_text).
NoLostUpdate ==
    \A k \in DOMAIN log :
      log[k].by \in Calls =>
        \E i \in 1..k - 1 :
          /\ log[i].text = log[k].base
          /\ \A j \in i + 1..k - 1 : log[j].by = Process

ChangesBy(c) == {k \in DOMAIN log : log[k].by = c}

\* The change of c is in the file's history once, behind what c may have torn.
MadeOnce(c) ==
    \E k \in ChangesBy(c) :
      /\ log[k].whole /\ log[k].text = text[c]
      /\ \A j \in ChangesBy(c) \ {k} : j < k /\ ~log[j].whole

\* c has made no change.
TornAtMost(c) == \A k \in ChangesBy(c) : ~log[k].whole

\* Another process has removed the file.
RemovedByOther == \E k \in DOMAIN log : log[k].by = Process /\ log[k].text = Missing

\* The model is told the truth about the file: a call that reports success has
\* made its change once, in the last of its attempts, or was to delete a file that
\* another process has removed; what a call that failed, was cancelled or is still
\* to be repeated has done is at most to tear the file.
ReportsMatch ==
    \A c \in Calls :
      IF state[c] = "succeeded"
      THEN \/ request[c].tool \in Reads
           \/ MadeOnce(c)
           \/ text[c] = Missing /\ TornAtMost(c) /\ RemovedByOther
      ELSE TornAtMost(c)

\* What an edit at the one place where its old text stands makes of t; at each of
\* them, where they overlap.
At(t, e) ==
    {Splice(t, i, e) : i \in {i \in Places(t, e.old) :
        \A j \in Places(t, e.old) \ {i} : j < i + Len(e.old) /\ i < j + Len(e.old)}}

Onward(U, e) == UNION {At(t, e) : t \in U}

Series(t, edits) ==
    LET Upto[n \in 0..Len(edits)] == IF n = 0 THEN {t} ELSE Onward(Upto[n - 1], edits[n])
    IN Upto[Len(edits)]

\* An edit never hits a wrong place: every edit that was made found one place to
\* make it, after those before it in its list, and changed nothing else but the
\* ends of the lines, which are all those of the system behind it; a multi_edit
\* made all of its edits (str.count, str.replace, the loop of multi_edit, read_text
\* and write_text).
OnePlace ==
    \A k \in DOMAIN log :
      /\ log[k].by \in Calls /\ log[k].whole
      /\ request[log[k].by].tool \in Edits
      => \E u \in Series(ReadText(log[k].base), request[log[k].by].edits) :
           log[k].text = WriteText(u)

\* A read returns the file as some call or process left it, never a write of a
\* sibling half done.
ReadsAreWhole ==
    \A c \in Calls :
      state[c] = "succeeded" /\ request[c].tool \in Reads =>
        \E k \in DOMAIN log : ~NoFile(log[k].text) /\ ReadText(log[k].text) = answer[c]

=============================================================================
