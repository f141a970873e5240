------------------------------- MODULE LogFiles -------------------------------
(***************************************************************************)
(* The tasks of base::TaskMgr, one of which checks whether base::FileMgr has  *)
(* log files to rotate, and threads that write to those files all along.      *)
(* OnWork runs the tasks that are due under TaskMgr::lock_; FileMgr::OnCheck  *)
(* compares the time with last_* before it takes FileMgr::lock_.             *)
(*                                                                         *)
(* A log has a file with its own name (Live) and the files its rotations left *)
(* under a date; a descriptor goes on to write to a file that was renamed.     *)
(* Time is counted in minutes and goes forward.                             *)
(***************************************************************************)
EXTENDS Integers, Sequences, Functions

CONSTANTS Threads,        \* the threads that call OnWork
          Logs,           \* log files, by name
          RotateTypes,    \* of "none", "minute", "hour" and "day"
          Tasks, Check,   \* the tasks; Check calls OnCheck and Restart
          Interval,       \* Interval[t]: interval_
          PerHour, PerDay,  \* minutes of an hour and of a day
          MaxNow,         \* bound: the clock stops there
          MaxLines,       \* bound: lines written to a log
          Nobody

ASSUME TasksAssumption == Check \in Tasks /\ Interval \in [Tasks -> Nat]
ASSUME ThreadsAssumption == Nobody \notin Threads
ASSUME CalendarAssumption == PerHour \in Nat \ {0} /\ PerDay \in Nat \ {0} /\ MaxNow \in Nat /\ MaxLines \in Nat

VARIABLES
  now,      \* the clock
  tasks,    \* tasks_
  when,     \* when[t]: when_
  ran,      \* ran[t]: the callback of t was called
  lock,     \* who has TaskMgr::lock_
  w,        \* w[th]: where OnWork of th is, with its locals
  flock,    \* who has FileMgr::lock_
  last,     \* last_year_ to last_minute_, as a time; -1 at first
  logs,     \* the logs in logs_
  fd,       \* fd[l]: the file that fd_ writes to
  files,    \* files[l]: the lines of each file of l that exists, by date
  type,     \* type[l]: rotate_type_, as SetRotate set it
  lines     \* lines[l]: how many lines were written

taskVars == <<tasks, when, ran, lock>>
fileVars == <<flock, last, logs, fd, files>>
logVars == <<now, taskVars, w, fileVars, type, lines>>

Live == -1

Out == [pc |-> "out", start |-> 0, left |-> {}, changed |-> {}, seen |-> 0, rotate |-> {}, log |-> Nobody]

LogInit ==
  /\ now = 0
  /\ tasks = {} /\ lock = Nobody /\ flock = Nobody
  /\ when = [t \in Tasks |-> 0] /\ ran = [t \in Tasks |-> FALSE]
  /\ w = [th \in Threads |-> Out]
  /\ last = -1 /\ logs = {}
  /\ fd = [l \in Logs |-> Live]
  /\ files = [l \in Logs |-> [s \in {} |-> <<>>]]
  /\ lines = [l \in Logs |-> 0]
  /\ type \in [Logs -> RotateTypes]

Put(f, s, seq) == [d \in DOMAIN f \cup {s} |-> IF d = s THEN seq ELSE f[d]]

Minute(n) == n % PerHour
Hour(n) == (n % PerDay) \div PerHour
Day(n) == n \div PerDay

Tick == now < MaxNow /\ now' = now + 1 /\ UNCHANGED <<taskVars, w, fileVars, type, lines>>

-----------------------------------------------------------------------------
(* Tasks.                                                                  *)

\* A new Task, due after its interval, and Add.
Add(t) ==
  /\ lock = Nobody /\ t \notin tasks /\ now + Interval[t] <= MaxNow
  /\ tasks' = tasks \cup {t}
  /\ when' = [when EXCEPT ![t] = now + Interval[t]]
  /\ ran' = [ran EXCEPT ![t] = FALSE]
  /\ UNCHANGED <<now, lock, w, fileVars, lines>>

Del(t) ==
  /\ lock = Nobody /\ t \in tasks
  /\ tasks' = tasks \ {t}
  /\ UNCHANGED <<now, when, ran, lock, w, fileVars, lines>>

\* OnWork takes lock_ and reads the clock.
Enter(th) ==
  /\ w[th].pc = "out" /\ lock = Nobody
  /\ lock' = th
  /\ w' = [w EXCEPT ![th] = [Out EXCEPT !.pc = "scan", !.start = now, !.left = tasks]]
  /\ UNCHANGED <<now, tasks, when, ran, fileVars, lines>>

Due(th, t) == w[th].pc = "scan" /\ t \in w[th].left /\ when[t] <= w[th].start

NotDue(th, t) ==
  /\ w[th].pc = "scan" /\ t \in w[th].left /\ when[t] > w[th].start
  /\ w' = [w EXCEPT ![th].left = @ \ {t}]
  /\ UNCHANGED <<now, taskVars, fileVars, lines>>

\* Mutant: a task is erased when its time has passed before it runs.
EraseAnyway(th, t) == tasks' = IF when[t] <= w[th].start THEN tasks \ {t} ELSE tasks

\* After Run, a task that did not set itself a later time is erased; one that
\* was due at this very moment is not, and runs again.
Erase(th, t) == tasks' = IF when'[t] < w[th].start THEN tasks \ {t} ELSE tasks

\* Mutant: the first task that is due ends the pass over tasks_.
RunOne(th, t) ==
  /\ t # Check /\ Due(th, t)
  /\ ran' = [ran EXCEPT ![t] = TRUE] /\ UNCHANGED when
  /\ Erase(th, t)
  /\ w' = [w EXCEPT ![th].left = {}]
  /\ UNCHANGED <<now, lock, fileVars, lines>>

\* Run of a task whose callback does not Restart it.
Run(th, t) ==
  /\ t # Check /\ Due(th, t)
  /\ ran' = [ran EXCEPT ![t] = TRUE] /\ UNCHANGED when
  /\ Erase(th, t)
  /\ w' = [w EXCEPT ![th].left = @ \ {t}]
  /\ UNCHANGED <<now, lock, fileVars, lines>>

\* Run of Check: OnCheck reads the clock and what has changed since last_*.
RunCheck(th) ==
  LET old == IF last = -1 THEN now ELSE last
      changed == (IF Minute(old) # Minute(now) THEN {"minute"} ELSE {}) \cup
                 (IF Hour(old) # Hour(now) THEN {"hour"} ELSE {}) \cup
                 (IF Day(old) # Day(now) THEN {"day"} ELSE {}) IN
  /\ Due(th, Check)
  /\ ran' = [ran EXCEPT ![Check] = TRUE]
  /\ last' = old
  /\ w' = [w EXCEPT ![th].pc = IF changed = {} THEN "restart" ELSE "check",
                    ![th].changed = changed, ![th].seen = now]
  /\ UNCHANGED <<now, tasks, when, lock, flock, logs, fd, files, lines>>

\* The callback of Check calls Restart, and OnWork goes on.
Restart(th) ==
  /\ w[th].pc = "restart"
  /\ when' = [when EXCEPT ![Check] = now + Interval[Check]]
  /\ Erase(th, Check)
  /\ w' = [w EXCEPT ![th].pc = "scan", ![th].left = @ \ {Check}]
  /\ UNCHANGED <<now, ran, lock, fileVars, lines>>

EndPass(th) ==
  /\ w[th].pc = "scan" /\ w[th].left = {}
  /\ lock' = Nobody
  /\ w' = [w EXCEPT ![th] = Out]
  /\ UNCHANGED <<now, tasks, when, ran, fileVars, lines>>

-----------------------------------------------------------------------------
(* Log files.                                                              *)

\* GetFileLog of a log that is not in logs_: open creates the file or appends.
GetFileLog(l) ==
  /\ flock = Nobody /\ l \notin logs
  /\ logs' = logs \cup {l}
  /\ fd' = [fd EXCEPT ![l] = Live]
  /\ files' = IF Live \in DOMAIN files[l] THEN files ELSE [files EXCEPT ![l] = Put(@, Live, <<>>)]
  /\ UNCHANGED <<now, taskVars, w, flock, last, lines>>

\* The log is not rotated any more; who has it still writes.
RemoveFileLog(l) ==
  /\ flock = Nobody /\ l \in logs
  /\ logs' = logs \ {l}
  /\ UNCHANGED <<now, taskVars, w, flock, last, fd, files, lines>>

\* WriteLog, in any thread and without a lock.
WriteLog(l) ==
  /\ fd[l] \in DOMAIN files[l] /\ lines[l] < MaxLines
  /\ lines' = [lines EXCEPT ![l] = @ + 1]
  /\ files' = [files EXCEPT ![l][fd[l]] = Append(@, lines'[l])]
  /\ UNCHANGED <<now, taskVars, w, flock, last, logs, fd>>

\* OnCheck takes lock_ and goes through logs_.
CheckLock(th) ==
  /\ w[th].pc = "check" /\ flock = Nobody
  /\ flock' = th /\ last' = w[th].seen
  /\ w' = [w EXCEPT ![th].pc = "rotate", ![th].rotate = logs]
  /\ UNCHANGED <<now, taskVars, logs, fd, files, lines>>

Next1(th, l) == [w EXCEPT ![th].pc = "rotate", ![th].rotate = @ \ {l}]

Changed(th, l) == type[l] \in w[th].changed /\ files[l][fd[l]] # <<>>

NoRotate(th, l) ==
  /\ w[th].pc = "rotate" /\ l \in w[th].rotate /\ ~Changed(th, l)
  /\ w' = Next1(th, l)
  /\ UNCHANGED <<now, taskVars, fileVars, lines>>

\* Mutant: the date has no minutes.
StampByHour(l) == IF type[l] = "day" THEN Day(last) ELSE Hour(last)

\* The date that RotateDays, RotateHours or RotateMinutes puts into the name.
Stamp(l) == IF type[l] = "day" THEN Day(last) ELSE last

\* Rotate renames the file; what had the new name is gone.
Rename(th, l) ==
  LET renamed == [s \in DOMAIN files[l] \ {Live} |-> files[l][s]] IN
  /\ w[th].pc = "rotate" /\ l \in w[th].rotate /\ Changed(th, l)
  /\ Live \in DOMAIN files[l]
  /\ files' = [files EXCEPT ![l] = Put(renamed, Stamp(l), files[l][Live])]
  /\ fd' = [fd EXCEPT ![l] = IF @ = Live THEN Stamp(l) ELSE @]
  /\ w' = [w EXCEPT ![th].pc = "open", ![th].log = l]
  /\ UNCHANGED <<now, taskVars, flock, last, logs, lines>>

\* There is no file to rename, because open failed after an earlier rename.
RenameFails(th, l) ==
  /\ w[th].pc = "rotate" /\ l \in w[th].rotate /\ Changed(th, l)
  /\ Live \notin DOMAIN files[l]
  /\ w' = Next1(th, l)
  /\ UNCHANGED <<now, taskVars, fileVars, lines>>

OpenNew(th) ==
  /\ w[th].pc = "open"
  /\ files' = [files EXCEPT ![w[th].log] = Put(@, Live, <<>>)]
  /\ w' = [w EXCEPT ![th].pc = "dup"]
  /\ UNCHANGED <<now, taskVars, flock, last, logs, fd, lines>>

OpenFails(th) ==
  /\ w[th].pc = "open"
  /\ w' = Next1(th, w[th].log)
  /\ UNCHANGED <<now, taskVars, fileVars, lines>>

\* dup2: fd_ writes to the new file.
Dup(th) ==
  /\ w[th].pc = "dup"
  /\ fd' = [fd EXCEPT ![w[th].log] = Live]
  /\ w' = Next1(th, w[th].log)
  /\ UNCHANGED <<now, taskVars, flock, last, logs, files, lines>>

CheckDone(th) ==
  /\ w[th].pc = "rotate" /\ w[th].rotate = {}
  /\ flock' = Nobody
  /\ w' = [w EXCEPT ![th].pc = "restart"]
  /\ UNCHANGED <<now, taskVars, last, logs, fd, files, lines>>

-----------------------------------------------------------------------------
TaskWork(th) ==
  \/ Enter(th) \/ RunCheck(th) \/ Restart(th) \/ EndPass(th)
  \/ CheckLock(th) \/ OpenNew(th) \/ OpenFails(th) \/ Dup(th) \/ CheckDone(th)
  \/ \E t \in Tasks : NotDue(th, t) \/ Run(th, t)
  \/ \E l \in Logs : NoRotate(th, l) \/ Rename(th, l) \/ RenameFails(th, l)

Work == UNCHANGED type /\ \E th \in Threads : TaskWork(th)

Callers ==
  /\ UNCHANGED type
  /\ \/ \E t \in Tasks : Add(t) \/ Del(t)
     \/ \E l \in Logs : GetFileLog(l) \/ RemoveFileLog(l) \/ WriteLog(l)

LogNext == Tick \/ Work \/ Callers

\* OnWork is called again and again, in some thread, and time goes on.
LogSpec == LogInit /\ [][LogNext]_logVars /\ WF_logVars(Tick) /\ WF_logVars(Work)

-----------------------------------------------------------------------------
(* Properties.                                                             *)

Earlier(s, d) == s # Live /\ (d = Live \/ s < d)

\* Every line that was written is in a file of its log, and the files by date,
\* the live one last, have the lines in the order they were written, none of
\* them twice: whoever writes between the steps of a rotation, and when it fails.
NothingLost ==
  \A l \in Logs :
    /\ UNION {Range(files[l][s]) : s \in DOMAIN files[l]} = 1..lines[l]
    /\ \A s \in DOMAIN files[l] : \A m, n \in DOMAIN files[l][s] : m < n => files[l][s][m] < files[l][s][n]
    /\ \A s, d \in DOMAIN files[l] :
         Earlier(s, d) => \A i \in Range(files[l][s]), j \in Range(files[l][d]) : i < j

\* A task leaves tasks_ only by Del or after it ran; Check, which restarts, stays.
ErasedOnlyWhenDone ==
  [][\A t \in tasks \ tasks' : Del(t) \/ (ran'[t] /\ t # Check)]_logVars

\* A task that was added runs, unless Del takes it out.
DueTasksRun == \A t \in Tasks : (t \in tasks) ~> (ran[t] \/ t \notin tasks)

=============================================================================
