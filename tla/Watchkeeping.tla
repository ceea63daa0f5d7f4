---------------------------- MODULE Watchkeeping ----------------------------
(***************************************************************************)
(* What the lead is told without asking for it, and the time summary of    *)
(* `state`: the run record's stamps, the standing warnings printed after   *)
(* every command of the lead, the tasks' times and the human waits         *)
(* (src/coordinator.rs standing_warnings, cmd_state, print_time_summary,   *)
(* cmd_human_wait; src/domain/run.rs).                                     *)
(*                                                                         *)
(* It adds a clock to DaemonRun.  A behaviour follows the daemons, the     *)
(* tasks or the waits, which stamp different tables.  The lead gives one   *)
(* command at a time.  Time passes in ticks.                               *)
(***************************************************************************)
EXTENDS DaemonRun, FiniteSetsExt

CONSTANTS
  DaemonSilent,     \* DAEMON_SILENT_SECONDS, in ticks
  StateUnread,      \* STATE_UNREAD_SECONDS
  CommitUnattended, \* COMMIT_UNATTENDED_SECONDS
  MaxClock, MaxTasks, MaxWaits

ASSUME WatchkeepingAssumption ==
  /\ DaemonSilent \in Nat /\ StateUnread \in Nat /\ CommitUnattended \in Nat
  /\ MaxClock \in Nat \ {0} /\ MaxTasks \in Nat /\ MaxWaits \in Nat

VARIABLES
  subject,   \* what the behaviour follows
  clock,
  seenAt,    \* run.daemon_seen_at
  readAt,    \* run.state_read_at
  tasks,     \* the tasks table, in order, as far as its events have times
  waits,     \* human_waits
  waiting,   \* a human-wait start has found no open wait
  lastUp     \* when a daemon was last in its loop

watchVars == <<subject, clock, seenAt, readAt, tasks, waits, waiting, lastUp>>

-----------------------------------------------------------------------------
Time == 1..MaxClock

\* A column that is not set.
Null == 0
Stamp == Time \cup {Null}

\* Times of a task's events.  over: of the first that says it was committed,
\* accepted or aborted.  judged: of its acceptance or abort.
TaskTimes == [drafted : Time, dispatched : Stamp, over : Stamp, judged : Stamp]

Wait == [started : Time, ended : Stamp]

WatchTypeOK ==
  /\ TypeOK
  /\ subject \in {"daemons", "tasks", "waits"} /\ clock \in Time
  /\ {seenAt, readAt, lastUp} \subseteq 0..clock
  /\ tasks \in Seq(TaskTimes) /\ waits \in Seq(Wait) /\ waiting \in BOOLEAN

WatchInit ==
  /\ Init
  /\ subject \in {"daemons", "tasks", "waits"}
  /\ clock = 1 /\ seenAt = Null /\ readAt = Null /\ lastUp = Null
  /\ tasks = <<>> /\ waits = <<>> /\ waiting = FALSE

-----------------------------------------------------------------------------
(* The standing warnings *)

\* Slip: a stamp that was never set is no silence.
WithinOrNever(stamp, limit) == clock - stamp <= limit

\* seconds_since, of a stamp that is set.
Within(stamp, limit) == stamp # Null /\ clock - stamp <= limit

IsOut(task) == task.dispatched # Null /\ task.over = Null

Unattended(task) ==
  task.over # Null /\ task.judged = Null /\ clock - task.over > CommitUnattended

\* standing_warnings, but for the lead's context.
Warnings ==
  {<<"unattended", t>> : t \in {t \in DOMAIN tasks : Unattended(tasks[t])}} \cup
  {<<"unread", t>> : t \in {t \in DOMAIN tasks :
      /\ IsOut(tasks[t]) /\ \A u \in 1..(t - 1) : ~IsOut(tasks[u])
      /\ ~Within(readAt, StateUnread)}} \cup
  (IF Within(seenAt, DaemonSilent) THEN {} ELSE {<<"absent", 0>>})

-----------------------------------------------------------------------------
(* The daemons *)

\* record_daemon_seen: the poll that goes on is stamped.
DaemonsStep ==
  /\ subject = "daemons"
  /\ Next
  /\ seenAt' = IF \E d \in Daemons : At(d, "poll") /\ daemons'[d].pc = "snapshot"
               THEN clock ELSE seenAt
  /\ lastUp' = IF \E d \in Daemons : InLoop(d) THEN clock ELSE lastUp
  /\ UNCHANGED <<subject, clock, readAt, tasks, waits, waiting>>

Tick ==
  /\ clock < MaxClock /\ clock' = clock + 1
  /\ lastUp' = IF \E d \in Daemons : InLoop(d) THEN clock + 1 ELSE lastUp
  /\ UNCHANGED <<vars, subject, seenAt, readAt, tasks, waits, waiting>>

-----------------------------------------------------------------------------
(* The tasks and their times *)

TasksStep(new) ==
  /\ subject = "tasks" /\ tasks' = new
  /\ UNCHANGED <<vars, subject, clock, seenAt, readAt, waits, waiting, lastUp>>

New ==
  /\ Len(tasks) < MaxTasks
  /\ TasksStep(Append(tasks, [drafted |-> clock, dispatched |-> Null, over |-> Null,
                              judged |-> Null]))

\* One task is out at a time.
DispatchTask(t) ==
  /\ tasks[t].dispatched = Null /\ tasks[t].over = Null
  /\ \A u \in DOMAIN tasks : ~IsOut(tasks[u])
  /\ TasksStep([tasks EXCEPT ![t].dispatched = clock])

\* By the daemon, or by the lead.
CommitTask(t) ==
  IsOut(tasks[t]) /\ TasksStep([tasks EXCEPT ![t].over = clock])

\* Accepted, or aborted with its commit.
Judge(t) ==
  /\ tasks[t].over # Null /\ tasks[t].judged = Null
  /\ TasksStep([tasks EXCEPT ![t].judged = clock])

\* Aborted, or accepted at once with the commit the gate found.
AbortTask(t) ==
  /\ tasks[t].over = Null
  /\ TasksStep([tasks EXCEPT ![t].over = clock, ![t].judged = clock])

\* cmd_state.
ReadState ==
  /\ subject = "tasks"
  /\ readAt' = clock
  /\ UNCHANGED <<vars, subject, clock, seenAt, tasks, waits, waiting, lastUp>>

-----------------------------------------------------------------------------
(* Human waits *)

WaitsStep(new, inserts) ==
  /\ subject = "waits" /\ waits' = new /\ waiting' = inserts
  /\ UNCHANGED <<vars, subject, clock, seenAt, readAt, tasks, lastUp>>

IsOpen(wait) == wait.ended = Null

\* human-wait start, in two transactions: an open wait is looked for ...
StartWait ==
  /\ ~waiting /\ \A w \in DOMAIN waits : ~IsOpen(waits[w])
  /\ WaitsStep(waits, TRUE)

\* ... and one is inserted.
InsertWait ==
  /\ waiting /\ Len(waits) < MaxWaits
  /\ WaitsStep(Append(waits, [started |-> clock, ended |-> Null]), FALSE)

\* The command is killed in between.
KillWait == waiting /\ WaitsStep(waits, FALSE)

\* human-wait end.
EndWait ==
  /\ ~waiting
  /\ WaitsStep([w \in DOMAIN waits |->
                  IF IsOpen(waits[w]) THEN [waits[w] EXCEPT !.ended = clock] ELSE waits[w]],
               FALSE)

-----------------------------------------------------------------------------
(* The time summary *)

\* now for what has not ended.
Until(stamp) == IF stamp # Null THEN stamp ELSE clock

Wall == clock - Min({tasks[t].drafted : t \in DOMAIN tasks})

\* Slip: a task keeps its implementer busy until it is judged.
BusyUntilJudged(task) == Until(task.judged) - task.dispatched

\* From the dispatch to the first event that ends the work.
BusyTime(task) == Until(task.over) - task.dispatched

\* What the loop over them adds up to.
Total(times) ==
  LET upTo[n \in 0..Len(times)] == IF n = 0 THEN 0 ELSE upTo[n - 1] + times[n]
  IN  upTo[Len(times)]

Busy ==
  Total([t \in DOMAIN tasks |->
           IF tasks[t].dispatched = Null THEN 0 ELSE BusyTime(tasks[t])])

Human == Total([w \in DOMAIN waits |-> Until(waits[w].ended) - waits[w].started])

-----------------------------------------------------------------------------
WatchNext ==
  \/ DaemonsStep \/ Tick \/ New \/ ReadState
  \/ \E t \in DOMAIN tasks : DispatchTask(t) \/ CommitTask(t) \/ Judge(t) \/ AbortTask(t)
  \/ StartWait \/ InsertWait \/ KillWait \/ EndWait

WatchSpec == WatchInit /\ [][WatchNext]_<<vars, watchVars>>

\* What DaemonRun's fairness asks of the daemons.
WatchFairSpec ==
  WatchSpec /\ \A d \in Daemons : WF_<<vars, watchVars>>(DaemonsStep /\ DaemonStep(d))

-----------------------------------------------------------------------------
(* Properties *)

\* "Each one is measured from the store, never inferred" (coordinator.rs:86): a
\* run whose daemons are all gone for longer than a daemon may be silent, or
\* that never had one, is told so after any command, whatever stop requests,
\* kills and restarts there were.
DeadDaemonIsTold ==
  lastUp = Null \/ clock - lastUp > DaemonSilent => <<"absent", 0>> \in Warnings

\* The time summary adds up: the implementer was never busy for longer than the
\* run has taken, nor the human waited for longer than there was.
TimesAddUp ==
  /\ tasks # <<>> => Busy <= Wall
  /\ Human < clock
=============================================================================
