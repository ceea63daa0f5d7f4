# A TLA+ model of chainsaw's supervisor

chainsaw runs a *lead* session that drafts tasks, *implementer* sessions that
carry them out one at a time and commit, and a *commentator* session that
reviews the commits. The `chainsaw` binary (`src/src`) is the glue: the lead's
commands and a background daemon, sharing one SQLite database, one git
repository and the sessions' transcripts. Every command is a process of its
own and every write is a short `BEGIN IMMEDIATE` transaction; the prompts that
go out between two transactions may take minutes. That is where the hard
behaviour is, and what these modules are about.

## Inventory

| part (source) | state | operations | interacts with |
|---|---|---|---|
| task store (`domain/task.rs`, `persistence/task.rs`) | `tasks`, `task_events` | create, dispatch, take_flight, record_commit, accept, abort, the two commentary stamps | written by the commands and the daemon |
| lead commands (`coordinator.rs` 373-1348) | none of their own | launch, start-commentator, prompt, task new, dispatch, abort, accept, record-commit, record-commentary, calibrate, observe, finding, poll, resolve | database, runtime, git, transcripts |
| daemon (`coordinator.rs` 1653-1943) | transcript sizes, missing transcripts, compaction latch, in memory | register the lead, poll, read every live session, take flight, record commits, ask for and see commentary, kick, compact, latch the lead's limit | the same, and `run.stop_requested_at` |
| sessions (`domain/session.rs`, `persistence/session.rs`) | `sessions` | create, stop_named, record_reading, record_kick, record_over_limit, record_transcript | launch, the daemon |
| run record (`domain/run.rs`, `persistence/run.rs`) | `run` (one row) | request and clear stop, stamp the poll and the state read | stop, daemon, standing warnings |
| reviews (`persistence/observation.rs`, `persistence/finding.rs`) | `observations`, `findings` | create, after, register, resolve, unresolved, resolved | commentator writes, lead reads |
| prompt delivery (`cmd_prompt`) | `prompts`, the prompt lock | send, resend, recognise, give up | every command that prompts, the daemon |
| runtimes (`infra/session_runtime*`) | Orca's registry file | start, query, prompt, interrupt, wait | a terminal program's CLI |
| agents (`infra/agent*`) | none | find a transcript, read what it says | transcripts |
| settings (`infra/settings.rs`) | two files, the `--set` flags | lay over, launch agent, launch args | launch |
| context sizes, calibration (`domain/calibration.rs`, `cmd_calibrate`) | `calibrations`, `sessions.context_max` | read, peak, calibrate | transcripts, tasks |
| transcript monitor (`infra/transcript_monitor.rs`) | sizes of the last look | look, tell what grew | transcripts, the commentator |
| human waits, reports (`cmd_human_wait`, `cmd_state`) | `human_waits`, the run's stamps | start, end, standing warnings, time summary | the lead |
| journal | `run_events` | append | - |

Hard behaviours, in the order they matter:

* a command checks in one transaction, prompts for minutes, and writes in
  another (dispatch, abort, retry, the gate), while the daemon and other
  commands write in between;
* any process may be killed between two of its transactions;
* a prompt may be lost, queued, taken late, or taken twice;
* the daemon dies of any error in a transaction of its own;
* an agent's commit may be shown after it was made (Claude, Codex) or never
  (Cursor, whose only candidate is HEAD);
* two daemons, two leads and two incarnations of a session may overlap;
* what the daemon holds in memory (sizes, the outstanding compaction) is lost
  with it, what it holds in the database is not.

What makes each part correct:

| part | must hold |
|---|---|
| task store | a task's state follows the lifecycle; base, session and offset are fixed once dispatched; accepted and aborted are final; a retry replaces only an aborted task |
| lead commands | one task flies at a time, on a session of its own that was shown the task; an abort reaches the agent or is noted; what passed the gate is accepted |
| daemon, tasks | a recorded commit is newer than the base and credited once; a commit shown and commentary given are eventually recorded; only a verdict that races it ends it |
| daemon, life | one live lead, and one that was followed does not come back; the lead's limit is recorded once; a stop ends every daemon |
| session watch | a launch never ends the daemon; a stall is nudged, and once; a full commentator is asked to compact once |
| reviews | the lead's cursor passes nothing it was not given, nothing comes twice, verdicts are final, open findings keep coming, verdicts reach the commentators |
| prompt delivery | a prompt reported taken was taken; none is taken twice; the answer printed is the prompt's own; every command ends |
| launch, runtimes | a row's id is that of the session started; a name answers with the session its row names; an agent runs with flags written for it |
| transcripts, sizes, calibration | a prompt is found exactly when it was written; a task's end is the peak of its own part; growth is told |
| reports | a daemon that is gone is told of; no interval is counted twice |

## Modules

| module | what it is |
|---|---|
| `TaskStore` | one task row with its event log, and the transitions of `persistence/task.rs` as operators from a row to the rows it may leave (none: the code returns an error) |
| `TaskLifecycle` | the abstract specification of the task table: what it promises whoever reads it |
| `Coordinator` | the lead's commands and the daemon over the task table, the sessions, git and the transcripts; extends `TaskStore`, and implements `TaskLifecycle` (`KeepsLifecycle`) |
| `MCCoordinator` | `Coordinator` with the symmetry of its commands, for TLC |
| `DaemonRun` | the daemons' life: starting, registering the lead, the stop request, the latch on the lead's context |
| `Watchkeeping` | `DaemonRun` with a clock: the poll's stamp, the standing warnings, the tasks' times, the human waits and the time summary |
| `SessionWatch` | the daemon's readings of one session, its nudge and its compaction, against launches, restarts and a clock |
| `ReviewLog` | observations, findings, the lead's poll and its verdicts |
| `Reconciling` | `ReviewLog` with `resolutions`, from which commentators learn the verdicts |
| `PromptDelivery` | one prompt from its command to its session: the lock, the sends, how a command tells its prompt was taken |
| `Waiting` | `PromptDelivery` with `--wait` under Orca: the probe, the wait, and the answer that is printed |
| `Settings` | the layering of the settings files and the `--set` flags, as operators |
| `Launching` | launches under either runtime over `Settings`: the terminal, the id, Orca's registry, the row, the briefing |
| `MCLaunching` | `Launching` with the symmetry of its launchers, for TLC |
| `Transcripts` | one transcript by lines and halves of lines, and what is read of it: prompts, contexts, calibrations, growth |
| `CoordinatorProofs`, `OneLeadProofs`, `DaemonRunProofs`, `ReviewLogProofs`, `PromptDeliveryProofs`, `LaunchingProofs`, `SessionWatchProofs`, `TranscriptsProofs` | the theorems, those of a composed module beside those of the module it adds to |

The composed modules (`Coordinator` over `TaskStore`, `Watchkeeping` over
`DaemonRun`, `Reconciling` over `ReviewLog`, `Waiting` over `PromptDelivery`,
`Launching` over `Settings`) extend the module they add to: each of its steps is
a step of that module, or leaves that module's variables alone. For `Watchkeeping`,
`Reconciling` and `Waiting` this is proved (`Implements...`), so what is proved of
the smaller module holds of the larger one.

Every module cuts its actions where the code's transactions, reads, prompts and
runtime calls begin and end: what lies between two of them is one step, and any
other process may act in between.

### How `Coordinator` corresponds to the code

`tasks`, `sessions` and `runlog` are the database; `cli[p]` is one command: the
place it has reached and what it has read so far; `daemon` is the daemon with
what is left of its poll. `runtime`, `agents`, `git`, `late` and `mentioned`
are the world the supervisor sees through CLIs and files. An action is one
access: a read-only transaction (`task_snapshot`, `last_task_on`), a look at git
or at a transcript, a prompt, or a write transaction. Commands that fail their
first check change nothing and have no action. `Prompt` takes all of
`cmd_prompt` in one step: it is under an exclusive lock, and all it leaves is a
prompt taken, lost, or still to arrive. `PromptDelivery` looks inside that step.

Data is abstracted to what the properties tell apart. The branch is linear and
commits are numbered as HEAD took them, so "proper descendant of the base" is
`>`. A transcript is a sequence of lines, each showing a task's prompt, a commit
or neither, and an offset counts lines. Abbreviated and full commit ids are one
value: every writer of a task's commit reads it the same way or passes a reason
the others do not, so their spelling never decides. The reasons in `Reasons`
are the non-blank ones.

### The other modules

`DaemonRun`: `stopping` is `run.stop_requested_at`, `rows` the rows of the
lead's name, `stopLeads` the `StopLead` run events, `context` what each lead's
transcript says. A daemon goes through `RegisterLead`, `ClearStop` and then
`Poll`, `Snapshot`, `Read`, `Latch` round and round. `Overlap` says whether one
may be started beside another; nothing in the code prevents it.

`Watchkeeping`: `seenAt` and `readAt` are `run.daemon_seen_at` and
`run.state_read_at`, `tasks` the times of each task's events, `waits` the table
`human_waits`. `Warnings` is `standing_warnings` and `Busy`, `Human`, `Wall` the
sums of `print_time_summary`. The three subjects stamp different tables, so a
behaviour follows one of them; `lastUp` is what a warning is held to, and the
code does not know it.

`SessionWatch`: `rows` are the rows of one name, `agents` the terminals behind
it, `daemon` what `daemon()` has read in this poll (`at`, `row`, `grew`,
`context`) and what it keeps between polls (`known`, `compacting`), which
`Restart` loses. Time is in ticks and `Stale` is `STALE_SECONDS`; the context is
only compared with its limit, so it is under, over, or neither. Whether an agent
shows a prompt as it takes it (`echoesOnTake`) is chosen initially, so one
instance has both sorts. A prompt sent stays in `sent` until it is taken, which
may be long after the daemon gave it up.

`ReviewLog`: `writers[w]` is the observation a command has inserted and not
committed, under SQLite's writer lock (`Unlocked`); `resolver` the finding a
resolve holds that lock for; `answer` a poll that has read and not yet been
read. `lead` is what the lead keeps in its own context: a cursor and what it
was given, by scope, and the map of unresolved findings. Texts, descriptions and
reasons are left out.

`Reconciling`: `closed` is what a commentator holds each finding closed with;
`Reconcile` is one `resolutions`, in one read.

`PromptDelivery`: `lock` is the `.prompt-lock` file's lock, `commands[p]` what
`cmd_prompt` has read before its send (`idle`, `offset`, `attempt`), `agents[s]`
what is at work, waiting and shown in each session. The three agents differ in
`EchoesOnTake` and `EchoesQueued`. A text is the command it belongs to: two
prompts with the same first 80 characters are not told apart by the code, and
are not modelled.

`Waiting`: `waits[p]` is where a `--wait` is and what Orca shows it (`shown`),
with ghosts that say whose turn it is (`begun`, `owed`, `said`). Orca notices a
turn late (`Notice`), and the agent writes its last word late (`LastWord`).

`Launching`: an agent is its number, which is also its session id. `registry` and
`temporary` are `chainsaw-orca-terminals.json` and its `.json.tmp`; `launchers[p]`
is one `cmd_launch` with what it has read; `files` are the transcripts in the
order of their modification times, and `since` those modified since the terminal
was opened. `Loaded` enumerates the settings a launch may find; a layer's flags
are those of the agent they were written for.

`Transcripts`: `Size` counts halves of lines, so that a line may be half written
(`torn`) and Cursor's `turn_ended` line, which moves, may be shorter than the line
that replaces it. A reader is one of three and they leave each other alone.
`held` and `shrank` are ghosts: what a calibration should find, and whether the
agent's context shrank under the task.

A definition whose comment begins with `Slip:` is not the program: it is what a
plausible mistake would make of the definition it is named after, and shows that
the property it is meant for can fail.

## Runs

| run | instance | shows |
|---|---|---|
| `one_lead_dispatches` | 1 command at a time, 2 tasks, 2 incarnations of a name, 1 late prompt | at most one task flies, no session is bound to two, a bound session has shown the prompt past its offset, an aborted implementer was told or the run log says not, a retry follows an abort |
| `one_lead_commits` | 1 command, 2 tasks on Cursor, 2 commits, forced remedies, commentator | no commit is credited twice; what the daemon marks delivered was mentioned |
| `verdicts_race` | 2 commands, each may be killed, 1 task, outside commits, every verdict | the table implements `TaskLifecycle`; recorded commits are newer than the base |
| `orderly_lead` | 1 command, 1 task, trailers and dirty trees, fair daemon, commentator | commits and commentary are seen; what passed the gate is accepted; only a verdict that comes between the daemon's look and its write ends the daemon |
| `one_daemon` | 2 daemons one after the other, 2 leads, kills and stops, 4 ticks, 2 tasks, 2 waits | one live lead, which stays followed once it is; the limit is recorded once and is seen; a stop is heeded and ends the daemon; a daemon that is gone is told of; the time summary adds up |
| `stall` | 2 launches or restarts, both sorts of agent, 3 lines, 2 ticks | one nudge per stall and one compaction in a daemon's life, and a stall is noticed |
| `poll` | 2 commentators, 1 task and the whole run, 3 observations, 2 findings, lost answers | nothing omitted, nothing repeated, verdicts final, everything reaches the lead and every verdict the commentators, who never hold another |
| `prompts` | 2 commands, one with `--wait`, a Claude and a Cursor session, kills, lost prompts | a prompt reported taken arrived, none arrives twice, the answer is its own turn's or a later one's, every command ends |
| `launches` | 2 launchers, 2 implementers and the commentator, 3 agents, both runtimes, another project | flags fit the agent, a lone launch has its own agent's id, the registry keeps it |
| `transcripts` | each agent, each reader, 5 lines (3 for the daemon), 2 tasks, contexts up to 2 | a prompt is found exactly when written, calibrations are the task's own peak, growth is told |
| `gate_after_remedy`, `launch_race` | the smallest instance each | the two disagreements below |

Deadlock is checked where the system goes on for ever, and not where it may
stop: a run ends with every task judged or every bound reached and nothing left
to type.

### Bounds

Tasks, sessions and commits are bounded by the sets of ids. An agent in
`Coordinator` whose transcript reached `MaxLines` takes no more prompts and
writes no more text (a commit it owes is still shown); `MaxLate` bounds the
prompts still to arrive. Two tasks are enough for every property that relates
tasks, two incarnations for every property about names, three commits for a
base, a task's commit and one that is neither; two commands for every race
between a check and a write, as each race has one reader and one writer.
`Procs` and `Launchers` are interchangeable, so runs with two that check no
liveness use the symmetry. `DaemonRun` counts events up to `MaxEvents`, two of
them being one too many. In `Watchkeeping` four ticks are a limit of one tick
passed twice; two tasks are one before the other, two waits likewise. In
`SessionWatch`, `MaxStarts` counts launches and restarts together: two are a
launch beside a snapshot, or a restarted daemon; `MaxSize` leaves room for a
prompt shown between two lines, and two ticks with `Stale` 0 let a session go
quiet, grow and go quiet again. Three observations are one the lead has, one
being written and one after it. `PromptDelivery` begins no prompt to a session
that shows `MaxLines` prompts. Three agents are two of one name and one in the
way, or two launches and a stranger. In `Transcripts`, `Window` (50 lines in the
code) is 2, so that a usage may lie before it; five lines hold a prompt before and
after an offset with replies and a `turn_ended` between them.

### Fairness

* `Coordinator`, `SessionWatch`: `WF(DaemonStep)`. The daemon is a loop that
  sleeps one poll interval and waits for nothing without a timeout; SQLite's busy
  timeout is far longer than any transaction.
* `Watchkeeping` (`WatchFairSpec`): the same for each daemon that is up.
* `Reconciling` (`ReviewFairSpec`): a command that was started ends (`WF` of its
  commit, of `EndResolve`, and of an answer being read or lost). The lead polls
  the run as long as it lasts (`SF(Poll(0))`), which is what its procedure asks
  of it, and not every answer is lost (`SF(Receive(0))`). Without the second, a
  lead that never reads an answer learns nothing, whatever the code does.
  Commentators run `resolutions` "regularly while watching" (`WF(Reconcile)`).
* `Waiting` (`WaitFairSpec`): a command that runs goes on to its deadline (`WF`),
  the waiters of a file lock are let in in turn (`SF(TakeLock)`), and the moments
  Orca and the agent take are over sometime (`WF` of `Notice` and `LastWord`).
* `Transcripts`: a watch that is up looks again and again (`WF(Look)`).

Nothing is assumed of the lead's other commands, the agents or the commentator.

## Findings

* `gate_after_remedy`: after `task record-commit --force --reason R`, the gate
  passes its checks and then fails to write, as it records the commit again
  without the reason.
* `launch_race`: a session launched between a poll's timestamp and its snapshot
  gets a growth mark older than its start; the row fails an assertion as it is
  read back and the error ends the daemon.

What the models also show, and no run is spent on:

* two dispatches at once bind one session to two tasks, and two tasks fly
  (`one_lead_dispatches` with two `Procs`): `cmd_dispatch` does not look again
  in the transaction that writes;
* a task superseded by `--retry-of` while its prompt arrives late is worked on
  although it was aborted;
* an `accept` or an `abort` that commits between the daemon's look and its write
  ends the daemon (`DaemonSurvives` says when, and that nothing else does);
* of two daemons that overlap, the one that starts withdraws a stop meant for
  the other, and each may record the lead's limit (`one_daemon` with `Overlap`);
* a lead that registers, is followed and comes back is refused, as its id is in
  the table already;
* a restarted daemon has forgotten the sizes and takes every transcript as grown,
  which re-arms the nudge: `PromptedOnce` therefore counts in one daemon's life,
  while `domain/session.rs:271` says "not again until the transcript has grown";
* what an agent that shows prompts with its reply writes between the reading and
  the nudge is growth at the next poll, and re-arms it as well;
* a busy Codex session queues a prompt without showing it and is sent the same
  prompt up to three times, each of which it takes: `agent.rs:36` says one unseen
  "was lost, and can be sent again" (`TakenOnce` fails with a session in `Codex`);
* the id of a session that names itself is read from the transcript of its kind
  modified last since the launch, where `agent.rs:61` speaks of the newest session
  started: after a launch that failed, its agent may be busy and is taken for the
  next one's, or the insert fails on the unique id (`IdsAreOwn` asks for no
  `Orphans`);
* two launches at once share Orca's one `.json.tmp` and may lose each other's
  entry, or one of them fails at the rename with its agent running
  (`SessionsStayKnown` asks for a launch that was alone);
* `{ args = .. }` under `implementer` and a second flag for `implementer.args` are
  different keys to the check of `settings.rs:191`, so their order does matter
  (`SetsLayer`);
* a task whose context shrank cannot be calibrated, nor can one the daemon's
  reading was blind to (usage further back than 50 lines reads as 0);
* a task's part of the transcript ends where the next task *by id* begins, so
  tasks dispatched out of that order are measured wrongly (`InOrder`);
* two `human-wait start` at once open two waits; `end` closes both and the summary
  counts the time twice.

Two things read from the code and outside these models: projects whose paths
differ only in the characters an agent munges (`a.b`, `a-b`) have one transcript
directory, although `cursor.rs:192` says another project's session "must not be
taken for it"; and a daemon stamps the run only at the top of a poll, so one that
waits for prompts may be reported silent while it is up (`coordinator.rs:38`).

## What is proved

For every value of the constants that the assumptions allow:

| module | theorem | |
|---|---|---|
| `CoordinatorProofs` | `TypeCorrect` | `Spec => []TypeOK` |
| | `RetriesFollowAborts` | `Spec => []RetryOfAborted` |
| | `CommitsAreNew` | `Spec => []CommitAfterBase` |
| | `LifecycleIsKept` | `Spec => KeepsLifecycle`: the task table implements `TaskLifecycle` |
| | `DeliveriesWereReviewed` | without `record-commentary`, `Spec => []DeliveredMeansReviewed` |
| | `GateVerdictsStand` | without `record-commit`, `Spec => GateVerdictStands` |
| | `VerdictsAloneEndTheDaemon` | without `record-commit` and kills, `Spec => DaemonSurvives` |
| `OneLeadProofs` | `OneTaskFlies`, `ImplementersAreFresh`, `DispatchesWereTaken`, `CreditIsUnique` | one command at a time: `Spec => []SingleFlight`, `[]FreshImplementer`, `[]DispatchedMeansTaken`, `[]CommitCreditedOnce` |
| | `AbortsAreHeard` | and without kills, `Spec => []AbortIsHeard` |
| `DaemonRunProofs` | `TypeCorrect` | `Spec => []TypeOK` |
| | `OneLead` | `Spec => []NewestLeadLives`, overlapping daemons or not |
| | `LimitOnce` | without overlap, `Spec => []OverLimitOnce` |
| | `StopHeeded` | without overlap, `Spec => StopIsHeeded` |
| | `FollowedStays` | `Spec => FollowedForGood`, overlapping or not |
| | `EventsOfOverlap` | for finitely many daemons, `Spec => []OverLimitEvents`, overlapping or not |
| | `ImplementsDaemonRun` | `WatchSpec => Spec` |
| | `SummaryAddsUp` | `WatchSpec => []TimesAddUp` |
| | `WatchTypeCorrect` | `WatchSpec => []WatchTypeOK` |
| | `AbsenceIsTold` | `WatchSpec => []DeadDaemonIsTold` |
| `SessionWatchProofs` | `TypeCorrect` | `Spec => []TypeOK` |
| | `OnceIsEnough` | `Spec => []PromptedOnce` |
| | `RowsStayReadable` | `Spec => []RowsReadBack` |
| | `OnlyALaunchEndsTheDaemon` | `Spec => []LaunchedMeanwhile` |
| `ReviewLogProofs` | `TypeCorrect` | `Spec => []TypeOK` |
| | `NoObservationOmitted`, `NoObservationRepeated` | `Spec => []NoneOmitted`, `Spec => []NoneRepeated` |
| | `VerdictsFinal` | `Spec => VerdictsAreFinal` |
| | `ImplementsReviewLog` | `ReviewSpec => Spec` |
| | `ClosedForGood` | `ReviewSpec => []ClosedAsDecided` |
| `PromptDeliveryProofs` | `TypeCorrect` | `Spec => []TypeOK` |
| | `TakenMeansArrived` | `Spec => []SeenMeansTaken` |
| | `ArrivesOnceOutsideCodex` | what `TakenOnce` says, of every prompt to a session that does not run Codex |
| | `ArrivesOnce` | so, without Codex, `Spec => []TakenOnce` |
| | `LockIsNeverLeft` | `Spec => []LockIsItsHolders` |
| | `ImplementsPromptDelivery` | `WaitSpec => Spec` |
| | `WaitTypeCorrect` | `WaitSpec => []WaitTypeOK` |
| | `AnswersFollowPromptsOutsideCodex` | what `AnswersAreOwn` says, of every wait on a session that does not run Codex |
| | `AnswersFollowPrompts` | so, without Codex, `WaitSpec => []AnswersAreOwn` |
| `LaunchingProofs` | `TypeCorrect` | `Spec => []TypeOK` |
| | `FlagsAlwaysFit` | `Spec => []FlagsAreForTheAgent` |
| | `FlagsFitWhenWritten` | of any four layers, each written for the agent it leads to: `FlagsFit` of what they come to |
| | `SetsInAnyOrder` | `--set` flags that do not contradict each other come to the same layer in any order |
| | `UppermostLayerDecides` | whatever four layers say: the agent is the uppermost's that names one, the flags the uppermost's that says anything |
| | `SessionsAreKnown` | `Spec => []SessionsStayKnown` |
| | `IdsAreTheirOwn` | `Spec => []IdsAreOwn` |
| `TranscriptsProofs` | `TypeCorrect` | `Spec => []TypeOK` |
| | `PromptsRecognised` | `Spec => []PromptsAreRecognised` |
| | `CalibrationsAreTheirOwn` | `Spec => []CalibrationsFit` |

Each argument is an inductive invariant, checked by TLC on its run before it was
proved: `IInv` of a module, and beside it `OInv` for a lead that gives one command
at a time, `EventsInv` for daemons that overlap, `RaceInv` for launches beside a
poll, `LInv` for the ids of launches, `WaitInv` for waits, `StampedWhileUp` for the
clock and `TimesInv` for the times of tasks and waits. A proof module has the invariant first, then one
lemma per action or group of actions, and the theorems as consequences.

*Coordinator.* The writes come long after the reads that justify them, so `IInv`
says what each process may still rely on: the task it names exists
(`Placed`, `DaemonBound`), a task it aborted stays aborted (so the retry it
is about to insert is legitimate), the commit it is about to record is beyond a
base that can no longer change (`RowBound`), and commentary it is about to record
was given on a commit that stands (`DeliveryBound`). That these facts survive every
other process's writes is `TasksStepKeeps`, which rests on the lemmas about
`TaskStore` the module begins with: every transition of the store yields a row that
`Continues` the one it was (same predecessor, terminal states kept, base and session
fixed once dispatched).
`Continues` is also what `TaskLifecycle` promises of a row, so its refinement
follows row by row (`StepsArePromised`). The gate and the daemon write what they
checked earlier, and the write fails where the code's transition returns an error:
`GateCannotFail` shows that no row to which the gate's verdict still applies makes
its write fail, and the lemmas of `TaskStore` the same of each transition the daemon
asks for, unless a verdict came between.

`record-commit` is left out of the last two because with it they are false: it is
the disagreement `gate_after_remedy` shows, and a remedy may change the commit that
the daemon is about to record. `record-commentary` marks what it is told to mark,
whatever was reviewed. Kills are left out of `VerdictsAloneEndTheDaemon` because a
daemon that is killed ends as well.

*One command at a time* (`OneLead == \A p, q \in Procs : p = q`). Here a reader may
rely on more: nobody but the daemon writes between a command's check and its write,
and the daemon dispatches nothing. `Held` says what the command has read and still
finds so (nothing flies, its session is not bound, its prompt is in the transcript
past the offset, its candidate is credited to no other task), and `Settled` the five
properties and what their induction needs: commits that exist (`LinesAreMade`), and
that a task which no longer flies was credited before the base of any that does
(`CreditedBefore`). It is proved beside `IInv`, and no assumption is made on
crashes, late prompts or outside work, but for `AbortIsHeard`: a command killed
between its abort and its prompt tells nobody.

*DaemonRun.* A daemon holds the position of a row it read in an earlier
transaction. Rows are only appended and only lose their life, so the row is
there still (`RowIsThere`), and no two rows are one lead's (`OneRowPerLead`).
For the two theorems without overlap, `Alone` adds that one daemon is up, that
what it read of the latch is still so (`LatchIsFresh`), and that a request made
of it stands (`RequestStands`). With overlap both fail: the assumption is needed. What overlap
leaves of the first is `EventsOfOverlap`: `observe_lead` latches what it read a
transaction ago, so each daemon that had read the row may still record the limit,
and no other (`LatchersAre`). `EventsBound` counts them with the events there are,
which no step adds to: a daemon that latches is one fewer that may, and one that
reads anew finds the row latched, or no event yet. `FollowedForGood` is not
`NewestLeadLives` over time, which a lead that came back would not break; it
rests on the row that stays behind (`OneRowPerLead`).
`StampedWhileUp` adds the clock: the stamp is never younger than the last moment a
daemon was in its loop.

*Watchkeeping's sums.* `Total` is a recursive function, and no induction theorem
can be used here that takes a predicate. Its existence and uniqueness are shown by
a first counterexample instead: a set of numbers where two such functions differ,
or one cannot be continued, has a least element. A tick then adds at most one to
`Busy`, since one task is out at a time and the others' times are over, and at most
one to `Human`, since one wait is open; everything else adds nothing. `TimesInv` says
that: one task is out and one wait open at most, none is open while a start is about to
insert, and nothing ends before it began. That is so of a lead that gives one command
at a time; two starts at once are outside the module, and the sum would be wrong.

*SessionWatch.* A session may be launched anew between any two steps of a poll.
`NudgeKept` says of a session that was nudged and has not grown since that its row
is marked and that the daemon knows the size it was nudged at, and
`CompactionKept` of one that was asked to compact that the daemon remembers it.
Both hold because of `PromptedRow`: while the session's row is live no poll is of
another one, so nothing the daemon keeps by name is overwritten with another
session's.

`RaceInv` is of the other thing a launch may do: come between the time a poll takes
and its snapshot, so that the row it reads is younger than the reading.
`record_reading` reads the row back in its own transaction, so the reading is rolled
back and the table keeps its rows readable (`RowsReadBack`), and the daemon is gone.
That this is the one way it goes is `OnlyALaunchEndsTheDaemon`: in every other
reading the growth mark is the poll's time, or one that could be read before.

*ReviewLog.* The invariant's heart is `NewIsLast`: an id that is not committed is
past every committed one, because ids are given under the lock that commits
them. `CursorIsCommitted` then keeps every cursor behind it, `AnswerIsWhole`
says the same of an answer on its way, and `NoneOmitted` follows. For verdicts it
is `VerdictFits`, and that findings known to the lead exist. `VerdictsStay`, the
step of `VerdictsFinal`, is also why a commentator that closed a finding need not
look again.

*PromptDelivery.* `LockHeld` keeps every other sender out between the look at a
session and the last look for its prompt. With it, a session found idle is idle
until the prompt arrives (`IdleUntilSent`), and a text that did not arrive is
nowhere in any session nor in the transcript past the offset (`NowhereYet`); so
neither way of telling can be taken in. `ShownOnceSent` adds, of a prompt whose
session does not run Codex, that what arrived is shown, and is not sent again. The
condition is on the one session: what the others run does not matter. `LockIsItsHolders` is `LockHeld`
in both directions, and needs all of the command's steps: whichever way it ends,
the lock goes with it.

*Waiting.* `Follows` says of a command that waits that its prompt is still to come
or its turn has begun, and that once that turn is over the session's last word is
its own or a later turn's, or is still owed. Again outside Codex only, because a
text that is sent again forgets which turn an earlier copy of it began.

*Launching.* `LayOverFits` is the step: a layer whose flags were written for the
agent it leads to keeps the flags fitting, because `lay_over` drops the flags
below a layer that names an agent. `IInv` carries it from `Loaded` through the
launch to the agent; nothing is assumed of the `--set` flags but that they were
written so. `UppermostLayerDecides` says which layer decides, for every four
layers and not only those that fit: each `lay_over` passes on what it covers with
nothing, and drops the flags below an agent. `SetsInAnyOrder` is what
`settings.rs:191` says of the `--set` flags, as far as it is so: `SetsLayer` is a
loop like `Total`, and by the same argument each key is that of the last set that has
one (`SetsDecide`), which is any set that has one if they agree. `TypeInv` adds to `LInv` that
every terminal and id a launch holds is of an agent there is, and that launches
yet to open their terminal have `Room`. `LInv` follows a launch from its terminal to its row: one that is alone
so far finds every other at rest (`AloneIsAlone`), no two opened the same terminal
(`SessionsApart`), no row is of its agent yet (`LauncherBound`), and the registry, or
the file that is about to replace it, has no entry older than a row's (`RowsBound`,
`RegistryBound`). That an id
which is not in the table is the launch's own is a counting argument: as many rows
as agents, all with different ids, leave one agent out. Herdr's newest session of
a name exists because a set of numbers below a bound has a greatest.

*Transcripts.* `LinesInv` says what transcripts there are: only Cursor's has a line
that ends a turn, it is the last, and no other line moves. `SentInv` ties the prompt
sent last to the entries past its offset; each write adds its own entry to them once
it is there to its end, and for Cursor the line before the offset that is written
anew is never a prompt's. `TasksInv` cuts the responses by the tasks' offsets:
`Before` a task, its `Period`, and those `Begun` since, which also count one that was
half written as the task was dispatched. A context that did not shrink is at no
response of `Begun` below what the task began with (`SteadyIs`), the peak of the
period is what the task held (`HeldIs`), and the session's maximum, which the daemon
reads before it sees the commit, is past the start (`MaxIsPast`), so a calibration
that finds no usage of the task's own fits as well. The part that
`cmd_calibrate` measures is the period as long as offsets follow ids (`PeriodIs`).

Assumptions: the constants' types and names distinct from the nulls
(`ConstantsAssumption` of each module, `SettingsAssumption`, `LaunchingAssumption`,
`WatchkeepingAssumption`, `WaitersAssumption`, `ReasonsAssumption`,
`TranscriptsAssumption`), and those
stated: `~Overlap` (`LimitOnce`, `StopHeeded`), finitely many daemons
(`EventsOfOverlap`), `Codex = {}` (the two that follow from theorems without it),
`OneLead`, `Crashes = FALSE`, and commands left out of `Commands`. `Spec` is without
fairness throughout.

Only model-checked:

* everything under fairness, which is out of the prover's reach: `WorkIsSeen`,
  `StopEndsDaemons`, `OverLimitIsSeen`, `ReviewsComeAcross`, `CommandsEnd`,
  `StallIsNoticed` and `GrowthIsTold`;
* the fold that bounds a transcript's size in `SessionWatch` (its `TypeOK` has `Nat`;
  the runs bound it).

The types of `ReviewLog`, `DaemonRun`, `Watchkeeping`, `PromptDelivery`, `Waiting` and
`Launching` are proved and no run repeats them.

## What is not modelled

* The command line, the opening and versioning of the database and the lists that
  `state` and `context` print: they parse, open or print.
* The journal of run events, except where a step or a property depends on an
  entry (the outcome of an abort, the lead's limit).
* The spelling of transcripts and of commits in them: `Transcripts` and
  `Coordinator` have entries, not JSON.
* Herdr's own wait, and a terminal that goes away while a command waits for it.
* A name launched again while it is prompted, and prompts that share their first
  80 characters.
* Of settings: TOML, unknown keys, and the prompt timeout.
* The copy of the supervisor under `skills/`: `scripts/release.sh` copies `src/src`
  there, byte for byte but for its tests, so each definition stands for the copied
  lines as well.

## Plan

Done: the task lifecycle and its commands, the daemon's life and its warnings, the
session watch, the review log in both directions, prompts with and without
`--wait`, launches and settings, transcripts and calibrations; and the proofs
above. Left, most important first:

1. `AnswersAreOwn` with Codex, which needs a ghost for each copy of a text.
2. A name launched again while it is prompted: `Launching` with `PromptDelivery`.
