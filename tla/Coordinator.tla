----------------------------- MODULE Coordinator -----------------------------
(***************************************************************************)
(* A run: the lead's commands and the daemon, over one task table, one     *)
(* session table, one git repository and the implementers' transcripts     *)
(* (src/coordinator.rs).                                                   *)
(*                                                                         *)
(* Every command is a process of its own.  It reads the database in one or *)
(* more deferred transactions, talks to git and to the sessions outside of *)
(* any, and writes in a short immediate transaction; whatever it carries   *)
(* from one of these to the next is in cli[p] and may be stale when used.  *)
(* One action is one of those accesses.  A command that is refused on what *)
(* it read simply ends, so a first check that fails has no action.         *)
(*                                                                         *)
(* Implementers are the environment: an LLM in a terminal that may take a  *)
(* prompt late or never, writes its transcript, and commits.               *)
(***************************************************************************)
EXTENDS TaskStore, FiniteSets

CONSTANTS
  Procs,         \* the lead's commands that may be running at one time
  Names,         \* names implementers are launched under
  HeadOnly,      \* those whose agent's transcript shows no commits (Cursor)
  Commands,      \* the commands the lead uses in this run
  Commentator,   \* whether a commentator was started
  Crashes,       \* whether a process may be killed between two steps
  OutsideWork,   \* whether the lead or the human also commit
  Messy,         \* whether implementers dirty the tree or sign their commits
  MaxTasks, MaxSessions, MaxCommits,
  MaxLines,      \* an agent whose transcript is this long takes no more prompts
  MaxLate        \* prompts that may still arrive at one time

AllCommands == {"launch", "new", "retry", "dispatch", "abort", "accept",
                "accept --force", "record-commit", "record-commentary"}

ASSUME ConstantsAssumption ==
  /\ HeadOnly \subseteq Names /\ "no session" \notin Names
  /\ Commands \subseteq AllCommands
  /\ Commentator \in BOOLEAN /\ Crashes \in BOOLEAN
  /\ OutsideWork \in BOOLEAN /\ Messy \in BOOLEAN
  /\ MaxTasks \in Nat /\ MaxSessions \in Nat /\ MaxCommits \in Nat \ {0}
  /\ MaxLines \in Nat /\ MaxLate \in Nat

TaskId == 1..MaxTasks
SessionId == 1..MaxSessions     \* rows of the sessions table
Agent == 1..MaxSessions         \* agents the runtime started, by external id
Commit == 1..MaxCommits         \* commits in the order HEAD took them

VARIABLES
  tasks,      \* [TaskId -> Row]: the tasks table with its events
  sessions,   \* [SessionId -> SessionRow]: the implementers' rows
  runlog,     \* tasks with an AbortInterrupt or AbortUnreachable run event;
              \* the other run events are narration no step reads
  runtime,    \* [Names -> the agent that answers to the name, or 0]
  agents,     \* [Agent -> AgentState]: the implementers and their transcripts
  git,        \* the repository
  late,       \* <<agent, task>>: prompts given up on that may still arrive
  mentioned,  \* commits the commentator's transcript mentions
  cli,        \* [Procs -> Command]: what each of the lead's commands is doing
  daemon      \* what the daemon is doing

database == <<tasks, sessions, runlog>>
world == <<runtime, agents, git, late, mentioned>>
vars == <<database, world, cli, daemon>>

-----------------------------------------------------------------------------
SessionRow == [name : Names \cup {"no session"}, agent : Agent \cup {0}, live : BOOLEAN]

NoSession == [name |-> "no session", agent |-> 0, live |-> FALSE]

\* A transcript line shows a task's prompt, a commit in git's own output, or
\* neither.
Line == [task : TaskId \cup {0}, commit : Commit \cup {0}]

PromptLine(t) == [task |-> t, commit |-> 0]
CommitLine(c) == [task |-> 0, commit |-> c]
TextLine == [task |-> 0, commit |-> 0]

\* owed: a commit made and not yet shown.  work: the task being worked on.
AgentState == [name : Names \cup {"no session"}, lines : Seq(Line),
               owed : Commit \cup {0}, work : TaskId \cup {0}]

NoAgent == [name |-> "no session", lines |-> <<>>, owed |-> 0, work |-> 0]

\* The branch is linear: commit c is an ancestor of commit d when c <= d.
\* trailers: the commits whose message carries an attribution trailer.
Git == [head : Commit, dirty : BOOLEAN, trailers : SUBSET Commit]

\* task: the task the command names.  session, offset, base, sha: what it read.
\* superseding: an abort on behalf of task new --retry-of.
Command == [pc : {"idle",
                  "launching",
                  "check flying", "find session", "check prior", "read offset",
                  "read base", "prompt", "write dispatch",
                  "abort", "write abort", "interrupt", "create",
                  "gate", "look again", "write accept",
                  "write forced accept", "write forced commit",
                  "write forced commentary"},
            task : TaskId \cup {0}, session : SessionId \cup {0},
            agent : Agent \cup {0}, offset : Nat, base : Commit \cup {0},
            sha : Commit \cup {0}, superseding : BOOLEAN]

Idle == [pc |-> "idle", task |-> 0, session |-> 0, agent |-> 0, offset |-> 0,
         base |-> 0, sha |-> 0, superseding |-> FALSE]

\* queue: live rows of this poll's snapshot still to visit.  0 is the
\* commentator.  pending: tasks awaiting commentary in the snapshot still to
\* handle; asked: those of them whose commentary was requested already.
Daemon == [pc : {"dead", "visit", "write flight", "write commit",
                 "commentary", "write delivery", "write request"},
           queue : SUBSET (SessionId \cup {0}), task : TaskId \cup {0},
           sha : Commit \cup {0}, pending : SUBSET TaskId, asked : SUBSET TaskId]

Watching == [pc |-> "visit", queue |-> {}, task |-> 0, sha |-> 0,
            pending |-> {}, asked |-> {}]

TypeOK ==
  /\ tasks \in [TaskId -> Row]
  /\ sessions \in [SessionId -> SessionRow]
  /\ runlog \subseteq TaskId
  /\ runtime \in [Names -> Agent \cup {0}]
  /\ agents \in [Agent -> AgentState]
  /\ git \in Git
  /\ late \subseteq Agent \X TaskId
  /\ mentioned \subseteq Commit
  /\ cli \in [Procs -> Command]
  /\ daemon \in Daemon

-----------------------------------------------------------------------------
Init ==
  /\ tasks = [t \in TaskId |-> NoRow]
  /\ sessions = [s \in SessionId |-> NoSession]
  /\ runlog = {}
  /\ runtime = [n \in Names |-> 0]
  /\ agents = [e \in Agent |-> NoAgent]
  /\ git = [head |-> 1, dirty |-> FALSE, trailers |-> {}]
  /\ late = {}
  /\ mentioned = {}
  /\ cli = [p \in Procs |-> Idle]
  /\ daemon = Watching

-----------------------------------------------------------------------------
(* What the commands read. *)

IsFree(t) == ~Exists(tasks[t]) /\ \A u \in TaskId : u < t => Exists(tasks[u])

InState(t, states) == Exists(tasks[t]) /\ StateOf(tasks[t]) \in states

\* Slip: only what the daemon has seen taken counts as flying.
OnlyInFlight(t) == InState(t, {"in_flight"})

IsFlying(t) == InState(t, Flying)

Incarnations(n) == {s \in SessionId : sessions[s].name = n}

\* The newest row of a name, live or not.
IsLatest(s, n) == s \in Incarnations(n) /\ \A r \in Incarnations(n) : r <= s

Transcript(s) == agents[sessions[s].agent].lines

TasksOf(s) == {t \in TaskId : Exists(tasks[t]) /\ tasks[t].session = s}

\* Slip: an aborted task does not use its session up.
PriorUnlessAborted(s) == {t \in TasksOf(s) : StateOf(tasks[t]) \notin {"drafted", "aborted"}}

\* last_task_on: what a session has been given.
PriorTasks(s) == {t \in TasksOf(s) : StateOf(tasks[t]) # "drafted"}

\* Slip: a task whose prompt the daemon has not seen taken has nobody to tell.
SessionInFlight(t) == IF InState(t, {"in_flight"}) THEN tasks[t].session ELSE 0

\* The session an abort interrupts.
SessionToTell(t) == tasks[t].session

\* Slip: the base itself is taken for a descendant of the base.
NotOlderCommit(sha, row) ==
  /\ row.session # 0 /\ row.base # 0
  /\ sha >= row.base
  /\ Transcript(row.session) # <<>>
  /\ IF sessions[row.session].name \in HeadOnly
     THEN sha = git.head
     ELSE LET lines == Transcript(row.session)
              Since == (row.offset + 1)..Len(lines)
          IN \E i \in Since :
               /\ lines[i].commit = sha
               /\ \A j \in Since : j > i => lines[j].commit < row.base

\* Slip: a commit counts only while HEAD is still there.
IsShownHead(sha, row) ==
  /\ row.session # 0 /\ row.base # 0
  /\ sha > row.base /\ sha = git.head
  /\ \E i \in (row.offset + 1)..Len(Transcript(row.session)) :
       Transcript(row.session)[i].commit = sha

\* sha is what new_commit_for makes of the candidates of the row's agent: the
\* last one of the transcript past the dispatch offset that is a proper
\* descendant of the base, or HEAD for an agent that shows none.
IsNewCommit(sha, row) ==
  /\ row.session # 0 /\ row.base # 0
  /\ sha > row.base
  /\ Transcript(row.session) # <<>>
  /\ IF sessions[row.session].name \in HeadOnly
     THEN sha = git.head
     ELSE LET lines == Transcript(row.session)
              Since == (row.offset + 1)..Len(lines)
          IN \E i \in Since :
               /\ lines[i].commit = sha
               /\ \A j \in Since : j > i => lines[j].commit <= row.base

NoNewCommit(row) == \A c \in Commit : ~IsNewCommit(c, row)

-----------------------------------------------------------------------------
(* Writing. *)

Goto(p, command) == cli' = [cli EXCEPT ![p] = command]

Done(p) == Goto(p, Idle)

SetTask(t, row) == tasks' = [tasks EXCEPT ![t] = row]

\* A command that is refused ends; its open transaction, if any, is rolled back.
Refused(p) == Done(p) /\ UNCHANGED <<database, world, daemon>>

\* The transaction a command ends with: one of the outcomes, or refused.
Transacts(p, t, outcomes) ==
  \/ /\ \E row \in outcomes : SetTask(t, row)
     /\ Done(p)
     /\ UNCHANGED <<sessions, runlog, world, daemon>>
  \/ outcomes = {} /\ Refused(p)

\* A read, or anything else that only moves the command along.
ReadsOn(p, command) == Goto(p, command) /\ UNCHANGED <<database, world, daemon>>

Starts(p, command) == command \in Commands /\ cli[p].pc = "idle"

-----------------------------------------------------------------------------
(* launch: the runtime starts an agent, then its row is written. *)

StartAgent(p, n) ==
  /\ Starts(p, "launch")
  /\ \E e \in Agent :
       /\ agents[e].name = "no session"
       /\ \A d \in Agent : d < e => agents[d].name # "no session"
       /\ agents' = [agents EXCEPT ![e].name = n]
       /\ runtime' = [runtime EXCEPT ![n] = e]
       /\ Goto(p, [Idle EXCEPT !.pc = "launching", !.agent = e])
  /\ UNCHANGED <<database, git, late, mentioned, daemon>>

WriteLaunch(p) ==
  /\ cli[p].pc = "launching"
  /\ \E s \in SessionId :
       LET name == agents[cli[p].agent].name IN
       /\ sessions[s] = NoSession
       /\ \A r \in SessionId : r < s => sessions[r] # NoSession
       /\ sessions' = [r \in SessionId |->
            IF r = s THEN [name |-> name, agent |-> cli[p].agent, live |-> TRUE]
            ELSE [sessions[r] EXCEPT !.live = @ /\ sessions[r].name # name]]
  /\ Done(p)
  /\ UNCHANGED <<tasks, runlog, world, daemon>>

-----------------------------------------------------------------------------
(* task new *)

New(p) ==
  /\ Starts(p, "new")
  /\ \E t \in TaskId : IsFree(t) /\ \E row \in Create(t, 0) : SetTask(t, row)
  /\ UNCHANGED <<sessions, runlog, world, cli, daemon>>

\* Slip: any predecessor task new accepts is taken for aborted.
RetryAsAborted(p, t) ==
  /\ Starts(p, "retry")
  /\ InState(t, Flying \cup {"aborted"})
  /\ ReadsOn(p, [Idle EXCEPT !.pc = "create", !.task = t, !.superseding = TRUE])

\* --retry-of: an active predecessor is superseded, an aborted one is not
\* touched, and one in any other state is refused.
Retry(p, t) ==
  /\ Starts(p, "retry")
  /\ \/ /\ InState(t, Flying)
        /\ ReadsOn(p, [Idle EXCEPT !.pc = "abort", !.task = t, !.superseding = TRUE])
     \/ /\ InState(t, {"aborted"})
        /\ ReadsOn(p, [Idle EXCEPT !.pc = "create", !.task = t, !.superseding = TRUE])

\* The replacement, unless the insert is refused (a file named twice).
CreateRetry(p) ==
  /\ cli[p].pc = "create"
  /\ \/ /\ \E t \in TaskId :
             IsFree(t) /\ \E row \in Create(t, cli[p].task) : SetTask(t, row)
        /\ Done(p)
        /\ UNCHANGED <<sessions, runlog, world, daemon>>
     \/ Refused(p)

-----------------------------------------------------------------------------
(* abort, by itself or on behalf of a retry *)

AbortSnapshot(p, t, superseding) ==
  /\ InState(t, TaskState \ Terminal)
  /\ ReadsOn(p, [Idle EXCEPT !.pc = "write abort", !.task = t,
                    !.session = SessionToTell(t), !.superseding = superseding])

AbortTask(p, t) == Starts(p, "abort") /\ AbortSnapshot(p, t, FALSE)

\* abort_task reads the predecessor again, and refuses only a terminal one.
Supersede(p) ==
  LET t == cli[p].task IN
  /\ cli[p].pc = "abort"
  /\ \/ AbortSnapshot(p, t, TRUE)
     \/ InState(t, Terminal) /\ Refused(p)

AfterAbort(p) ==
  Goto(p, IF cli[p].superseding
          THEN [Idle EXCEPT !.pc = "create", !.task = cli[p].task, !.superseding = TRUE]
          ELSE Idle)

WriteAbort(p) ==
  LET t == cli[p].task IN
  /\ cli[p].pc = "write abort"
  /\ \E reason \in Reasons :
       \/ /\ \E row \in Abort(t, tasks[t], reason) : SetTask(t, row)
          /\ IF cli[p].session # 0
             THEN Goto(p, [cli[p] EXCEPT !.pc = "interrupt"])
             ELSE AfterAbort(p)
          /\ UNCHANGED <<sessions, runlog, world, daemon>>
       \/ /\ Abort(t, tasks[t], reason) = {}
          /\ Refused(p)

\* Interrupt the session the snapshot named, if its row is live, and tell it.
\* Whatever answers to the name is interrupted; the message counts as read
\* only when it shows in the transcript of the row's own agent.
Interrupt(p) ==
  LET t == cli[p].task
      s == cli[p].session
      e == runtime[sessions[s].name]
  IN
  /\ cli[p].pc = "interrupt"
  /\ AfterAbort(p)
  /\ \/ /\ ~sessions[s].live
        /\ UNCHANGED <<runlog, agents>>
     \/ /\ sessions[s].live
        /\ e = sessions[s].agent
        /\ agents' = [agents EXCEPT ![e].work = 0, ![e].lines = Append(@, TextLine)]
        /\ runlog' = runlog \cup {t}
     \/ /\ sessions[s].live
        /\ \E work \in {0, agents[e].work} : agents' = [agents EXCEPT ![e].work = work]
        /\ runlog' = runlog \cup {t}
  /\ UNCHANGED <<tasks, sessions, runtime, git, late, mentioned, daemon>>

-----------------------------------------------------------------------------
(* dispatch *)

DispatchTask(p, t) ==
  /\ Starts(p, "dispatch")
  /\ InState(t, {"drafted"})
  /\ ReadsOn(p, [Idle EXCEPT !.pc = "check flying", !.task = t])

CheckFlying(p) ==
  /\ cli[p].pc = "check flying"
  /\ \/ /\ \A u \in TaskId : ~IsFlying(u)
        /\ ReadsOn(p, [cli[p] EXCEPT !.pc = "find session"])
     \/ /\ \E u \in TaskId : IsFlying(u)
        /\ Refused(p)

\* The lead names an implementer: its newest row must be live.
FindSession(p, n) ==
  /\ cli[p].pc = "find session"
  /\ \/ \E s \in SessionId :
          /\ IsLatest(s, n) /\ sessions[s].live
          /\ ReadsOn(p, [cli[p] EXCEPT !.pc = "check prior", !.session = s])
     \/ /\ \A s \in SessionId : IsLatest(s, n) => ~sessions[s].live
        /\ Refused(p)

\* Every task gets a fresh implementer.
CheckPrior(p) ==
  /\ cli[p].pc = "check prior"
  /\ \/ /\ PriorTasks(cli[p].session) = {}
        /\ ReadsOn(p, [cli[p] EXCEPT !.pc = "read offset"])
     \/ /\ PriorTasks(cli[p].session) # {}
        /\ Refused(p)

\* Slip: the offset counts from the last line instead of past it.
ReadOffsetOfLast(p) ==
  /\ cli[p].pc = "read offset"
  /\ ReadsOn(p, [cli[p] EXCEPT !.pc = "read base",
                    !.offset = Len(Transcript(cli[p].session)) - 1])

ReadOffset(p) ==
  /\ cli[p].pc = "read offset"
  /\ ReadsOn(p, [cli[p] EXCEPT !.pc = "read base",
                    !.offset = Len(Transcript(cli[p].session))])

ReadBase(p) ==
  /\ cli[p].pc = "read base"
  /\ ReadsOn(p, [cli[p] EXCEPT !.pc = "prompt", !.base = git.head])

\* cmd_prompt, under its exclusive lock, as one step.  Whatever answers to the
\* name gets the prompt; it is taken when the newest row's own agent shows it,
\* or for an agent that shows it only with its reply, goes busy.  A prompt
\* given up on may be lost, or arrive later.
Prompt(p) ==
  LET t == cli[p].task
      n == sessions[cli[p].session].name
      e == runtime[n]
  IN
  /\ cli[p].pc = "prompt"
  /\ \/ /\ \E s \in SessionId : IsLatest(s, n) /\ sessions[s].agent = e
        /\ Len(agents[e].lines) < MaxLines
        /\ agents' = [agents EXCEPT ![e].work = t,
             ![e].lines = IF n \in HeadOnly THEN @ ELSE Append(@, PromptLine(t))]
        /\ Goto(p, [cli[p] EXCEPT !.pc = "write dispatch"])
        /\ UNCHANGED late
     \/ /\ late' \in {late, late \cup {<<e, t>>}} /\ Cardinality(late') <= MaxLate
        /\ Done(p)
        /\ UNCHANGED agents
  /\ UNCHANGED <<database, runtime, git, mentioned, daemon>>

\* Slip: the offset is taken when the row is written, after the prompt.
WriteDispatchOffset(p) ==
  LET t == cli[p].task
      s == cli[p].session
  IN
  /\ cli[p].pc = "write dispatch"
  /\ \/ \E reason \in Reasons \cup {NoReason} :
          Transacts(p, t, Dispatch(t, tasks[t], s, Len(Transcript(s)), cli[p].base, reason))
     \/ Refused(p)

\* A blank reason is refused by the event it would make, only now that the
\* prompt was taken.
WriteDispatch(p) ==
  LET t == cli[p].task IN
  /\ cli[p].pc = "write dispatch"
  /\ \/ \E reason \in Reasons \cup {NoReason} :
          Transacts(p, t, Dispatch(t, tasks[t], cli[p].session, cli[p].offset,
                                   cli[p].base, reason))
     \/ Refused(p)

-----------------------------------------------------------------------------
(* accept *)

\* The commit to judge: the recorded one, or else what new_commit_for finds.
\* None found while HEAD moved on cleanly past the base: look once more, as
\* the transcript may not show the commit yet.
AcceptTask(p, t) ==
  LET row == tasks[t]
      Judge(sha) == ReadsOn(p, [Idle EXCEPT !.pc = "gate", !.task = t, !.sha = sha])
  IN
  /\ Starts(p, "accept")
  /\ Exists(row)
  /\ \/ row.commit # 0 /\ Judge(row.commit)
     \/ row.commit = 0 /\ \E sha \in Commit : IsNewCommit(sha, row) /\ Judge(sha)
     \/ /\ row.commit = 0 /\ NoNewCommit(row)
        /\ row.base # 0 /\ git.head > row.base /\ ~git.dirty
        /\ ReadsOn(p, [Idle EXCEPT !.pc = "look again", !.task = t])

\* The second look uses the first one's snapshot, whose session, offset and
\* base are written once.
LookAgain(p) ==
  LET row == tasks[cli[p].task] IN
  /\ cli[p].pc = "look again"
  /\ \/ \E sha \in Commit :
          /\ IsNewCommit(sha, row)
          /\ ReadsOn(p, [cli[p] EXCEPT !.pc = "gate", !.sha = sha])
     \/ NoNewCommit(row) /\ Refused(p)

GatePasses(sha) == sha \notin git.trailers /\ sha = git.head /\ ~git.dirty

Gate(p) ==
  /\ cli[p].pc = "gate"
  /\ \/ /\ GatePasses(cli[p].sha)
        /\ ReadsOn(p, [cli[p] EXCEPT !.pc = "write accept"])
     \/ /\ ~GatePasses(cli[p].sha)
        /\ Refused(p)

\* One transaction records the commit, without a reason, and accepts.
GateOutcome(t, row, sha) ==
  UNION {Accept(t, recorded, GateReason) : recorded \in RecordCommit(t, row, sha, NoReason)}

WriteAccept(p) ==
  LET t == cli[p].task IN
  /\ cli[p].pc = "write accept"
  /\ Transacts(p, t, GateOutcome(t, tasks[t], cli[p].sha))

\* accept --force: no gate, only a commit already recorded.
ForceAccept(p, t) ==
  /\ Starts(p, "accept --force")
  /\ InState(t, {"committed_unverified"})
  /\ tasks[t].commit # 0
  /\ ReadsOn(p, [Idle EXCEPT !.pc = "write forced accept", !.task = t])

WriteForcedAccept(p) ==
  LET t == cli[p].task IN
  /\ cli[p].pc = "write forced accept"
  /\ \E reason \in Reasons : Transacts(p, t, Accept(t, tasks[t], reason))

-----------------------------------------------------------------------------
(* The coordinator remedies. *)

ForceCommit(p, t, sha) ==
  /\ Starts(p, "record-commit")
  /\ InState(t, Flying)
  /\ sha <= git.head
  /\ ReadsOn(p, [Idle EXCEPT !.pc = "write forced commit", !.task = t,
                    !.base = tasks[t].base, !.sha = sha])

\* Slip: the base may be recorded as the task's own commit.
MayRecordBase(t, sha, base) ==
  /\ \A u \in TaskId \ {t} : Exists(tasks[u]) => tasks[u].commit # sha
  /\ sha >= base

\* Checked in the transaction itself: no other task has the commit, and it is
\* new on top of the base the snapshot gave.
MayRecord(t, sha, base) ==
  /\ \A u \in TaskId \ {t} : Exists(tasks[u]) => tasks[u].commit # sha
  /\ sha > base

WriteForcedCommit(p) ==
  LET t == cli[p].task
      sha == cli[p].sha
  IN
  /\ cli[p].pc = "write forced commit"
  /\ \E reason \in Reasons :
       Transacts(p, t, {row \in RecordCommit(t, tasks[t], sha, reason) :
                            MayRecord(t, sha, cli[p].base)})

ForceCommentary(p, t) ==
  /\ Starts(p, "record-commentary")
  /\ Exists(tasks[t]) /\ ReadyForCommentary(tasks[t])
  /\ ReadsOn(p, [Idle EXCEPT !.pc = "write forced commentary", !.task = t])

WriteForcedCommentary(p) ==
  LET t == cli[p].task IN
  /\ cli[p].pc = "write forced commentary"
  /\ Transacts(p, t, {row \in RecordDelivery(tasks[t]) : ~tasks[t].delivered})

-----------------------------------------------------------------------------
(* The daemon's poll. *)

Observes(next) == daemon' = next /\ UNCHANGED <<database, world, cli>>

Visiting == [daemon EXCEPT !.pc = "visit", !.task = 0, !.sha = 0,
               !.pending = {}, !.asked = {}]

Reviewing == [daemon EXCEPT !.pc = "commentary", !.task = 0]

Dies == Observes([Watching EXCEPT !.pc = "dead"])

\* An error in a transaction ends the daemon.
DaemonTransacts(outcomes, next) ==
  \/ /\ \E row \in outcomes : SetTask(daemon.task, row)
     /\ daemon' = next
     /\ UNCHANGED <<sessions, runlog, world, cli>>
  \/ outcomes = {} /\ Dies

\* Between polls there is nothing left to visit.
DaemonPoll ==
  /\ daemon = Watching
  /\ Observes([Watching EXCEPT !.queue =
                 {s \in SessionId : sessions[s].live}
                 \cup (IF Commentator THEN {0} ELSE {})])

\* observe_implementer: the newest task flying on the session.  Its dispatch is
\* seen taken once the transcript grows past the offset; in flight, once a new
\* commit shows.
DaemonVisit(s) ==
  LET flying == {t \in TasksOf(s) : StateOf(tasks[t]) \in Flying}
      rest == [daemon EXCEPT !.queue = @ \ {s}]
      Newest(t) == t \in flying /\ \A u \in flying : u <= t
  IN
  /\ daemon.pc = "visit" /\ s \in daemon.queue
  /\ \/ /\ \/ Transcript(s) = <<>>
           \/ flying = {}
           \/ \E t \in TaskId : /\ Newest(t)
                                /\ IF StateOf(tasks[t]) = "dispatched"
                                   THEN Len(Transcript(s)) <= tasks[t].offset
                                   ELSE NoNewCommit(tasks[t])
        /\ Observes(rest)
     \/ \E t \in TaskId :
          /\ Transcript(s) # <<>> /\ Newest(t)
          /\ \/ /\ StateOf(tasks[t]) = "dispatched"
                /\ Len(Transcript(s)) > tasks[t].offset
                /\ Observes([rest EXCEPT !.pc = "write flight", !.task = t])
             \/ /\ StateOf(tasks[t]) = "in_flight"
                /\ \E sha \in Commit :
                     /\ IsNewCommit(sha, tasks[t])
                     /\ Observes([rest EXCEPT !.pc = "write commit",
                                    !.task = t, !.sha = sha])

DaemonWriteFlight ==
  /\ daemon.pc = "write flight"
  /\ DaemonTransacts(TakeFlight(daemon.task, tasks[daemon.task]), Visiting)

DaemonWriteCommit ==
  /\ daemon.pc = "write commit"
  /\ DaemonTransacts(RecordCommit(daemon.task, tasks[daemon.task], daemon.sha, NoReason),
                     Visiting)

\* observe_commentator: one snapshot of the tasks awaiting commentary, then one
\* after the other in id order.
DaemonVisitCommentator ==
  LET waiting == {t \in TaskId : AwaitsCommentary(tasks[t])} IN
  /\ daemon.pc = "visit" /\ 0 \in daemon.queue
  /\ Observes([daemon EXCEPT !.queue = @ \ {0}, !.pc = "commentary",
                 !.pending = waiting,
                 !.asked = {t \in waiting : tasks[t].requested}])

\* A commit the commentator mentions was reviewed.  One it does not, and was
\* never asked about, is asked about now; the prompt may fail.
DaemonReview(t) ==
  LET rest == [daemon EXCEPT !.pending = @ \ {t}]
      reviewed == tasks[t].commit \in mentioned
  IN
  /\ daemon.pc = "commentary"
  /\ t \in daemon.pending /\ \A u \in daemon.pending : t <= u
  /\ \/ reviewed /\ Observes([rest EXCEPT !.pc = "write delivery", !.task = t])
     \/ /\ ~reviewed /\ t \notin daemon.asked
        /\ Observes([rest EXCEPT !.pc = "write request", !.task = t])
     \/ ~reviewed /\ Observes(rest)

DaemonWriteDelivery ==
  /\ daemon.pc = "write delivery"
  /\ DaemonTransacts(RecordDelivery(tasks[daemon.task]), Reviewing)

DaemonWriteRequest ==
  /\ daemon.pc = "write request"
  /\ DaemonTransacts(RecordRequest(tasks[daemon.task]), Reviewing)

DaemonReviewed ==
  /\ daemon.pc = "commentary" /\ daemon.pending = {}
  /\ Observes(Visiting)

-----------------------------------------------------------------------------
(* Processes killed between two steps, and the daemon started again. *)

Crash(p) == Crashes /\ cli[p].pc # "idle" /\ Refused(p)

DaemonCrash == Crashes /\ daemon.pc # "dead" /\ Dies

DaemonStart == daemon.pc = "dead" /\ Observes(Watching)

-----------------------------------------------------------------------------
(* The implementers, the commentator and whoever else commits. *)

Alone == UNCHANGED <<database, runtime, cli, daemon>>

LatePrompt(e, t) ==
  /\ <<e, t>> \in late /\ Len(agents[e].lines) < MaxLines
  /\ late' = late \ {<<e, t>>}
  /\ agents' = [agents EXCEPT ![e].work = t, ![e].lines = Append(@, PromptLine(t))]
  /\ UNCHANGED <<git, mentioned>> /\ Alone

\* A line of a turn, on a task or on whatever else the agent was prompted with:
\* it reads, edits, talks.  An agent without a task leaves the tree alone.
WriteLine(e) ==
  /\ agents[e].name # "no session" /\ Len(agents[e].lines) < MaxLines
  /\ agents' = [agents EXCEPT ![e].lines = Append(@, TextLine)]
  /\ \E dirty \in {git.dirty, Messy /\ agents[e].work # 0} :
       git' = [git EXCEPT !.dirty = dirty]
  /\ UNCHANGED <<late, mentioned>> /\ Alone

NewHead(trailer) ==
  git' = [head |-> git.head + 1, dirty |-> FALSE,
          trailers |-> IF trailer THEN git.trailers \cup {git.head + 1} ELSE git.trailers]

MakeCommit(e) ==
  /\ agents[e].work # 0 /\ agents[e].owed = 0 /\ git.head < MaxCommits
  /\ \E trailer \in {FALSE, Messy} : NewHead(trailer)
  /\ agents' = [agents EXCEPT ![e].owed =
                  IF agents[e].name \in HeadOnly THEN 0 ELSE git.head + 1]
  /\ UNCHANGED <<late, mentioned>> /\ Alone

ShowCommit(e) ==
  /\ agents[e].owed # 0
  /\ agents' = [agents EXCEPT ![e].lines = Append(@, CommitLine(agents[e].owed)), ![e].owed = 0]
  /\ UNCHANGED <<git, late, mentioned>> /\ Alone

OutsideCommit ==
  /\ OutsideWork /\ git.head < MaxCommits
  /\ NewHead(FALSE)
  /\ UNCHANGED <<agents, late, mentioned>> /\ Alone

Review(c) ==
  /\ Commentator /\ c \in 2..git.head /\ c \notin mentioned
  /\ mentioned' = mentioned \cup {c}
  /\ UNCHANGED <<agents, git, late>> /\ Alone

-----------------------------------------------------------------------------
Step(p) ==
  \/ WriteLaunch(p) \/ CreateRetry(p)
  \/ Supersede(p) \/ WriteAbort(p) \/ Interrupt(p)
  \/ CheckFlying(p) \/ CheckPrior(p) \/ ReadOffset(p) \/ ReadBase(p)
  \/ Prompt(p) \/ WriteDispatch(p)
  \/ LookAgain(p) \/ Gate(p) \/ WriteAccept(p) \/ WriteForcedAccept(p)
  \/ WriteForcedCommit(p) \/ WriteForcedCommentary(p)

Lead(p) ==
  \/ New(p) \/ Step(p) \/ Crash(p)
  \/ \E n \in Names : StartAgent(p, n) \/ FindSession(p, n)
  \/ \E t \in TaskId :
       \/ Retry(p, t) \/ AbortTask(p, t) \/ DispatchTask(p, t)
       \/ AcceptTask(p, t) \/ ForceAccept(p, t) \/ ForceCommentary(p, t)
       \/ \E c \in Commit : ForceCommit(p, t, c)

DaemonStep ==
  \/ DaemonPoll \/ \E s \in SessionId : DaemonVisit(s)
  \/ DaemonWriteFlight \/ DaemonWriteCommit
  \/ DaemonVisitCommentator \/ \E t \in TaskId : DaemonReview(t)
  \/ DaemonWriteDelivery \/ DaemonWriteRequest \/ DaemonReviewed

Environment ==
  \/ \E e \in Agent :
       WriteLine(e) \/ MakeCommit(e) \/ ShowCommit(e) \/ \E t \in TaskId : LatePrompt(e, t)
  \/ OutsideCommit
  \/ \E c \in Commit : Review(c)

Next ==
  \/ \E p \in Procs : Lead(p)
  \/ DaemonStep \/ DaemonCrash \/ DaemonStart
  \/ Environment

Spec == Init /\ [][Next]_vars

\* The daemon loops for as long as it is up.
FairSpec == Spec /\ WF_vars(DaemonStep)

-----------------------------------------------------------------------------
(* What holds of one lead that waits for each command before the next. *)

\* At most one task is dispatched or in flight: cmd_dispatch refuses while it
\* reads another one flying, and nothing else makes a task fly.
SingleFlight ==
  \A t, u \in TaskId : InState(t, Flying) /\ InState(u, Flying) => t = u

\* Every task gets a fresh implementer: no session is bound to two tasks, also
\* not to one that was aborted on it.
FreshImplementer ==
  \A t, u \in TaskId : tasks[t].session = tasks[u].session /\ tasks[t].session # 0
                       => t = u

\* A row is bound to a session only once the agent behind it shows the task's
\* prompt past the recorded offset, for agents that echo a prompt on taking it.
DispatchedMeansTaken ==
  \A t \in TaskId :
    /\ tasks[t].session # 0
    /\ sessions[tasks[t].session].name \notin HeadOnly
    => \E i \in (tasks[t].offset + 1)..Len(Transcript(tasks[t].session)) :
         Transcript(tasks[t].session)[i].task = t

\* No commit is credited to two tasks, by whichever of the daemon, the gate
\* and the forced remedy recorded it, and though HEAD is all Cursor offers.
CommitCreditedOnce ==
  \A t, u \in TaskId : tasks[t].commit = tasks[u].commit /\ tasks[t].commit # 0
                       => t = u

\* An aborted task's implementer, while its row is live, was interrupted and
\* told, or the lead finds in the run log that it could not be.
AbortIsHeard ==
  \A t \in TaskId :
    /\ InState(t, {"aborted"}) /\ tasks[t].session # 0
    /\ sessions[tasks[t].session].live
    /\ \A p \in Procs : ~(cli[p].pc = "interrupt" /\ cli[p].task = t)
    => t \in runlog

-----------------------------------------------------------------------------
(* What holds however many commands run at once, and whatever is killed. *)

\* The successor of a retry exists only once its predecessor is aborted, so a
\* lineage has at most one task that can still fly.
RetryOfAborted ==
  \A t \in TaskId : tasks[t].retryOf # 0 =>
    tasks[t].retryOf \in TaskId /\ InState(tasks[t].retryOf, {"aborted"})

\* A recorded commit is new: a proper descendant of where HEAD stood when the
\* task's prompt was sent, though the check and the write are apart.
CommitAfterBase ==
  \A t \in TaskId : tasks[t].commit # 0 => tasks[t].commit > tasks[t].base

\* Commentary the daemon marks delivered was given: the commentator's transcript
\* mentions the very commit, whichever poll saw it and whatever was aborted or
\* asked meanwhile.  (The remedy record-commentary takes the lead's word.)
DeliveredMeansReviewed ==
  \A t \in TaskId : tasks[t].delivered => tasks[t].commit \in mentioned

\* However the writers interleave, readers see the lifecycle of TaskLifecycle.
Promised == INSTANCE TaskLifecycle WITH
  Tasks <- TaskId,
  life <- [t \in TaskId |-> IF Exists(tasks[t]) THEN StateOf(tasks[t]) ELSE "absent"],
  facts <- [t \in TaskId |->
              [session |-> tasks[t].session, base |-> tasks[t].base,
               commit |-> tasks[t].commit, retryOf |-> tasks[t].retryOf,
               requested |-> tasks[t].requested, delivered |-> tasks[t].delivered]]

KeepsLifecycle == Promised!Spec

-----------------------------------------------------------------------------
(* What holds while the lead leaves record-commit --force alone and nothing is *)
(* killed.                                                                   *)

\* Only a verdict costs the run its daemon, one that came between the daemon's
\* look and its write: an abort, or an acceptance as it was about to move the
\* task on itself.
DaemonSurvives ==
  [][daemon.pc # "dead" /\ daemon'.pc = "dead" =>
       \/ InState(daemon.task, {"aborted"})
       \/ /\ daemon.pc \in {"write flight", "write commit"}
          /\ InState(daemon.task, {"accepted"})]_vars

\* Once every check of the gate passed, the task is accepted, unless it was
\* ended or credited with a commit the gate did not look at meanwhile.
GateVerdictStands ==
  [][\A p \in Procs : LET t == cli[p].task IN
       /\ cli[p].pc = "write accept" /\ WriteAccept(p)
       /\ InState(t, Flying \cup {"committed_unverified"})
       /\ tasks[t].commit \in {0, cli[p].sha}
       => StateOf(tasks'[t]) = "accepted"]_vars

-----------------------------------------------------------------------------
(* What the daemon eventually does. *)

\* Past the offset, the transcript shows a commit on top of the base.
ShowsCommit(row) ==
  \E i \in (row.offset + 1)..Len(Transcript(row.session)) :
    Transcript(row.session)[i].commit > row.base

\* A commit an in-flight task's agent has made and shown is eventually seen:
\* the task moves on, unless the daemon ends or the session is relaunched.
CommitIsSeen ==
  \A t \in TaskId :
    (InState(t, {"in_flight"}) /\ ShowsCommit(tasks[t]))
    ~> (\/ ~InState(t, {"in_flight"}) \/ daemon.pc = "dead"
        \/ ~sessions[tasks[t].session].live)

\* A commit awaiting commentary that the commentator mentions is eventually
\* delivered, or the daemon ends or the task is aborted.
CommentaryIsSeen ==
  \A t \in TaskId :
    (AwaitsCommentary(tasks[t]) /\ tasks[t].commit \in mentioned)
    ~> (~AwaitsCommentary(tasks[t]) \/ daemon.pc = "dead")

\* The daemon sees what implementers and commentators make of a task.
WorkIsSeen == CommitIsSeen /\ CommentaryIsSeen
=============================================================================
