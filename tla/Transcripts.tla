----------------------------- MODULE Transcripts -----------------------------
(***************************************************************************)
(* What the supervisor reads from an agent's transcript (src/infra/agent,  *)
(* src/infra/transcript_monitor.rs): where a prompt is, how much context   *)
(* the session holds, and whether the transcript grew - and what becomes   *)
(* of the contexts: the session's maximum, a task's start and its          *)
(* calibration (src/coordinator.rs cmd_calibrate).                         *)
(*                                                                         *)
(* One implementer's session, and one of its readers, which leave the      *)
(* transcript and each other alone: a sender looking for its prompt, the   *)
(* daemon with the lead's calibrations, or the commentator's watch.        *)
(* Sizes are in halves of a line: a reader may find the last line half     *)
(* written, and Cursor's turn_ended line is shorter than the others.       *)
(***************************************************************************)
EXTENDS Integers, Sequences, FiniteSetsExt

CONSTANTS
  AgentKinds, \* the agents the session may run
  Window,     \* the lines context_size looks back, 50 in the code
  MaxTasks,
  MaxLines,   \* the transcript grows to this many lines,
  MaxRead,    \* to this many when the daemon reads it
  MaxContext

ASSUME TranscriptsAssumption ==
  /\ AgentKinds \subseteq {"claude", "codex", "cursor"}
  /\ Window \in Nat \ {0} /\ MaxTasks \in Nat /\ MaxContext \in Nat
  /\ MaxLines \in Nat /\ MaxRead \in 0..MaxLines

VARIABLES
  agent,
  reader,
  lines,      \* of the transcript, the last perhaps half written
  torn,       \* whether it is
  sent,       \* the prompt sent last
  tasks,
  contextMax, \* context_max of the session's row
  daemon,     \* where its poll is
  watch       \* watch-transcripts

vars == <<agent, reader, lines, torn, sent, tasks, contextMax, daemon, watch>>

-----------------------------------------------------------------------------
Readers == {"sender", "daemon", "watch"}

Task == 1..MaxTasks

\* A ContextSize, -1 for one that is not known: NULL in a row.
Unknown == -1
ContextSize == {Unknown} \cup 0..MaxContext

\* reply: a line with the usage of a response of the session's own, Claude's
\* assistant entry and Codex's token_usage_record.  aside: one of a sidechain.
\* queued: Claude's "enqueue" entry.  ours: whether the text is the prompt's.
Line == [kind : {"prompt", "queued", "reply", "aside", "other", "turn_ended"},
         ours : BOOLEAN, usage : 0..MaxContext]

Plain(kind) == [kind |-> kind, ours |-> FALSE, usage |-> 0]
Prompt(ours) == [Plain("prompt") EXCEPT !.ours = ours]
Queued(ours) == [Plain("queued") EXCEPT !.ours = ours]
Usage(kind, context) == [Plain(kind) EXCEPT !.usage = context]

Ends(s) == s # <<>> /\ s[Len(s)].kind = "turn_ended"

SizeOf(s, half) ==
  2 * Len(s) - (IF Ends(s) THEN 1 ELSE 0) - (IF half THEN 1 ELSE 0)

\* transcript_size.
Size == SizeOf(lines, torn)

Sizes == 0..(2 * MaxLines)

\* The prompt sent last, and where the transcript ended before.  prompts,
\* queues: the agent has written it since, as taken and as waiting.
Sent == [offset : Sizes, prompts : BOOLEAN, queues : BOOLEAN]

\* offset, start: transcript_offset and context_size_start.  end: of its
\* calibration.  held: the largest context of a response that was written while
\* it was the task dispatched last, until it is calibrated.  shrank: whether one
\* was below the one before, the last before the dispatch included.
\* refused: whether a calibration of it was.
TaskRow == [state : {"drafted", "dispatched", "in_flight", "committed", "calibrated", "aborted"},
            offset : Sizes, start : ContextSize, end : ContextSize,
            held : 0..MaxContext, shrank : BOOLEAN, refused : BOOLEAN]

\* at: the step of the poll.  blind: whether a reading of the context found
\* none although the transcript had some.
Daemon == [at : {"reading", "observing"}, blind : BOOLEAN]

\* seen: the size of the last look, 0 for none.  told: the size the commentator
\* was last woken for.
Watch == [up : BOOLEAN, seen : Sizes, told : Sizes]

TypeOK ==
  /\ agent \in AgentKinds /\ reader \in Readers
  /\ lines \in Seq(Line) /\ Len(lines) <= MaxLines /\ torn \in BOOLEAN
  /\ sent \in Sent /\ tasks \in [Task -> TaskRow]
  /\ sent.offset <= Size /\ \A t \in Task : tasks[t].offset <= Size
  /\ contextMax \in ContextSize /\ daemon \in Daemon /\ watch \in Watch

Drafted == [state |-> "drafted", offset |-> 0, start |-> Unknown, end |-> Unknown,
            held |-> 0, shrank |-> FALSE, refused |-> FALSE]

Init ==
  /\ agent \in AgentKinds /\ reader \in Readers
  /\ lines = <<>> /\ torn = FALSE
  /\ sent = [offset |-> 0, prompts |-> FALSE, queues |-> FALSE]
  /\ tasks = [t \in Task |-> Drafted]
  /\ contextMax = Unknown
  /\ daemon = [at |-> "reading", blind |-> FALSE]
  /\ watch = [up |-> FALSE, seen |-> 0, told |-> 0]

-----------------------------------------------------------------------------
(* Reading: only a line that is there to its end parses *)

Whole == 1..(IF torn THEN Len(lines) - 1 ELSE Len(lines))

\* entries: what parses of the transcript from the offset on.
EntriesFrom(offset) == {i \in Whole : 2 * (i - 1) >= offset}

\* entries_from_line_holding: Cursor's, whose transcript may have moved back.
EntriesFromLineHolding(offset) == {i \in Whole : offset < Size /\ 2 * i > offset}

Entries(offset) ==
  IF agent = "cursor" THEN EntriesFromLineHolding(offset) ELSE EntriesFrom(offset)

\* prompt_state.
PromptState(offset) ==
  IF \E i \in Entries(offset) : lines[i].kind = "prompt" /\ lines[i].ours THEN "started"
  ELSE IF \E i \in Entries(offset) : lines[i].kind = "queued" /\ lines[i].ours THEN "queued"
  ELSE "unseen"

\* Slip: a sidechain's usage counts as the session's.
AnyUsage(i) == lines[i].kind \in {"reply", "aside"}

\* usage_of_line.
HasUsage(i) == lines[i].kind = "reply"

\* The entries with usage that lie between two offsets.
Usages(start, end) == {i \in EntriesFrom(start) : 2 * i <= end /\ HasUsage(i)}

Latest(entries) == IF entries = {} THEN 0 ELSE lines[Max(entries)].usage

Records == agent # "cursor"

\* context_size: of the last lines, a half written one among them.
ReadContext ==
  IF Records THEN Latest({i \in Usages(0, Size) : i > Len(lines) - Window}) ELSE Unknown

ContextBefore(offset) == IF Records THEN Latest(Usages(0, offset)) ELSE Unknown

Peak(start, end) == Max({0} \cup {lines[i].usage : i \in Usages(start, end)})

ContextPeak(start, end) == IF Records THEN Peak(start, end) ELSE Unknown

-----------------------------------------------------------------------------
(* The agent *)

Dispatched(t) == tasks[t].state # "drafted"

\* The task dispatched last.
Current(t) ==
  Dispatched(t) /\ \A u \in Task : Dispatched(u) => tasks[u].offset <= tasks[t].offset

\* The tasks once this response is there to its end.
Answered(entry, start) ==
  [t \in Task |->
     IF Current(t) /\ tasks[t].offset <= start /\ tasks[t].state # "calibrated"
     THEN [tasks[t] EXCEPT !.held = Max({@, entry.usage})] ELSE tasks[t]]

Replies == {i \in DOMAIN lines : lines[i].kind = "reply"}

\* Lines the agent adds at once, the last perhaps by half.
Writes(new) ==
  LET kept == IF Ends(lines) THEN SubSeq(lines, 1, Len(lines) - 1) ELSE lines IN
  /\ ~torn
  /\ Len(kept) + Len(new) <= IF reader = "daemon" THEN MaxRead ELSE MaxLines
  /\ lines' = kept \o new
  /\ torn' \in {FALSE, new[Len(new)].kind # "turn_ended"}
  /\ UNCHANGED <<agent, reader, contextMax, daemon, watch>>

\* The prompt sent last, once this entry is there to its end.
Shown(entry) ==
  [sent EXCEPT !.prompts = @ \/ (entry.ours /\ entry.kind = "prompt"),
               !.queues = @ \/ (entry.ours /\ entry.kind = "queued")]

\* A prompt is taken: Cursor shows it with its first reply.
TakePrompt(ours) ==
  /\ IF agent = "cursor"
     THEN Writes(<<Prompt(ours), Plain("reply")>>) /\ sent' = Shown(Prompt(ours))
     ELSE /\ Writes(<<Prompt(ours)>>)
          /\ sent' = IF torn' THEN sent ELSE Shown(Prompt(ours))
  /\ UNCHANGED tasks

\* A prompt has to wait.
Queue(ours) ==
  /\ agent = "claude"
  /\ Writes(<<Queued(ours)>>)
  /\ sent' = IF torn' THEN sent ELSE Shown(Queued(ours))
  /\ UNCHANGED tasks

Reply(context) ==
  LET entry == Usage("reply", context) IN
  /\ Records /\ Writes(<<entry>>)
  /\ LET counted == IF torn' THEN tasks ELSE Answered(entry, Size) IN
     tasks' = [t \in Task |->
       IF Current(t) /\ context < Latest(Replies)
       THEN [counted[t] EXCEPT !.shrank = TRUE] ELSE counted[t]]
  /\ UNCHANGED sent

\* A sidechain, which holds a context of its own.
Aside(context) ==
  /\ agent = "claude"
  /\ Writes(<<Usage("aside", context)>>) /\ UNCHANGED <<sent, tasks>>

\* What tools return, and what else an agent writes.
Other == Writes(<<Plain("other")>>) /\ UNCHANGED <<sent, tasks>>

EndTurn ==
  /\ agent = "cursor" /\ lines # <<>> /\ ~Ends(lines)
  /\ Writes(<<Plain("turn_ended")>>) /\ UNCHANGED <<sent, tasks>>

Finish ==
  LET entry == lines[Len(lines)]
      start == 2 * (Len(lines) - 1) IN
  /\ torn /\ torn' = FALSE
  /\ tasks' = IF entry.kind = "reply" THEN Answered(entry, start) ELSE tasks
  /\ sent' = IF start >= sent.offset THEN Shown(entry) ELSE sent
  /\ UNCHANGED <<agent, reader, lines, contextMax, daemon, watch>>

\* What the reader does not tell apart is an other line.
AgentStep ==
  \/ Other \/ EndTurn \/ Finish
  \/ /\ reader = "sender" \/ agent = "cursor"
     /\ \E ours \in {FALSE, reader = "sender"} : TakePrompt(ours) \/ Queue(ours)
  \/ /\ reader = "daemon"
     /\ \E context \in 1..MaxContext : Reply(context) \/ Aside(context)

-----------------------------------------------------------------------------
(* The lead: prompts, dispatches, calibrations *)

\* Whoever sends the prompt reads the offset first.
Send ==
  /\ sent' = [offset |-> Size, prompts |-> FALSE, queues |-> FALSE]
  /\ UNCHANGED <<agent, reader, lines, torn, tasks, contextMax, daemon, watch>>

Flying(t) == tasks[t].state \in {"dispatched", "in_flight"}

\* Whether the response before last held more than the last.
Shrinking ==
  LET last == Max({0} \cup Replies) IN
  last # 0 /\ lines[last].usage < Latest(Replies \ {last})

\* Slip: the offset is past the end.
DispatchPast(t) ==
  /\ ~Dispatched(t) /\ \A u \in Task : ~Flying(u)
  /\ tasks' = [tasks EXCEPT ![t].state = "dispatched", ![t].offset = Size + 1]
  /\ UNCHANGED <<agent, reader, lines, torn, sent, contextMax, daemon, watch>>

Dispatch(t) ==
  /\ ~Dispatched(t) /\ \A u \in Task : ~Flying(u)
  /\ tasks' = [tasks EXCEPT ![t].state = "dispatched", ![t].offset = Size,
                 ![t].shrank = Shrinking]
  /\ UNCHANGED <<agent, reader, lines, torn, sent, contextMax, daemon, watch>>

AbortTask(t) ==
  /\ Flying(t)
  /\ tasks' = [tasks EXCEPT ![t].state = "aborted"]
  /\ UNCHANGED <<agent, reader, lines, torn, sent, contextMax, daemon, watch>>

\* Where the task's part of the transcript ends: at the offset of the next task
\* by id that has one.
NextOffset(t) ==
  LET later == {u \in Task : u > t /\ tasks[u].offset > 0} IN
  IF later = {} THEN Size ELSE tasks[Min(later)].offset

\* The peak, or the session's maximum when there is no usage.
End(t) ==
  LET peak == ContextPeak(tasks[t].offset, NextOffset(t)) IN
  IF peak > 0 THEN peak ELSE IF contextMax # Unknown THEN contextMax ELSE peak

\* Calibration::new: a context may end where it began or above.
Fits(start, end) == start = Unknown \/ end = Unknown \/ end >= start

\* calibration::create, whose insert is rolled back when the row does not fit.
Calibrated(task, end) ==
  IF Fits(task.start, end) THEN [task EXCEPT !.state = "calibrated", !.end = end]
  ELSE [task EXCEPT !.refused = TRUE]

\* cmd_calibrate.
Calibrate(t) ==
  /\ tasks[t].state = "committed"
  /\ tasks' = [tasks EXCEPT ![t] = Calibrated(@, End(t))]
  /\ UNCHANGED <<agent, reader, lines, torn, sent, contextMax, daemon, watch>>

-----------------------------------------------------------------------------
(* The daemon's poll of the session *)

\* record_reading of what context_size says: the maximum only ever rises.
ReadSession ==
  /\ daemon.at = "reading" /\ lines # <<>>
  /\ contextMax' = Max({contextMax, ReadContext})
  /\ daemon' = [at |-> "observing",
                blind |-> daemon.blind \/ (ReadContext = 0 /\ Usages(0, Size) # {})]
  /\ UNCHANGED <<agent, reader, lines, torn, sent, tasks, watch>>

\* observe_implementer: the transcript grew past the dispatch, or shows the
\* task's commit, or neither.
Observe ==
  /\ daemon.at = "observing" /\ daemon' = [daemon EXCEPT !.at = "reading"]
  /\ tasks' \in {tasks} \cup
       {[tasks EXCEPT ![t].state = "in_flight", ![t].start = ContextBefore(tasks[t].offset)] :
          t \in {t \in Task : tasks[t].state = "dispatched" /\ Size > tasks[t].offset}} \cup
       {[tasks EXCEPT ![t].state = "committed"] :
          t \in {t \in Task : tasks[t].state = "in_flight"}}
  /\ UNCHANGED <<agent, reader, lines, torn, sent, contextMax, watch>>

-----------------------------------------------------------------------------
(* watch-transcripts, which the commentator runs *)

\* TranscriptMonitor::new: the first look tells nothing.
StartWatch ==
  /\ ~watch.up
  /\ watch' = [up |-> TRUE, seen |-> Size, told |-> Size]
  /\ UNCHANGED <<agent, reader, lines, torn, sent, tasks, contextMax, daemon>>

\* Slip: a transcript the last look had not is taken as it is.
LookAtKnown ==
  /\ watch.up
  /\ watch' = [watch EXCEPT !.seen = Size,
                 !.told = IF watch.seen # 0 /\ Size > watch.seen THEN Size ELSE @]
  /\ UNCHANGED <<agent, reader, lines, torn, sent, tasks, contextMax, daemon>>

Look ==
  /\ watch.up
  /\ watch' = [watch EXCEPT !.seen = Size, !.told = IF Size > watch.seen THEN Size ELSE @]
  /\ UNCHANGED <<agent, reader, lines, torn, sent, tasks, contextMax, daemon>>

-----------------------------------------------------------------------------
Next ==
  \/ AgentStep
  \/ reader = "sender" /\ Send
  \/ /\ reader = "daemon"
     /\ \/ ReadSession \/ Observe
        \/ \E t \in Task : Dispatch(t) \/ AbortTask(t) \/ Calibrate(t)
  \/ reader = "watch" /\ (StartWatch \/ Look)

Spec == Init /\ [][Next]_vars

\* The watch looks again and again until it is killed.
FairSpec == Spec /\ WF_vars(Look)

-----------------------------------------------------------------------------
(* Properties *)

\* prompt_state finds the prompt sent last exactly when the agent has written it
\* since: never the same text sent before, and also when Cursor's transcript has
\* moved back behind the offset.
PromptsAreRecognised ==
  PromptState(sent.offset) =
    IF sent.prompts THEN "started" ELSE IF sent.queues THEN "queued" ELSE "unseen"

\* The tasks were dispatched in the order of their ids.
InOrder ==
  \A t, u \in Task :
    t < u /\ Dispatched(t) /\ Dispatched(u) =>
      \/ tasks[t].offset < tasks[u].offset
      \/ tasks[t].offset = tasks[u].offset /\ tasks[t].state = "aborted"

\* As long as tasks are dispatched in the order of their ids, a committed one can
\* be calibrated unless its agent's context shrank or the daemon once did not
\* see it, and its end is the largest context of a response of that task.
CalibrationsFit ==
  InOrder =>
    \A t \in Task :
      /\ tasks[t].refused => tasks[t].shrank \/ daemon.blind
      /\ tasks[t].state = "calibrated" /\ tasks[t].held > 0 => tasks[t].end = tasks[t].held

\* What a transcript grew by since the commentator was last woken it is woken
\* for, also when the transcript was not there at the look before.
GrowthIsTold == (watch.up /\ Size > watch.told) ~> watch.told = Size
=============================================================================
