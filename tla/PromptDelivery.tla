--------------------------- MODULE PromptDelivery ---------------------------
(***************************************************************************)
(* One prompt from its command to its session (src/coordinator.rs          *)
(* cmd_prompt, src/infra/agent, src/infra/session_runtime): the prompt     *)
(* lock, the sends, and how a command tells that its prompt was taken.     *)
(*                                                                         *)
(* Whoever prompts - the lead, the daemon, a dispatch - is a command here, *)
(* with a text of its own, which it may send again once the session is     *)
(* through with it.  What is typed into a session arrives at once or not   *)
(* at all; what a prompt given up does when it arrives late is in          *)
(* Coordinator and SessionWatch.                                           *)
(***************************************************************************)
EXTENDS Naturals, Sequences, SequencesExt

CONSTANTS
  Commands,              \* whoever prompts
  Claude, Codex, Cursor, \* the sessions, by the agent they run
  NoText,
  MaxLines               \* sends stop once a transcript is this long

ASSUME ConstantsAssumption ==
  /\ Claude \cap Codex = {} /\ (Claude \cup Codex) \cap Cursor = {}
  /\ NoText \notin Commands /\ MaxLines \in Nat

VARIABLES
  lock,     \* the command that holds the prompt lock, or NoText
  commands,
  agents,
  copies    \* [Commands -> how often its text arrived since it was last begun]

vars == <<lock, commands, agents, copies>>

-----------------------------------------------------------------------------
Sessions == Claude \cup Codex \cup Cursor

PROMPT_ATTEMPTS == 3

\* prompt_echo: Cursor writes a prompt with its first reply, the others as they
\* take it.
EchoesOnTake(s) == s \in Claude \cup Codex

\* Slip: an agent that is silent is sent to again.
AlwaysAttempts(s) == PROMPT_ATTEMPTS

Attempts(s) == IF EchoesOnTake(s) THEN PROMPT_ATTEMPTS ELSE 1

\* idle: what the runtime said of the session before the send.  offset: where
\* its transcript ended then.
Command == [pc : {"ready", "done", "failed", "lock", "status", "offset", "send", "watch"},
            to : Sessions, attempt : 0..PROMPT_ATTEMPTS, idle : BOOLEAN, offset : Nat]

\* A command that has read nothing, or has ended.
Standing(pc, s) == [pc |-> pc, to |-> s, attempt |-> 0, idle |-> FALSE, offset |-> 0]

\* A text is the command it belongs to.  turn: the one the agent is at work on
\* and has not shown.  queue: typed behind the current turn.  lines: what the
\* transcript shows.
AgentState == [busy : BOOLEAN, turn : Commands \cup {NoText}, queue : Seq(Commands),
               lines : Seq(Commands)]

TypeOK ==
  /\ lock \in Commands \cup {NoText}
  /\ commands \in [Commands -> Command]
  /\ agents \in [Sessions -> AgentState]
  /\ \A p \in Commands : commands[p].offset <= Len(agents[commands[p].to].lines)
  /\ copies \in [Commands -> 0..PROMPT_ATTEMPTS]

\* A session may still be on its launch prompt.
Init ==
  /\ lock = NoText
  /\ \E s \in Sessions : commands = [p \in Commands |-> Standing("ready", s)]
  /\ agents \in [Sessions -> {[busy |-> busy, turn |-> NoText, queue |-> <<>>, lines |-> <<>>] :
                                busy \in BOOLEAN}]
  /\ copies = [p \in Commands |-> 0]

-----------------------------------------------------------------------------
(* The command *)

At(p, pc) == commands[p].pc = pc

Ended(p) == commands[p].pc \in {"ready", "done", "failed"}

\* The session holds no copy of the text it has yet to show.
Through(p) ==
  \A s \in Sessions : agents[s].turn # p /\ p \notin ToSet(agents[s].queue)

Begin(p, s) ==
  /\ Ended(p) /\ Through(p) /\ Len(agents[s].lines) < MaxLines
  /\ commands' = [commands EXCEPT ![p] = Standing("lock", s)]
  /\ copies' = [copies EXCEPT ![p] = 0]
  /\ UNCHANGED <<lock, agents>>

\* Slip: the lock is not waited for.
Barge(p) ==
  /\ At(p, "lock")
  /\ lock' = p /\ commands' = [commands EXCEPT ![p].pc = "status", ![p].attempt = 1]
  /\ UNCHANGED <<agents, copies>>

\* lock_exclusive: one lock for every session of the run.
TakeLock(p) ==
  /\ At(p, "lock") /\ lock = NoText
  /\ lock' = p /\ commands' = [commands EXCEPT ![p].pc = "status", ![p].attempt = 1]
  /\ UNCHANGED <<agents, copies>>

\* Whether the runtime calls the session idle: only one at its prompt, but it
\* may not be able to tell.
CalledIdle(s) == {FALSE, ~agents[s].busy}

ReadStatus(p) ==
  /\ At(p, "status")
  /\ \E idle \in CalledIdle(commands[p].to) :
       commands' = [commands EXCEPT ![p].pc = "offset", ![p].idle = idle]
  /\ UNCHANGED <<lock, agents, copies>>

ReadOffset(p) ==
  /\ At(p, "offset")
  /\ commands' = [commands EXCEPT ![p].pc = "send",
                    ![p].offset = Len(agents[commands[p].to].lines)]
  /\ UNCHANGED <<lock, agents, copies>>

\* Claude writes an "enqueue" entry for a prompt that has to wait.
EchoesQueued(s) == s \in Claude

\* An idle agent takes the text; a busy one queues it.
Receives(s, agent, p) ==
  [agent EXCEPT
     !.busy = TRUE,
     !.turn = IF agent.busy \/ EchoesOnTake(s) THEN @ ELSE p,
     !.queue = IF agent.busy THEN Append(@, p) ELSE @,
     !.lines = IF (IF agent.busy THEN EchoesQueued(s) ELSE EchoesOnTake(s))
             THEN Append(@, p) ELSE @]

\* The runtime's send, whose error is not looked at: it arrives or is lost.
Send(p) ==
  LET s == commands[p].to IN
  /\ At(p, "send")
  /\ commands' = [commands EXCEPT ![p].pc = "watch"]
  /\ \/ /\ agents' = [agents EXCEPT ![s] = Receives(s, @, p)]
        /\ copies' = [copies EXCEPT ![p] = @ + 1]
     \/ UNCHANGED <<agents, copies>>
  /\ UNCHANGED lock

\* prompt_state: started or queued, past the offset.
Shows(p) ==
  LET lines == agents[commands[p].to].lines IN
  \E i \in (commands[p].offset + 1)..Len(lines) : lines[i] = p

\* An agent that shows a prompt with its reply has taken it once the session
\* the send found idle is busy.
WentBusy(p) ==
  LET s == commands[p].to IN ~EchoesOnTake(s) /\ commands[p].idle /\ agents[s].busy

Leaves(p, pc) ==
  /\ lock' = NoText /\ commands' = [commands EXCEPT ![p] = Standing(pc, @.to)]
  /\ UNCHANGED <<agents, copies>>

Taken(p) ==
  /\ At(p, "watch")
  /\ Shows(p) \/ WentBusy(p)
  /\ Leaves(p, "done")

\* The time of a send is up and nothing was seen.
Unseen(p) == At(p, "watch") /\ ~Shows(p) /\ ~WentBusy(p)

\* Slip: the sends are not counted.
ResendForever(p) ==
  /\ Unseen(p) /\ EchoesOnTake(commands[p].to)
  /\ commands' = [commands EXCEPT ![p].pc = "status"]
  /\ UNCHANGED <<lock, agents, copies>>

Resend(p) ==
  /\ Unseen(p) /\ commands[p].attempt < Attempts(commands[p].to)
  /\ commands' = [commands EXCEPT ![p].pc = "status", ![p].attempt = @ + 1]
  /\ UNCHANGED <<lock, agents, copies>>

GiveUp(p) ==
  /\ Unseen(p) /\ commands[p].attempt = Attempts(commands[p].to)
  /\ Leaves(p, "failed")

\* The process is killed: the lock goes with it.
Kill(p) ==
  /\ ~Ended(p)
  /\ lock' = (IF lock = p THEN NoText ELSE lock)
  /\ commands' = [commands EXCEPT ![p] = Standing("failed", @.to)]
  /\ UNCHANGED <<agents, copies>>

-----------------------------------------------------------------------------
(* The agents *)

Agent(s, agent) ==
  /\ agents' = [agents EXCEPT ![s] = agent]
  /\ UNCHANGED <<lock, commands, copies>>

\* The turn's first reply, with which Cursor shows the prompt.
Reply(s) ==
  LET agent == agents[s] IN
  /\ agent.turn # NoText
  /\ Agent(s, [agent EXCEPT !.turn = NoText, !.lines = Append(@, agent.turn)])

\* A turn ends, and what waits in the queue starts the next.
EndTurn(s) ==
  LET agent == agents[s] IN
  /\ agent.busy /\ agent.turn = NoText
  /\ \/ agent.queue = <<>> /\ Agent(s, [agent EXCEPT !.busy = FALSE])
     \/ /\ agent.queue # <<>>
        /\ Agent(s, [agent EXCEPT
             !.queue = Tail(@),
             !.turn = IF EchoesOnTake(s) THEN NoText ELSE Head(agent.queue),
             !.lines = IF EchoesOnTake(s) THEN Append(@, Head(agent.queue)) ELSE @])

-----------------------------------------------------------------------------
Progress(p) ==
  \/ ReadStatus(p) \/ ReadOffset(p) \/ Send(p) \/ Taken(p) \/ Resend(p) \/ GiveUp(p)

Next ==
  \/ \E p \in Commands : TakeLock(p) \/ Progress(p) \/ Kill(p) \/ \E s \in Sessions : Begin(p, s)
  \/ \E s \in Sessions : Reply(s) \/ EndTurn(s)

Spec == Init /\ [][Next]_vars
-----------------------------------------------------------------------------
(* Properties *)

\* A prompt a command says was taken did arrive, this time and not an earlier
\* one: also when only the session's going busy told so, and another command
\* had the session idle before it.
SeenMeansTaken == \A p \in Commands : At(p, "done") => copies[p] > 0

\* "One still unseen after a while was lost, and can be sent again"
\* (infra/agent.rs:36): however often it was sent, a session gets a prompt once.
TakenOnce == \A p \in Commands : copies[p] <= 1
=============================================================================
