---------------------------- MODULE SessionWatch ----------------------------
(***************************************************************************)
(* What the daemon makes of one session's transcript: the readings of its  *)
(* size and context, the nudge of a session gone quiet, the compaction of  *)
(* a full commentator (src/coordinator.rs daemon, observe_commentator,     *)
(* kick_if_stalled; src/persistence/session.rs).                           *)
(*                                                                         *)
(* The session is the commentator's; an implementer's is read and kicked   *)
(* by the same code while it has a task in flight and no commit, and is    *)
(* never compacted.  The name may be launched again at any time, and the   *)
(* daemon may be killed and started again, losing what it holds in memory. *)
(* Time passes in ticks; a poll's timestamp is taken before its snapshot,  *)
(* and everything after may happen later.                                  *)
(***************************************************************************)
EXTENDS Naturals, FiniteSets, FiniteSetsExt

CONSTANTS
  Stale,     \* STALE_SECONDS, in ticks
  MaxStarts, \* launches and restarts of the daemon together
  MaxSize,   \* the agents write this much between them
  MaxClock

ASSUME ConstantsAssumption ==
  Stale \in Nat /\ MaxStarts \in Nat /\ MaxSize \in Nat /\ MaxClock \in Nat

VARIABLES
  echoesOnTake, \* whether the agent shows a prompt when it takes it (Claude,
                \* Codex) or only with its reply (Cursor)
  clock,
  restarts,  \* of the daemon
  launched,  \* the agents started under the name so far; the runtime sends to
             \* and asks after the last
  rows,      \* [Session -> Row]: the name's rows of the sessions table
  agents,    \* [Session -> AgentState]
  daemon

vars == <<echoesOnTake, clock, restarts, launched, rows, agents, daemon>>

-----------------------------------------------------------------------------
Session == 1..MaxStarts
Time == 0..MaxClock

\* How a context stands to COMMENTATOR_COMPACT_TOKENS: neither while it is not
\* known.  A Cursor transcript records none.
Contexts == IF echoesOnTake THEN {"neither", "under", "over"} ELSE {"neither"}

\* written: whether the row was inserted yet.  kicked: whether kicked_at is set.
Row == [written : BOOLEAN, live : BOOLEAN, started : Time, lastGrowth : Time,
        kicked : BOOLEAN]

\* What the daemon prompts this session with.
Prompts == {"compact", "continue"}

\* size: of the transcript, 0 while there is none.  busy: as the runtime says
\* of the last one, never asked of another.  sent: prompts sent and not
\* taken yet.  took: a prompt was taken that waits for its reply to be shown.  nudges,
\* compactions: prompts of the kind recorded by this daemon since the transcript
\* last grew past what it had read, and since it last read the context as under
\* the limit.
AgentState == [size : Nat, busy : BOOLEAN, sent : SUBSET Prompts,
               took : BOOLEAN, context : Contexts,
               nudges : 0..2, compactions : 0..2]

\* known: the size of the poll before, 0 for none.  at: this poll's timestamp.
\* lastGrowth, mayKick: of the row, as the snapshot holds it.  grew, context:
\* as just read.  watched: the latest row when the last prompt was sent.  shown:
\* the prompts its transcript shows since.  idle: whether it was found idle.
Daemon == [pc : {"dead", "stamp", "snapshot", "read", "write reading",
                 "compact", "compacting", "kick", "kicking"},
           known : Nat, compacting : BOOLEAN,
           at : Time, row : Session \cup {0}, lastGrowth : Time, mayKick : BOOLEAN,
           grew : BOOLEAN, context : Contexts,
           watched : Session \cup {0}, shown : SUBSET Prompts, idle : BOOLEAN]

TypeOK ==
  /\ echoesOnTake \in BOOLEAN
  /\ clock \in Time /\ {launched, restarts} \subseteq 0..MaxStarts
  /\ rows \in [Session -> Row]
  /\ agents \in [Session -> AgentState]
  /\ daemon \in Daemon

NoRow == [written |-> FALSE, live |-> FALSE, started |-> 0, lastGrowth |-> 0,
          kicked |-> FALSE]

NoAgent == [size |-> 0, busy |-> FALSE, sent |-> {}, took |-> FALSE,
            context |-> "neither", nudges |-> 0, compactions |-> 0]

\* A daemon that has just started knows no sizes.
Started == [pc |-> "stamp", known |-> 0, compacting |-> FALSE, at |-> 0, row |-> 0,
            lastGrowth |-> 0, mayKick |-> FALSE, grew |-> FALSE,
            context |-> "neither", watched |-> 0, shown |-> {}, idle |-> FALSE]

Init ==
  /\ echoesOnTake \in BOOLEAN
  /\ clock = 0 /\ launched = 0 /\ restarts = 0
  /\ rows = [s \in Session |-> NoRow]
  /\ agents = [s \in Session |-> NoAgent]
  /\ daemon = Started

-----------------------------------------------------------------------------
(* Rows, as src/persistence/session.rs writes them *)

\* Session::new: what every row is held to when it is read back.
Materializes(row) == row.lastGrowth >= row.started

\* Slip: every reading re-arms the kick.
ReadingRearmed(row, grew, at) ==
  IF grew THEN [row EXCEPT !.lastGrowth = at, !.kicked = FALSE]
  ELSE [row EXCEPT !.kicked = FALSE]

\* record_reading: growth moves the mark to the poll's timestamp and re-arms
\* the kick.
Reading(row, grew, at) ==
  IF grew THEN [row EXCEPT !.lastGrowth = at, !.kicked = FALSE] ELSE row

\* The insert of `create`, after stop_named.
Launched(s) ==
  [r \in Session |->
     IF r = s THEN [written |-> TRUE, live |-> TRUE, started |-> clock,
                    lastGrowth |-> clock, kicked |-> FALSE]
     ELSE [rows[r] EXCEPT !.live = FALSE]]

Written == {s \in Session : rows[s].written}

\* latest_session_named: rows are inserted in the order of their sessions.
Latest(s) == s \in Written /\ \A r \in Written : r <= s

-----------------------------------------------------------------------------
(* Launching: the terminal first, then the row *)

StartAgent ==
  /\ launched + restarts < MaxStarts /\ Cardinality(Written) = launched
  /\ launched' = launched + 1
  /\ agents' = [s \in Session |-> [agents[s] EXCEPT !.busy = FALSE]]
  /\ UNCHANGED <<echoesOnTake, clock, restarts, rows, daemon>>

WriteLaunch ==
  /\ launched # 0 /\ ~rows[launched].written
  /\ rows' = Launched(launched)
  /\ UNCHANGED <<echoesOnTake, clock, restarts, launched, agents, daemon>>

-----------------------------------------------------------------------------
(* The daemon *)

DaemonAt(pc) == daemon.pc = pc

EndPoll == [Started EXCEPT !.known = daemon.known, !.compacting = daemon.compacting]

\* Slip: the timestamp is rounded up.
StampRounded ==
  /\ DaemonAt("stamp")
  /\ daemon' = [daemon EXCEPT !.pc = "snapshot", !.at = clock + 1]
  /\ UNCHANGED <<echoesOnTake, clock, restarts, launched, rows, agents>>

Stamp ==
  /\ DaemonAt("stamp")
  /\ daemon' = [daemon EXCEPT !.pc = "snapshot", !.at = clock]
  /\ UNCHANGED <<echoesOnTake, clock, restarts, launched, rows, agents>>

\* session_snapshots, and the name's live row if it has one.
Snapshot ==
  /\ DaemonAt("snapshot")
  /\ \/ \E s \in Session :
          /\ rows[s].live
          /\ daemon' = [daemon EXCEPT !.pc = "read", !.row = s,
                          !.lastGrowth = rows[s].lastGrowth, !.mayKick = ~rows[s].kicked]
     \/ /\ \A s \in Session : ~rows[s].live
        /\ daemon' = EndPoll
  /\ UNCHANGED <<echoesOnTake, clock, restarts, launched, rows, agents>>

\* The transcript is looked for, measured and read.  Sizes are kept by name.
Read ==
  LET agent == agents[daemon.row] IN
  /\ DaemonAt("read")
  /\ \/ agent.size = 0 /\ daemon' = EndPoll
     \/ /\ agent.size # 0
        /\ daemon' = [daemon EXCEPT !.pc = "write reading", !.known = agent.size,
                        !.grew = agent.size # daemon.known, !.context = agent.context]
  /\ UNCHANGED <<echoesOnTake, clock, restarts, launched, rows, agents>>

\* record_reading reads the row back: one that does not materialize is rolled
\* back, and ends the daemon.
WriteReading ==
  LET row == Reading(rows[daemon.row], daemon.grew, daemon.at) IN
  /\ DaemonAt("write reading")
  /\ \/ /\ Materializes(row)
        /\ rows' = [rows EXCEPT ![daemon.row] = row]
        /\ daemon' = [daemon EXCEPT !.pc = "compact", !.grew = FALSE]
        /\ agents' = [agents EXCEPT ![daemon.row].compactions =
                        IF daemon.context = "under" THEN 0 ELSE @]
     \/ /\ ~Materializes(row)
        /\ daemon' = [daemon EXCEPT !.pc = "dead"]
        /\ UNCHANGED <<rows, agents>>
  /\ UNCHANGED <<echoesOnTake, clock, restarts, launched>>

\* cmd_prompt sends to the agent the runtime has under the name, and watches
\* the transcript of the latest row from where it ends now.
Send(prompt, pc) ==
  /\ agents' = [agents EXCEPT ![launched].sent = @ \cup {prompt}]
  /\ \E s \in Session :
       /\ Latest(s)
       /\ daemon' = [daemon EXCEPT !.pc = pc, !.watched = s, !.idle = ~agents[launched].busy]

\* It counts as taken when the transcript shows it or, for an agent that shows
\* it only with its reply, when the session it found idle is busy.
Taken(prompt) ==
  \/ prompt \in daemon.shown
  \/ ~echoesOnTake /\ daemon.idle /\ agents[launched].busy

MustCompact == daemon.context = "over" /\ ~daemon.compacting

CompactPrompt ==
  /\ DaemonAt("compact") /\ MustCompact
  /\ Send("compact", "compacting")
  /\ UNCHANGED <<echoesOnTake, clock, restarts, launched, rows>>

\* On to the kick, with what the context was forgotten.
ToKick(compacting) ==
  [daemon EXCEPT !.pc = "kick", !.compacting = compacting, !.context = "neither",
     !.watched = 0, !.shown = {}, !.idle = FALSE]

\* Slip: a commentator that is compacting is not looked at further.
LeaveContextEarly ==
  /\ DaemonAt("compact") /\ ~MustCompact
  /\ daemon' = IF daemon.context = "over" THEN EndPoll
               ELSE ToKick(daemon.compacting /\ daemon.context # "under")
  /\ UNCHANGED <<echoesOnTake, clock, restarts, launched, rows, agents>>

LeaveContext ==
  /\ DaemonAt("compact") /\ ~MustCompact
  /\ daemon' = ToKick(daemon.compacting /\ daemon.context # "under")
  /\ UNCHANGED <<echoesOnTake, clock, restarts, launched, rows, agents>>

CompactTaken ==
  /\ DaemonAt("compacting") /\ Taken("compact")
  /\ daemon' = ToKick(TRUE)
  /\ agents' = [agents EXCEPT ![daemon.row].compactions = IF @ < 2 THEN @ + 1 ELSE @]
  /\ UNCHANGED <<echoesOnTake, clock, restarts, launched, rows>>

\* Nothing in the time a prompt has: the error is journalled and swallowed.
CompactLost ==
  /\ DaemonAt("compacting") /\ ~Taken("compact")
  /\ daemon' = ToKick(daemon.compacting)
  /\ UNCHANGED <<echoesOnTake, clock, restarts, launched, rows, agents>>

\* quiet_seconds of the snapshot's row: its last growth before this reading.
GoneQuiet == daemon.at > daemon.lastGrowth + Stale

MustKick == GoneQuiet /\ daemon.mayKick /\ ~agents[launched].busy

Kick ==
  /\ DaemonAt("kick") /\ MustKick
  /\ Send("continue", "kicking")
  /\ UNCHANGED <<echoesOnTake, clock, restarts, launched, rows>>

LeaveAlone ==
  /\ DaemonAt("kick") /\ ~MustKick
  /\ daemon' = EndPoll
  /\ UNCHANGED <<echoesOnTake, clock, restarts, launched, rows, agents>>

\* record_kick, on the row the poll began with.
KickTaken ==
  /\ DaemonAt("kicking") /\ Taken("continue")
  /\ rows' = [rows EXCEPT ![daemon.row].kicked = TRUE]
  /\ agents' = [agents EXCEPT ![daemon.row].nudges =
                  IF agents[daemon.row].size # daemon.known THEN 0
                  ELSE IF @ < 2 THEN @ + 1 ELSE @]
  /\ daemon' = EndPoll
  /\ UNCHANGED <<echoesOnTake, clock, restarts, launched>>

KickLost ==
  /\ DaemonAt("kicking") /\ ~Taken("continue")
  /\ daemon' = EndPoll
  /\ UNCHANGED <<echoesOnTake, clock, restarts, launched, rows, agents>>

\* The daemon is killed, or died, and the lead starts it again.
Restart ==
  /\ launched + restarts < MaxStarts
  /\ restarts' = restarts + 1
  /\ daemon' = Started
  /\ agents' = [s \in Session |-> [agents[s] EXCEPT !.nudges = 0, !.compactions = 0]]
  /\ UNCHANGED <<echoesOnTake, clock, launched, rows>>

-----------------------------------------------------------------------------
(* Agents and time *)

\* The agent's transcript shows prompts, to a daemon that looks for one there.
Agent(s, a, shows) ==
  /\ agents' = [agents EXCEPT ![s] = a]
  /\ daemon' = IF s = daemon.watched THEN [daemon EXCEPT !.shown = @ \cup shows] ELSE daemon
  /\ UNCHANGED <<echoesOnTake, clock, restarts, launched, rows>>

CanGrow == MapThenSumSet(LAMBDA s : agents[s].size, Session) < MaxSize

Grown(a) == [a EXCEPT !.size = @ + 1, !.nudges = 0]

\* The agent takes a prompt it was sent, perhaps long after.
Take(s) ==
  \E prompt \in agents[s].sent :
    LET a == [agents[s] EXCEPT !.sent = @ \ {prompt}, !.busy = s = launched] IN
    \/ echoesOnTake /\ CanGrow /\ Agent(s, Grown(a), {prompt})
    \/ ~echoesOnTake /\ Agent(s, [a EXCEPT !.took = TRUE], {})

\* A line more; with it the agent's context is recorded, and a prompt that had
\* to wait for its reply is shown.
Write(s) ==
  LET a == agents[s] IN
  /\ s <= launched /\ CanGrow
  /\ \E c \in Contexts :
       Agent(s, [Grown(a) EXCEPT !.context = c, !.took = FALSE],
             IF a.took THEN {"continue"} ELSE {})

\* A turn starts that no prompt of the daemon's asked for, or ends: with the
\* line before, or interrupted by the human with nothing written.
Turn(s) ==
  /\ s = launched
  /\ Agent(s, [agents[s] EXCEPT !.busy = ~@], {})

Tick ==
  /\ clock < MaxClock /\ clock' = clock + 1
  /\ UNCHANGED <<echoesOnTake, restarts, launched, rows, agents, daemon>>

-----------------------------------------------------------------------------
DaemonStep ==
  \/ Stamp \/ Snapshot \/ Read \/ WriteReading
  \/ CompactPrompt \/ LeaveContext \/ CompactTaken \/ CompactLost
  \/ Kick \/ LeaveAlone \/ KickTaken \/ KickLost

Next ==
  \/ DaemonStep \/ Restart \/ StartAgent \/ WriteLaunch \/ Tick
  \/ \E s \in Session : Take(s) \/ Write(s) \/ Turn(s)

Spec == Init /\ [][Next]_vars

\* The daemon loops for as long as it is up.
FairSpec == Spec /\ WF_vars(DaemonStep)

-----------------------------------------------------------------------------
(* Properties *)

\* A launch never costs the run its daemon: no reading breaks the assertion
\* "last_growth cannot precede started_at" (domain/session.rs:166).
ReadingsAreKept == ~DaemonAt("dead")

\* A daemon nudges a session "once per stall, and not again until the
\* transcript has grown since the last nudge" (domain/session.rs:271), and asks
\* a commentator to compact once until its context was read under the limit
\* again, whatever launches, lost prompts and failed compactions come between.
PromptedOnce ==
  \A s \in Session : agents[s].nudges <= 1 /\ agents[s].compactions <= 1

\* The name's session is idle, quiet for too long, and not nudged yet.
Stalled(s) ==
  /\ rows[s].live /\ s = launched /\ agents[s].size # 0 /\ ~agents[s].busy
  /\ ~rows[s].kicked /\ clock > rows[s].lastGrowth + Stale
  /\ ~DaemonAt("dead")

\* A stalled session is nudged at some later poll, unless it grows, turns busy
\* or is launched again.
StallIsNoticed == \A s \in Session : Stalled(s) ~> (DaemonAt("kicking") \/ ~Stalled(s))
=============================================================================
