------------------------------ MODULE Launching ------------------------------
(***************************************************************************)
(* Launching sessions (src/coordinator.rs cmd_launch,                      *)
(* cmd_start_commentator; src/infra/session_runtime; src/infra/agent): the *)
(* settings, the terminal and the agent in it, how its session id is       *)
(* learned, Orca's registry of terminals, and the row.                     *)
(*                                                                         *)
(* An agent started is known by its number; a session id is the number of  *)
(* the agent that has it.  Somebody may run agents of the same kinds in    *)
(* other directories, whose projects have other names; in the run's own    *)
(* directory nobody but the supervisor does.  A launch may be killed, but  *)
(* only while it is the only one under way.                                *)
(***************************************************************************)
EXTENDS Settings, FiniteSets

CONSTANTS
  Launchers,   \* processes that launch
  Implementers,
  Commentator, \* commentator_agent_name
  Runtimes,    \* which of "herdr" and "orca" the run may be under
  RunDir,      \* the run's directory
  OtherDirs,   \* those of other projects
  MaxAgents

ASSUME LaunchingAssumption ==
  /\ Commentator \notin Implementers /\ None \notin Implementers \cup {Commentator}
  /\ Runtimes \subseteq {"herdr", "orca"} /\ RunDir \notin OtherDirs
  /\ MaxAgents \in Nat

VARIABLES
  runtime,
  agents,    \* the agents started, in order
  files,     \* the agents that have a transcript, in the order they last wrote it
  registry,  \* chainsaw-orca-terminals.json
  temporary, \* its .json.tmp, or NoFile
  rows,      \* the sessions table, in order
  launchers

vars == <<runtime, agents, files, registry, temporary, rows, launchers>>

-----------------------------------------------------------------------------
Names == Implementers \cup {Commentator}

Id == 1..MaxAgents

\* The kind of a name's sessions.
Kind(name) == IF name = Commentator THEN "commentator" ELSE "implementer"

\* briefed: whether the role prompt was sent to it.  An agent somebody else
\* started has no name.
AgentState == [name : Names \cup {None}, dir : {RunDir} \cup OtherDirs, agent : AgentKinds,
               flags : AgentKinds, briefed : BOOLEAN]

\* The terminal of each name, by the agent in it.
Registry == [Names -> 0..MaxAgents]

NoFile == [name \in {} |-> 0]

\* session: the agent started for the row, which the code does not know but as
\* its id.  alone: no other launch was under way beside it.
Row == [name : Names, id : Id, live : BOOLEAN, session : Id, alone : BOOLEAN]

\* since: the agents of the kind that wrote since the terminal was opened.
\* known: the registry as read, and then as it is to be.
Launcher == [pc : {"ready", "open", "await", "read", "write", "rename", "row", "brief"},
             name : Names, agent : AgentKinds, flags : AgentKinds, session : 0..MaxAgents,
             id : 0..MaxAgents, since : SUBSET Id, known : Registry, alone : BOOLEAN]

TypeOK ==
  /\ runtime \in Runtimes
  /\ agents \in Seq(AgentState) /\ Len(agents) <= MaxAgents
  /\ files \in Seq(DOMAIN agents)
  /\ registry \in Registry /\ temporary \in Registry \cup {NoFile}
  /\ rows \in Seq(Row)
  /\ launchers \in [Launchers -> Launcher]

NoTerminals == [name \in Names |-> 0]

Ready == [pc |-> "ready", name |-> Commentator, agent |-> Claude, flags |-> Claude,
          session |-> 0, id |-> 0, since |-> {}, known |-> NoTerminals, alone |-> TRUE]

Init ==
  /\ runtime \in Runtimes
  /\ agents = <<>> /\ files = <<>> /\ rows = <<>>
  /\ registry = NoTerminals /\ temporary = NoFile
  /\ launchers = [p \in Launchers |-> Ready]

-----------------------------------------------------------------------------
(* Settings, as a process may find them: two files and the --set flags *)

Layers == {EmptyTable} \cup
  {[EmptyTable EXCEPT !.implementer = role] : role \in Role}

Sets == {<<>>} \cup
  {<<[key |-> "implementer", table |-> layer]>> : layer \in Layers} \cup
  {<<[key |-> "implementer.args", table |-> [EmptyTable EXCEPT !.implementer.args = args]],
     [key |-> "implementer.agent", table |-> [EmptyTable EXCEPT !.implementer.agent = agent]]>> :
     args \in AgentKinds, agent \in AgentKinds}

\* The files may be edited between launches, so each reads its own.
Loaded(kind) ==
  {LET table == Load(f[1], f[2], EmptyTable, f[3]) IN
     <<LaunchAgent(table, kind), LaunchArgs(table, kind)>> :
     f \in {f \in Layers \X Layers \X Sets :
              LET global == LayOver(EmptyTable, f[1]) IN
              /\ WrittenFor(EmptyTable, f[1]) /\ WrittenFor(global, f[2])
              /\ WrittenFor(LayOver(global, f[2]), SetsLayer(f[3])) /\ Accepted(f[3])}}

\* What a session of each kind may be launched with, its agent and its flags.
Launches == [kind \in Kinds |-> Loaded(kind)]

-----------------------------------------------------------------------------
(* The launch *)

At(p, pc) == launchers[p].pc = pc

\* Whether the runtime makes the agent take an id of the supervisor's choosing.
Assigned(agent) == agent = Claude

Begin(p, name) ==
  LET others == {q \in Launchers : ~At(q, "ready")} IN
  /\ At(p, "ready") /\ Len(agents) + Cardinality(others) < MaxAgents
  /\ \E settings \in Launches[Kind(name)] :
       launchers' = [q \in Launchers |->
         IF q = p
         THEN [Ready EXCEPT !.pc = "open", !.name = name,
                 !.agent = settings[1],
                 !.flags = settings[2], !.alone = others = {}]
         ELSE [launchers[q] EXCEPT !.alone = FALSE]]
  /\ UNCHANGED <<runtime, agents, files, registry, temporary, rows>>

\* The command ends, well or with an error; a terminal it opened stays.
Leave(p) == launchers' = [launchers EXCEPT ![p] = Ready]

\* The terminal is opened and the agent runs in it.
Open(p) ==
  LET l == launchers[p]
      session == Len(agents) + 1 IN
  /\ At(p, "open")
  /\ agents' = Append(agents, [name |-> l.name, dir |-> RunDir, agent |-> l.agent,
                               flags |-> l.flags, briefed |-> FALSE])
  /\ launchers' = [launchers EXCEPT ![p] =
       IF runtime = "orca" /\ Assigned(l.agent)
       THEN [l EXCEPT !.pc = "read", !.session = session, !.id = session]
       ELSE [l EXCEPT !.pc = "await", !.session = session]]
  /\ UNCHANGED <<runtime, files, registry, temporary, rows>>

\* The runtime refuses, Herdr five times.
OpenFails(p) ==
  /\ At(p, "open") /\ Leave(p)
  /\ UNCHANGED <<runtime, agents, files, registry, temporary, rows>>

\* Herdr: `agent start`, or `agent get` of the name, reports the id.
Reported(p) ==
  /\ At(p, "await") /\ runtime = "herdr"
  /\ launchers' = [launchers EXCEPT ![p].pc = "row", ![p].id = launchers[p].session]
  /\ UNCHANGED <<runtime, agents, files, registry, temporary, rows>>

\* Whether the transcript lies where the agent files those of the run: Claude and
\* Cursor by the name of the project, Codex by the directory it names.
InProject(s) == agents[s].dir = RunDir

\* Slip: transcripts of every project are looked at.
StartedAnywhereSince(p) == launchers[p].since

\* session_started_since: the run's transcripts of the kind that were written
\* since the terminal was opened.
StartedSince(p) == {s \in launchers[p].since : InProject(s)}

\* Orca: the id is read from the agent's transcript once there is one, from the
\* one written last if there are more.
Found(p) ==
  /\ At(p, "await") /\ runtime = "orca"
  /\ \E i \in DOMAIN files :
       /\ files[i] \in StartedSince(p)
       /\ \A j \in DOMAIN files : files[j] \in StartedSince(p) => j <= i
       /\ launchers' = [launchers EXCEPT ![p].pc = "read", ![p].id = files[i]]
  /\ UNCHANGED <<runtime, agents, files, registry, temporary, rows>>

\* Thirty polls, and no id: of Herdr, whatever the transcripts say.
GiveUp(p) ==
  /\ At(p, "await") /\ (runtime = "orca" => StartedSince(p) = {})
  /\ Leave(p)
  /\ UNCHANGED <<runtime, agents, files, registry, temporary, rows>>

\* Slip: what the registry holds is not kept.
ReadNoRegistry(p) ==
  /\ At(p, "read")
  /\ launchers' = [launchers EXCEPT ![p].pc = "write",
       ![p].known = [NoTerminals EXCEPT ![launchers[p].name] = launchers[p].session]]
  /\ UNCHANGED <<runtime, agents, files, registry, temporary, rows>>

\* remember, in three steps: the registry is read and the name put in ...
ReadRegistry(p) ==
  /\ At(p, "read")
  /\ launchers' = [launchers EXCEPT ![p].pc = "write",
       ![p].known = [registry EXCEPT ![launchers[p].name] = launchers[p].session]]
  /\ UNCHANGED <<runtime, agents, files, registry, temporary, rows>>

\* ... written to the one temporary file ...
WriteTemporary(p) ==
  /\ At(p, "write")
  /\ temporary' = launchers[p].known
  /\ launchers' = [launchers EXCEPT ![p].pc = "rename", ![p].known = NoTerminals]
  /\ UNCHANGED <<runtime, agents, files, registry, rows>>

\* ... and renamed, which fails when another launch has just renamed it.
Rename(p) ==
  /\ At(p, "rename")
  /\ \/ /\ temporary # NoFile
        /\ registry' = temporary /\ temporary' = NoFile
        /\ launchers' = [launchers EXCEPT ![p].pc = "row"]
     \/ /\ temporary = NoFile
        /\ Leave(p) /\ UNCHANGED <<registry, temporary>>
  /\ UNCHANGED <<runtime, agents, files, rows>>

RowOf(p) ==
  LET l == launchers[p] IN
  [name |-> l.name, id |-> l.id, live |-> TRUE, session |-> l.session, alone |-> l.alone]

\* stop_named.
StopNamed(name) ==
  [r \in DOMAIN rows |->
     IF rows[r].name = name THEN [rows[r] EXCEPT !.live = FALSE] ELSE rows[r]]

\* What a launch does once its row is written: the commentator is briefed.
Written(p) ==
  launchers' = [launchers EXCEPT ![p] =
    IF Kind(@.name) = "commentator" THEN [Ready EXCEPT !.pc = "brief"] ELSE Ready]

\* One transaction; external_session_id is unique, and an id that has a row
\* fails it.
WriteRow(p) ==
  /\ At(p, "row")
  /\ \/ /\ \A r \in DOMAIN rows : rows[r].id # launchers[p].id
        /\ rows' = Append(StopNamed(launchers[p].name), RowOf(p)) /\ Written(p)
     \/ /\ \E r \in DOMAIN rows : rows[r].id = launchers[p].id
        /\ Leave(p) /\ UNCHANGED rows
  /\ UNCHANGED <<runtime, agents, files, registry, temporary>>

\* The agent a prompt to the name reaches: the terminal Orca's registry has for
\* it, or the agent Herdr last started under it.
Target(name) ==
  IF runtime = "orca" THEN registry[name]
  ELSE LET named == {s \in DOMAIN agents : agents[s].name = name} IN
       IF named = {} THEN 0 ELSE CHOOSE s \in named : \A t \in named : t <= s

\* cmd_start_commentator's prompt, which fails when the runtime has no such name.
Brief(p) ==
  /\ At(p, "brief") /\ Leave(p)
  /\ agents' = [s \in DOMAIN agents |->
       IF s = Target(Commentator) THEN [agents[s] EXCEPT !.briefed = TRUE] ELSE agents[s]]
  /\ UNCHANGED <<runtime, files, registry, temporary, rows>>

Kill(p) ==
  /\ ~At(p, "ready") /\ \A q \in Launchers \ {p} : At(q, "ready")
  /\ Leave(p)
  /\ UNCHANGED <<runtime, agents, files, registry, temporary, rows>>

\* An agent writes to its transcript, the first time or once more.
Write(s) ==
  /\ \/ s \notin ToSet(files) /\ files' = Append(files, s)
     \/ \E i \in DOMAIN files : files[i] = s /\ files' = Append(RemoveAt(files, i), s)
  /\ launchers' = [p \in Launchers |->
       IF At(p, "await") /\ launchers[p].agent = agents[s].agent
       THEN [launchers[p] EXCEPT !.since = @ \cup {s}] ELSE launchers[p]]
  /\ UNCHANGED <<runtime, agents, registry, temporary, rows>>

\* Somebody starts an agent for another project.
StartElsewhere(dir, agent) ==
  /\ Len(agents) + Cardinality({p \in Launchers : ~At(p, "ready")}) < MaxAgents
  /\ agents' = Append(agents, [name |-> None, dir |-> dir, agent |-> agent,
                               flags |-> agent, briefed |-> FALSE])
  /\ UNCHANGED <<runtime, files, registry, temporary, rows, launchers>>

-----------------------------------------------------------------------------
Next ==
  \/ \E p \in Launchers :
       \/ \E name \in Names : Begin(p, name)
       \/ Open(p) \/ OpenFails(p) \/ Reported(p) \/ Found(p) \/ GiveUp(p)
       \/ ReadRegistry(p) \/ WriteTemporary(p) \/ Rename(p) \/ WriteRow(p) \/ Brief(p)
       \/ Kill(p)
  \/ \E s \in DOMAIN agents : Write(s)
  \/ \E dir \in OtherDirs, agent \in AgentKinds : StartElsewhere(dir, agent)

Spec == Init /\ [][Next]_vars

-----------------------------------------------------------------------------
(* Properties *)

\* Whatever the layers say, and however their keys are split over files and
\* sets, an agent runs with flags that were written for it.
FlagsAreForTheAgent == \A s \in DOMAIN agents : agents[s].flags = agents[s].agent

\* Agents that run with no row and no launch that will write one: a launch of
\* theirs failed or was killed.
Orphans ==
  {s \in DOMAIN agents :
     /\ agents[s].name # None
     /\ \A r \in DOMAIN rows : rows[r].session # s
     /\ \A p \in Launchers : launchers[p].session # s}

\* As long as every launch so far came to its row, one that had no other beside
\* it is recorded under its own agent's id, although the agents launched before
\* it and agents of other projects may be writing while it looks for the newest
\* transcript: "a session of some other project running at the same moment must
\* not be taken for it" (src/infra/agent/cursor.rs:195).
IdsAreOwn ==
  Orphans = {} => \A r \in DOMAIN rows : rows[r].alone => rows[r].id = rows[r].session

\* The registry never loses a session: a live one that was launched alone is
\* reached under its name, or a later agent of the name is, whatever launches
\* were killed or overlapped before and since.
SessionsStayKnown ==
  \A r \in DOMAIN rows :
    rows[r].live /\ rows[r].alone => Target(rows[r].name) >= rows[r].session
=============================================================================
