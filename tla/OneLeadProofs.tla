---------------------------- MODULE OneLeadProofs ----------------------------
(***************************************************************************)
(* What holds of a lead that waits for each command before it gives the    *)
(* next, whatever the daemon, the implementers and other committers do     *)
(* meanwhile: Procs has at most one member.                                *)
(*                                                                         *)
(* OInv says that what the command read still holds when it uses it (Held) *)
(* - no task flies, the session is the newest of its name and nobody has   *)
(* it, the commits credited so far are no newer than the base, the prompt  *)
(* shows past the offset - and why: while a task flies, every commit that  *)
(* was credited is at or before its base, so a newer one is nobody's.      *)
(***************************************************************************)
EXTENDS CoordinatorProofs

OneLead == \A p, q \in Procs : p = q

Flies(row) == Exists(row) /\ StateOf(row) \in Flying

\* A transcript shows the prompt of task t past the offset.
Shows(lines, offset, t) == \E i \in (offset + 1)..Len(lines) : lines[i].task = t

\* Where a command is between finding that no task flies and its own writing one.
Placing == {"read offset", "read base", "prompt", "write dispatch"}
Sending == {"find session", "check prior"} \cup Placing

\* What a command read and has still to use.
Held(c) ==
  /\ c.pc \in Sending => \A t \in TaskId : ~Flies(tasks[t])
  /\ c.pc \in {"check prior"} \cup Placing => IsLatest(c.session, sessions[c.session].name)
  /\ c.pc \in Placing => \A t \in TaskId : tasks[t].session # c.session
  /\ c.pc \in {"read base", "prompt"} => c.offset <= Len(Transcript(c.session))
  /\ c.pc \in {"prompt", "write dispatch"} => \A t \in TaskId : tasks[t].commit <= c.base
  /\ c.pc = "write dispatch" /\ sessions[c.session].name \notin HeadOnly =>
       Shows(Transcript(c.session), c.offset, c.task)
  /\ c.pc \in {"write abort", "interrupt"} => c.session = tasks[c.task].session
  /\ c.pc \in {"gate", "write accept", "write forced commit"} => c.sha <= git.head

\* Nobody shows, owes or is about to record a commit before it was made.
LinesAreMade ==
  \A e \in Agent :
    /\ agents[e].owed <= git.head
    /\ \A i \in 1..Len(agents[e].lines) : agents[e].lines[i].commit <= git.head

FindIsMade == daemon.pc = "write commit" => daemon.sha <= git.head

CommitsAreMade ==
  /\ \A t \in TaskId : tasks[t].commit <= git.head
  /\ LinesAreMade /\ FindIsMade

\* Every commit credited was made before the flying task was dispatched.
CreditedBefore ==
  \A u \in TaskId : Flies(tasks[u]) => \A t \in TaskId : tasks[t].commit <= tasks[u].base

\* A task without a row has no facts; one with a session has a named one.
Clean ==
  \A t \in TaskId :
    /\ ~Exists(tasks[t]) => tasks[t] = NoRow
    /\ tasks[t].session # 0 => sessions[tasks[t].session].name \in Names

Settled ==
  /\ SingleFlight
  /\ FreshImplementer
  /\ DispatchedMeansTaken
  /\ CommitCreditedOnce
  /\ CommitsAreMade
  /\ CreditedBefore
  /\ Clean

OInv ==
  /\ Settled
  /\ Crashes = FALSE => AbortIsHeard
  /\ \A p \in Procs : Held(cli[p])

Sound == OneLead /\ IInv /\ OInv

-----------------------------------------------------------------------------
(* What every step but a dispatch, an abort and a launch keeps. *)

\* Facts once written stay, nothing takes off, and a commit is credited to a
\* flying task only.
TasksKeep ==
  \A t \in TaskId :
    /\ tasks'[t].session = tasks[t].session
    /\ tasks[t].session # 0 => tasks'[t].offset = tasks[t].offset
    /\ Flies(tasks'[t]) => Flies(tasks[t]) /\ tasks'[t].base = tasks[t].base
    /\ \/ tasks'[t].commit = tasks[t].commit
       \/ /\ Flies(tasks[t])
          /\ tasks'[t].commit > tasks[t].base /\ tasks'[t].commit <= git.head
    /\ ~Exists(tasks'[t]) => tasks'[t] = NoRow

NoneAborted ==
  \A t \in TaskId : Exists(tasks'[t]) /\ StateOf(tasks'[t]) = "aborted" =>
    Exists(tasks[t]) /\ StateOf(tasks[t]) = "aborted"

SessionsKeep ==
  \A s \in SessionId : sessions[s].name \in Names =>
    /\ sessions'[s].name = sessions[s].name /\ sessions'[s].agent = sessions[s].agent
    /\ sessions'[s].live => sessions[s].live

\* Transcripts are only appended to.
Extends(new, old) == Len(old) <= Len(new) /\ \A i \in 1..Len(old) : new[i] = old[i]

WorldKeeps ==
  /\ \A e \in Agent : Extends(agents'[e].lines, agents[e].lines)
  /\ git.head <= git'.head
  /\ runlog \subseteq runlog'
  /\ LinesAreMade'

LEMMA FlyingFlies == \A t \in TaskId : InState(t, Flying) <=> Flies(tasks[t])
  BY DEF InState, Flies

LEMMA Numbers ==
  ASSUME IInv
  PROVE  /\ \A t \in TaskId : /\ tasks[t] \in Row
                             /\ tasks[t].session \in SessionId \cup {0}
                             /\ tasks[t].commit \in Nat /\ tasks[t].base \in Nat
                             /\ tasks[t].offset \in Nat
         /\ git.head \in Nat
         /\ \A e \in Agent : agents[e] \in AgentState /\ agents[e].lines \in Seq(Line)
                             /\ agents[e].owed \in Nat /\ Len(agents[e].lines) \in Nat
         /\ \A s \in SessionId : sessions[s].name \in Names => sessions[s].agent \in Agent
  <1>1. ASSUME NEW t \in TaskId
        PROVE  /\ tasks[t] \in Row /\ tasks[t].session \in SessionId \cup {0}
               /\ tasks[t].commit \in Nat /\ tasks[t].base \in Nat /\ tasks[t].offset \in Nat
    BY DEF IInv, TypeOK, RowBound, Row
  <1>2. git.head \in Nat
    BY DEF IInv, TypeOK, Git, Commit
  <1>3. ASSUME NEW e \in Agent
        PROVE  agents[e] \in AgentState /\ agents[e].lines \in Seq(Line)
               /\ agents[e].owed \in Nat /\ Len(agents[e].lines) \in Nat
    <2>1. agents[e] \in AgentState
      BY DEF IInv, TypeOK
    <2>2. agents[e].lines \in Seq(Line) /\ agents[e].owed \in Commit \cup {0}
      BY <2>1 DEF AgentState
    <2> QED
      BY <2>1, <2>2 DEF Commit
  <1>4. \A s \in SessionId : sessions[s].name \in Names => sessions[s].agent \in Agent
    BY DEF IInv, SessionsBound
  <1> QED
    BY <1>1, <1>2, <1>3, <1>4

\* A prompt a transcript showed stays shown.
LEMMA ShowsStays ==
  ASSUME IInv, WorldKeeps, SessionsKeep, NEW s \in SessionId, sessions[s].name \in Names,
         NEW offset \in Nat, NEW t, Shows(Transcript(s), offset, t)
  PROVE  Shows(Transcript(s)', offset, t)
  <1> DEFINE e == sessions[s].agent
             old == agents[e].lines
             new == agents'[e].lines
  <1>1. e \in Agent /\ Len(old) \in Nat
    BY Numbers
  <1>2. Transcript(s) = old /\ Transcript(s)' = new
    BY DEF Transcript, SessionsKeep
  <1>3. Extends(new, old)
    BY <1>1 DEF WorldKeeps
  <1> HIDE DEF old, new, e
  <1>4. PICK i \in (offset + 1)..Len(old) : old[i].task = t
    BY <1>2 DEF Shows
  <1>5. i \in 1..Len(old)
    BY <1>1, <1>4
  <1>6. new[i] = old[i] /\ Len(old) <= Len(new)
    BY <1>3, <1>5 DEF Extends
  <1>7. i \in (offset + 1)..Len(new)
    BY <1>1, <1>4, <1>6
  <1> QED
    BY <1>2, <1>4, <1>6, <1>7 DEF Shows

-----------------------------------------------------------------------------
(* The settled facts and the held readings survive such steps. *)

LEMMA HeadMoves ==
  ASSUME IInv, IInv'
  PROVE  git.head \in Nat /\ git'.head \in Nat
  <1>1. git \in Git /\ git' \in Git
    BY DEF IInv, TypeOK
  <1> QED
    BY <1>1 DEF Git, Commit

LEMMA FactsStay ==
  ASSUME IInv, IInv', Settled, TasksKeep, SessionsKeep, WorldKeeps, FindIsMade'
  PROVE  Settled'
  <1>0. /\ SingleFlight /\ FreshImplementer /\ DispatchedMeansTaken /\ CommitCreditedOnce
        /\ CommitsAreMade /\ CreditedBefore /\ Clean
    BY DEF Settled
  <1>1. \A t \in TaskId :
          /\ tasks[t].commit \in Nat /\ tasks[t].base \in Nat /\ tasks[t].offset \in Nat
          /\ tasks[t].session \in SessionId \cup {0}
          /\ tasks'[t].session = tasks[t].session
          /\ tasks[t].session # 0 =>
               tasks'[t].offset = tasks[t].offset /\ sessions[tasks[t].session].name \in Names
          /\ Flies(tasks'[t]) => Flies(tasks[t]) /\ tasks'[t].base = tasks[t].base
          /\ \/ tasks'[t].commit = tasks[t].commit
             \/ /\ Flies(tasks[t])
                /\ tasks'[t].commit > tasks[t].base /\ tasks'[t].commit <= git.head
          /\ ~Exists(tasks'[t]) => tasks'[t] = NoRow
    BY <1>0, Numbers DEF TasksKeep, Clean
  <1>2. \A t \in TaskId : tasks'[t].commit \in Nat /\ (Flies(tasks'[t]) => tasks'[t].commit = 0)
    <2>1. SUFFICES ASSUME NEW t \in TaskId
                   PROVE  tasks'[t].commit \in Nat /\ (Flies(tasks'[t]) => tasks'[t].commit = 0)
      OBVIOUS
    <2>2. tasks'[t] \in Row /\ RowBound(tasks'[t])
      BY DEF IInv, TypeOK
    <2> QED
      BY <2>2 DEF Row, RowBound, Flies
  <1>3. git.head \in Nat /\ git'.head \in Nat /\ git.head <= git'.head
    BY HeadMoves DEF WorldKeeps
  <1>4. SingleFlight'
    BY <1>0, <1>1 DEF SingleFlight, InState, Flies
  <1>5. FreshImplementer'
    BY <1>0, <1>1 DEF FreshImplementer
  <1>6. CommitsAreMade'
    <2>1. ASSUME NEW t \in TaskId PROVE tasks'[t].commit <= git'.head
      <3>1. tasks'[t].commit \in Nat /\ tasks'[t].commit <= git.head
        BY <1>0, <1>1, <1>2 DEF CommitsAreMade
      <3> QED
        BY <1>3, <3>1
    <2> QED
      BY <2>1 DEF CommitsAreMade, WorldKeeps
  <1>7. Clean'
    BY <1>1 DEF Clean, SessionsKeep
  <1>8. \A t, u \in TaskId : Flies(tasks[t]) /\ Flies(tasks[u]) => t = u
    BY <1>0 DEF SingleFlight, InState, Flies
  <1>9. CreditedBefore'
    <2>1. SUFFICES ASSUME NEW u \in TaskId, Flies(tasks'[u]), NEW t \in TaskId
                   PROVE  tasks'[t].commit <= tasks'[u].base
      BY DEF CreditedBefore
    <2>2. tasks[t].commit <= tasks[u].base /\ tasks'[u].base = tasks[u].base /\ Flies(tasks[u])
      BY <1>0, <1>1, <2>1 DEF CreditedBefore
    <2>3. CASE tasks'[t].commit = tasks[t].commit
      BY <2>2, <2>3
    <2>4. CASE Flies(tasks[t])
      <3>1. t = u /\ tasks'[t].commit = 0 /\ tasks[u].base \in Nat
        BY <1>1, <1>2, <1>8, <2>1, <2>2, <2>4
      <3> QED
        BY <2>2, <3>1
    <2> QED
      BY <1>1, <2>3, <2>4
  <1>10. CommitCreditedOnce'
    <2>1. SUFFICES ASSUME NEW t \in TaskId, NEW u \in TaskId,
                          tasks'[t].commit = tasks'[u].commit, tasks'[t].commit # 0, t # u
                   PROVE  FALSE
      BY DEF CommitCreditedOnce
    <2>2. ASSUME NEW v \in TaskId, NEW w \in TaskId, v # w, tasks'[v].commit = tasks'[w].commit,
                 tasks'[v].commit # tasks[v].commit
          PROVE  FALSE
      <3>1. Flies(tasks[v]) /\ tasks'[v].commit > tasks[v].base
        BY <1>1, <2>2
      <3>2. tasks'[w].commit = tasks[w].commit
        BY <1>1, <1>8, <2>2, <3>1
      <3>3. tasks[w].commit <= tasks[v].base
        BY <1>0, <3>1 DEF CreditedBefore
      <3>4. /\ tasks'[v].commit = tasks[w].commit
            /\ tasks[w].commit \in Nat /\ tasks[v].base \in Nat /\ tasks'[v].commit \in Nat
        BY <1>1, <1>2, <2>2, <3>2
      <3> QED
        BY <3>1, <3>3, <3>4
    <2>3. tasks'[t].commit = tasks[t].commit /\ tasks'[u].commit = tasks[u].commit
      BY <2>1, <2>2
    <2> QED
      BY <1>0, <2>1, <2>3 DEF CommitCreditedOnce
  <1>11. DispatchedMeansTaken'
    <2>1. SUFFICES ASSUME NEW t \in TaskId, tasks'[t].session # 0,
                          sessions'[tasks'[t].session].name \notin HeadOnly
                   PROVE  Shows(Transcript(tasks[t].session)', tasks'[t].offset, t)
      BY DEF DispatchedMeansTaken, Shows
    <2>2. PICK s \in SessionId : s = tasks[t].session
      BY <1>1, <2>1
    <2>3. PICK offset \in Nat : offset = tasks[t].offset
      BY <1>1
    <2>4. /\ sessions[s].name \in Names /\ sessions'[s].name = sessions[s].name
          /\ tasks'[t].session = s /\ tasks'[t].offset = offset
      BY <1>1, <2>1, <2>2, <2>3 DEF SessionsKeep
    <2>5. sessions[s].name \notin HeadOnly
      BY <2>1, <2>4
    <2>6. Shows(Transcript(s), offset, t)
      BY <1>0, <1>1, <2>1, <2>2, <2>3, <2>4, <2>5 DEF DispatchedMeansTaken, Shows
    <2>7. Shows(Transcript(s)', offset, t)
      BY <2>4, <2>6, ShowsStays
    <2> QED
      BY <2>2, <2>3, <2>4, <2>7 DEF Shows, Transcript
  <1> QED
    BY <1>4, <1>5, <1>6, <1>7, <1>9, <1>10, <1>11 DEF Settled

\* What a command holds when it gets where it is going, it still holds there.
LEMMA HeldStays ==
  ASSUME IInv, IInv', Settled, TasksKeep, WorldKeeps, UNCHANGED sessions,
         NEW p \in Procs, NEW c \in Command, cli'[p] = c, Held(c)
  PROVE  Held(cli[p])'
  <1>1. /\ c.pc \in {"check prior"} \cup Placing =>
             c.session \in SessionId /\ sessions[c.session].name \in Names
        /\ c.pc \notin {"idle", "launching"} => c.task \in TaskId
        /\ c.offset \in Nat
    BY DEF IInv, CommandBound, Placed, Placing, Command
  <1>2. SessionsKeep
    BY DEF SessionsKeep
  <1>3. c.pc \in Sending => \A t \in TaskId : ~Flies(tasks'[t]) /\ tasks'[t].commit = tasks[t].commit
    BY DEF Held, TasksKeep
  <1>4. c.pc \in {"check prior"} \cup Placing => IsLatest(c.session, sessions[c.session].name)'
    BY DEF Held, IsLatest, Incarnations
  <1>5. c.pc \in Placing => \A t \in TaskId : tasks'[t].session # c.session
    BY DEF Held, TasksKeep
  <1>6. c.pc \in {"read base", "prompt"} => c.offset <= Len(Transcript(c.session)')
    <2>1. SUFFICES ASSUME c.pc \in {"read base", "prompt"}
                   PROVE  c.offset <= Len(Transcript(c.session)')
      OBVIOUS
    <2> DEFINE e == sessions[c.session].agent
    <2>2. e \in Agent
      BY <1>1, <2>1, Numbers DEF Placing
    <2> DEFINE offset == c.offset
               old == agents[e].lines
               new == agents'[e].lines
    <2>3. offset <= Len(old) /\ Transcript(c.session)' = new
      BY <2>1 DEF Held, Transcript
    <2>4. Len(old) <= Len(new) /\ Len(old) \in Nat /\ offset \in Nat
      BY <1>1, <2>2, Numbers DEF WorldKeeps, Extends
    <2> HIDE DEF e, offset, old, new
    <2>5. offset <= Len(new)
      BY <2>3, <2>4
    <2> QED
      BY <2>3, <2>5 DEF offset
  <1>7. c.pc \in {"prompt", "write dispatch"} => \A t \in TaskId : tasks'[t].commit <= c.base
    BY <1>3 DEF Held, Sending, Placing
  <1>8. c.pc = "write dispatch" /\ sessions'[c.session].name \notin HeadOnly =>
          Shows(Transcript(c.session)', c.offset, c.task)
    BY <1>1, <1>2, ShowsStays DEF Held, Placing
  <1>9. c.pc \in {"write abort", "interrupt"} => c.session = tasks'[c.task].session
    BY <1>1 DEF Held, TasksKeep
  <1>10. c.pc \in {"gate", "write accept", "write forced commit"} => c.sha <= git'.head
    <2> DEFINE sha == c.sha
               old == git.head
               new == git'.head
    <2>1. sha \in Nat
      <3>1. sha \in Commit \cup {0}
        BY DEF Command
      <3> HIDE DEF sha
      <3> QED
        BY <3>1 DEF Commit
    <2>2. old \in Nat /\ new \in Nat /\ old <= new
      BY HeadMoves DEF WorldKeeps
    <2>3. c.pc \in {"gate", "write accept", "write forced commit"} => sha <= old
      BY DEF Held
    <2> HIDE DEF sha, old, new
    <2>4. sha <= old => sha <= new
      BY <2>1, <2>2
    <2> QED
      BY <2>3, <2>4 DEF sha, new
  <1> QED
    BY <1>3, <1>4, <1>5, <1>6, <1>7, <1>8, <1>9, <1>10 DEF Held

\* An implementer that was told, or need not be, stays so.
LEMMA HeardStays ==
  ASSUME IInv, Settled, AbortIsHeard, TasksKeep, SessionsKeep, WorldKeeps, NoneAborted,
         \A p \in Procs : cli[p].pc = "interrupt" => cli'[p] = cli[p]
  PROVE  AbortIsHeard'
  <1>1. SUFFICES ASSUME NEW t \in TaskId, Exists(tasks'[t]), StateOf(tasks'[t]) = "aborted",
                        tasks'[t].session # 0, sessions'[tasks'[t].session].live,
                        \A p \in Procs : ~(cli'[p].pc = "interrupt" /\ cli'[p].task = t)
                 PROVE  t \in runlog'
    BY DEF AbortIsHeard, InState
  <1>2. InState(t, {"aborted"}) /\ tasks[t].session # 0 /\ tasks'[t].session = tasks[t].session
    BY <1>1 DEF NoneAborted, TasksKeep, InState
  <1>3. tasks[t].session \in SessionId /\ sessions[tasks[t].session].name \in Names
    BY <1>2, Numbers DEF Settled, Clean
  <1>4. sessions[tasks[t].session].live
    BY <1>1, <1>2, <1>3 DEF SessionsKeep
  <1>5. \A p \in Procs : ~(cli[p].pc = "interrupt" /\ cli[p].task = t)
    BY <1>1
  <1> QED
    BY <1>2, <1>4, <1>5 DEF AbortIsHeard, WorldKeeps

-----------------------------------------------------------------------------
(* Steps that write nothing, or one row that is neither a dispatch nor an abort. *)

LEMMA SameTasksKeep ==
  ASSUME Settled, UNCHANGED tasks
  PROVE  TasksKeep /\ NoneAborted
  BY DEF Settled, Clean, TasksKeep, NoneAborted

LEMMA SameWorldKeeps ==
  ASSUME IInv, Settled, UNCHANGED <<agents, git, runlog>>
  PROVE  WorldKeeps
  <1>1. \A e \in Agent : Extends(agents'[e].lines, agents[e].lines)
    BY Numbers DEF Extends
  <1>2. git.head <= git'.head /\ LinesAreMade'
    BY Numbers DEF Settled, CommitsAreMade, LinesAreMade
  <1> QED
    BY <1>1, <1>2 DEF WorldKeeps

LEMMA SameSessionsKeep ==
  ASSUME UNCHANGED sessions
  PROVE  SessionsKeep
  BY DEF SessionsKeep

LEMMA FindStays ==
  ASSUME IInv, IInv', Settled, WorldKeeps, daemon' = daemon
  PROVE  FindIsMade'
  <1> DEFINE sha == daemon.sha
             old == git.head
             new == git'.head
  <1>1. sha \in Nat
    <2>1. sha \in Commit \cup {0}
      BY DEF IInv, TypeOK, Daemon
    <2> HIDE DEF sha
    <2> QED
      BY <2>1 DEF Commit
  <1>2. old \in Nat /\ new \in Nat /\ old <= new
    BY HeadMoves DEF WorldKeeps
  <1>3. daemon.pc = "write commit" => sha <= old
    BY DEF Settled, CommitsAreMade, FindIsMade
  <1> HIDE DEF sha, old, new
  <1>4. sha <= old => sha <= new
    BY <1>1, <1>2
  <1> QED
    BY <1>3, <1>4 DEF FindIsMade, sha, new

\* The lead goes on, and nothing it relies on is disturbed.
LEMMA LeadStep ==
  ASSUME Sound, IInv', NEW p \in Procs, NEW c \in Command, Goto(p, c), Held(c),
         TasksKeep, NoneAborted, WorldKeeps, UNCHANGED <<sessions, daemon>>,
         cli[p].pc = "interrupt" => Crashes
  PROVE  OInv'
  <1>0. IInv /\ Settled /\ (Crashes = FALSE => AbortIsHeard)
    BY DEF Sound, OInv
  <1>1. cli'[p] = c /\ \A q \in Procs : q = p
    BY <1>0 DEF Goto, IInv, TypeOK, Sound, OneLead
  <1>2. Held(cli[p])'
    BY <1>0, <1>1, HeldStays
  <1>3. SessionsKeep /\ FindIsMade'
    BY <1>0, FindStays, SameSessionsKeep
  <1>4. Settled'
    BY <1>0, <1>3, FactsStay
  <1>5. Crashes = FALSE => AbortIsHeard'
    <2>1. Crashes = FALSE => \A q \in Procs : cli[q].pc # "interrupt"
      BY <1>1
    <2> QED
      BY <1>0, <1>3, <2>1, HeardStays
  <1>6. \A q \in Procs : Held(cli[q])'
    BY <1>1, <1>2
  <1> QED
    BY <1>4, <1>5, <1>6 DEF OInv

LEMMA ReadsOnHolds ==
  ASSUME Sound, IInv', NEW p \in Procs, NEW c \in Command, ReadsOn(p, c), Held(c),
         cli[p].pc = "interrupt" => Crashes
  PROVE  OInv'
  <1>1. UNCHANGED <<tasks, sessions, runlog, agents, git, daemon>> /\ Goto(p, c)
    BY DEF ReadsOn, database, world
  <1> QED
    BY <1>1, LeadStep, SameTasksKeep, SameWorldKeeps DEF Sound, OInv

\* Most places rely on nothing that was read.
Bare == {"idle", "launching", "check flying", "abort", "create", "look again",
         "write forced accept", "write forced commentary"}

LEMMA BareHolds ==
  ASSUME NEW c, c.pc \in Bare
  PROVE  Held(c)
  BY DEF Held, Bare, Sending, Placing

LEMMA IdleHolds == Idle \in Command /\ Held(Idle)
  <1>1. Idle \in Command /\ Idle.pc \in Bare
    BY IdleBound DEF Bare
  <1>2. Held(Idle)
    BY <1>1, BareHolds
  <1> QED
    BY <1>1, <1>2

LEMMA RefusedHolds ==
  ASSUME Sound, IInv', NEW p \in Procs, Refused(p), cli[p].pc = "interrupt" => Crashes
  PROVE  OInv'
  BY IdleHolds, ReadsOnHolds DEF Refused, ReadsOn, Done

\* The row does not take off, and its commit was made.
Lands(t, row) ==
  /\ Succeeds(t, row)
  /\ Exists(tasks[t]) =>
       /\ StateOf(row) = "dispatched" => StateOf(tasks[t]) = "dispatched"
       /\ row.commit = tasks[t].commit \/ row.commit <= git.head

\* Nor is it aborted.
Follows(t, row) ==
  /\ Lands(t, row)
  /\ StateOf(row) = "aborted" => Exists(tasks[t]) /\ StateOf(tasks[t]) = "aborted"

\* Whatever its verdict, a row that does not take off keeps the facts of the one before.
LEMMA SuccessorFacts ==
  ASSUME IInv, NEW t \in TaskId, Exists(tasks[t]), NEW row \in Row, Succeeds(t, row),
         StateOf(row) = "dispatched" => StateOf(tasks[t]) = "dispatched"
  PROVE  /\ row.session = tasks[t].session /\ row.offset = tasks[t].offset
         /\ Flies(row) => Flies(tasks[t])
         /\ row.base = tasks[t].base
         /\ \/ row.commit = tasks[t].commit
            \/ Flies(tasks[t]) /\ row.commit > row.base
  <1>1. Exists(row) /\ Continues(tasks[t], row) /\ RowBound(row)
    BY DEF Succeeds, Continues
  <1>2. CASE row = tasks[t]
    BY <1>2
  <1>3. CASE /\ StateOf(tasks[t]) = "drafted" /\ StateOf(row) = "dispatched"
             /\ DispatchedOf(row, tasks[t])
    BY <1>3
  <1>4. CASE /\ StateOf(tasks[t]) = "dispatched" /\ StateOf(row) = "in_flight"
             /\ SameFacts(row, tasks[t])
    BY <1>4 DEF SameFacts, SameColumns, Flies, Flying
  <1>5. CASE /\ StateOf(tasks[t]) \in Flying /\ StateOf(row) \in Committed
             /\ CommittedOf(row, tasks[t])
    <2>1. ~Flies(row)
      BY <1>5 DEF Flies, Flying, Committed
    <2>2. row.commit # 0
      BY <1>5 DEF Succeeds, Valid
    <2> QED
      BY <1>1, <1>5, <2>1, <2>2 DEF CommittedOf, Flies, RowBound, Beyond
  <1>6. CASE /\ StateOf(row) \in Terminal /\ CanTransition(StateOf(tasks[t]), StateOf(row))
             /\ SameFacts(row, tasks[t])
    BY <1>6 DEF SameFacts, SameColumns, Flies, Flying, Terminal
  <1>7. CASE StateOf(tasks[t]) \in Committed /\ StampedOf(row, tasks[t])
    <2>1. StateOf(row) = StateOf(tasks[t])
      BY <1>7 DEF StampedOf, StateOf
    <2> QED
      BY <1>7, <2>1 DEF StampedOf, SameColumns, Flies, Flying, Committed
  <1> QED
    BY <1>1, <1>2, <1>3, <1>4, <1>5, <1>6, <1>7 DEF Continues

\* A row inserted has no facts yet.
LEMMA InsertedFacts ==
  ASSUME Clean, NEW t \in TaskId, ~Exists(tasks[t]), NEW row \in Row, Succeeds(t, row)
  PROVE  /\ tasks[t].session = 0 /\ tasks[t].commit = 0
         /\ row.session = 0 /\ row.commit = 0 /\ ~Flies(row) /\ StateOf(row) = "drafted"
  <1>1. tasks[t] = NoRow /\ Drafted(row)
    BY DEF Clean, Succeeds
  <1> QED
    BY <1>1 DEF NoRow, Drafted, Flies, Flying

LEMMA RowLands ==
  ASSUME IInv, Settled, NEW t \in TaskId, NEW row, Lands(t, row), SetTask(t, row)
  PROVE  TasksKeep
  <1>1. row \in Row /\ Exists(row) /\ Succeeds(t, row) /\ Clean
    BY SucceedsIsRow DEF Lands, Settled
  <1>2. \A u \in TaskId : tasks'[u] = IF u = t THEN row ELSE tasks[u]
    BY DEF IInv, TypeOK, SetTask
  <1>3. /\ row.session = tasks[t].session
        /\ tasks[t].session # 0 => row.offset = tasks[t].offset
        /\ Flies(row) => Flies(tasks[t]) /\ row.base = tasks[t].base
        /\ \/ row.commit = tasks[t].commit
           \/ Flies(tasks[t]) /\ row.commit > tasks[t].base /\ row.commit <= git.head
    <2>1. CASE Exists(tasks[t])
      BY <1>1, <2>1, SuccessorFacts DEF Lands
    <2>2. CASE ~Exists(tasks[t])
      BY <1>1, <2>2, InsertedFacts
    <2> QED
      BY <2>1, <2>2
  <1> QED
    BY <1>1, <1>2, <1>3 DEF TasksKeep, Clean

LEMMA RowKeeps ==
  ASSUME IInv, Settled, NEW t \in TaskId, NEW row, Follows(t, row), SetTask(t, row)
  PROVE  TasksKeep /\ NoneAborted
  <1>1. TasksKeep
    BY RowLands DEF Follows
  <1>2. \A u \in TaskId : tasks'[u] = IF u = t THEN row ELSE tasks[u]
    BY DEF IInv, TypeOK, SetTask
  <1>3. NoneAborted
    BY <1>2 DEF NoneAborted, Follows
  <1> QED
    BY <1>1, <1>3

LEMMA TransactsHolds ==
  ASSUME Sound, IInv', NEW p \in Procs, NEW t \in TaskId, NEW outcomes,
         \A row \in outcomes : Follows(t, row), Transacts(p, t, outcomes),
         cli[p].pc # "interrupt"
  PROVE  OInv'
  <1>1. CASE Refused(p)
    BY <1>1, RefusedHolds
  <1>2. CASE /\ \E row \in outcomes : SetTask(t, row)
             /\ Done(p)
             /\ UNCHANGED <<sessions, runlog, world, daemon>>
    <2>1. TasksKeep /\ NoneAborted
      BY <1>2, RowKeeps DEF Sound, OInv
    <2>2. WorldKeeps
      BY <1>2, SameWorldKeeps DEF Sound, OInv, world
    <2> QED
      BY <1>2, <2>1, <2>2, IdleHolds, LeadStep DEF Done
  <1> QED
    BY <1>1, <1>2 DEF Transacts

\* The daemon or the world goes on.
LEMMA OthersStep ==
  ASSUME Sound, IInv', TasksKeep, NoneAborted, WorldKeeps, UNCHANGED <<sessions, cli>>,
         FindIsMade'
  PROVE  OInv'
  <1>0. IInv /\ Settled /\ (Crashes = FALSE => AbortIsHeard)
    BY DEF Sound, OInv
  <1>1. ASSUME NEW p \in Procs PROVE Held(cli[p])'
    <2>1. cli[p] \in Command /\ cli'[p] = cli[p] /\ Held(cli[p])
      BY DEF Sound, OInv, IInv, TypeOK
    <2> QED
      BY <1>0, <2>1, HeldStays
  <1>2. SessionsKeep
    BY SameSessionsKeep
  <1>3. Settled'
    BY <1>0, <1>2, FactsStay
  <1>4. Crashes = FALSE => AbortIsHeard'
    BY <1>0, <1>2, HeardStays
  <1> QED
    BY <1>1, <1>3, <1>4 DEF OInv

-----------------------------------------------------------------------------
(* launch *)

LEMMA StartAgentHolds ==
  ASSUME Sound, IInv', NEW p \in Procs, NEW n \in Names, StartAgent(p, n)
  PROVE  OInv'
  <1>1. PICK e \in Agent :
          /\ agents' = [agents EXCEPT ![e].name = n]
          /\ Goto(p, [Idle EXCEPT !.pc = "launching", !.agent = e])
    BY DEF StartAgent
  <1>2. UNCHANGED <<tasks, sessions, runlog, git, daemon>> /\ cli[p].pc = "idle"
    BY DEF StartAgent, Starts, database
  <1> DEFINE c == [Idle EXCEPT !.pc = "launching", !.agent = e]
  <1>3. c \in Command /\ c.pc \in Bare
    BY DEF Idle, Command, Bare
  <1>4. \A d \in Agent : agents'[d].lines = agents[d].lines /\ agents'[d].owed = agents[d].owed
    <2>1. agents \in [Agent -> AgentState]
      BY DEF Sound, IInv, TypeOK
    <2> QED
      BY <1>1, <2>1 DEF AgentState
  <1>5. WorldKeeps
    <2>1. \A d \in Agent : Extends(agents'[d].lines, agents[d].lines)
      BY <1>4, Numbers DEF Extends, Sound
    <2>2. git.head <= git'.head /\ LinesAreMade'
      BY <1>2, <1>4, Numbers DEF Sound, OInv, Settled, CommitsAreMade, LinesAreMade
    <2> QED
      BY <1>2, <2>1, <2>2 DEF WorldKeeps
  <1>6. TasksKeep /\ NoneAborted
    BY <1>2, SameTasksKeep DEF Sound, OInv
  <1> HIDE DEF c
  <1>7. Held(c)
    BY <1>3, BareHolds
  <1> QED
    BY <1>1, <1>2, <1>3, <1>5, <1>6, <1>7, LeadStep DEF c

\* A row is put after those there are, and the older ones of its name end.
LEMMA WriteLaunchHolds ==
  ASSUME Sound, IInv', NEW p \in Procs, WriteLaunch(p)
  PROVE  OInv'
  <1>0. IInv /\ Settled /\ (Crashes = FALSE => AbortIsHeard)
    BY DEF Sound, OInv
  <1>1. PICK s \in SessionId :
          /\ sessions[s] = NoSession
          /\ sessions' = [r \in SessionId |->
               IF r = s THEN [name |-> agents[cli[p].agent].name, agent |-> cli[p].agent,
                              live |-> TRUE]
               ELSE [sessions[r] EXCEPT
                       !.live = @ /\ sessions[r].name # agents[cli[p].agent].name]]
    BY DEF WriteLaunch
  <1>2. /\ UNCHANGED <<tasks, runlog, agents, git, daemon>> /\ cli[p].pc = "launching"
        /\ Goto(p, Idle)
    BY DEF WriteLaunch, Done, world
  <1>3. SessionsKeep
    <2>1. \A r \in SessionId : sessions[r] \in SessionRow
      BY <1>0 DEF IInv, TypeOK
    <2>2. sessions[s].name \notin Names
      <3>1. NoSession.name = "no session"
        BY DEF NoSession
      <3> QED
        BY <1>1, <3>1, ConstantsAssumption DEF ConstantsAssumption
    <2>3. ASSUME NEW r \in SessionId, sessions[r].name \in Names
          PROVE  /\ sessions'[r].name = sessions[r].name /\ sessions'[r].agent = sessions[r].agent
                 /\ sessions'[r].live => sessions[r].live
      <3>1. sessions'[r] = [sessions[r] EXCEPT
                              !.live = @ /\ sessions[r].name # agents[cli[p].agent].name]
        BY <1>1, <2>2, <2>3
      <3> QED
        BY <2>1, <3>1 DEF SessionRow
    <2> QED
      BY <2>3 DEF SessionsKeep
  <1>4. TasksKeep /\ NoneAborted /\ WorldKeeps /\ FindIsMade'
    BY <1>0, <1>2, SameTasksKeep, SameWorldKeeps, FindStays
  <1>5. Settled'
    BY <1>0, <1>3, <1>4, FactsStay
  <1>6. cli'[p] = Idle /\ \A q \in Procs : q = p
    BY <1>0, <1>2 DEF Goto, IInv, TypeOK, Sound, OneLead
  <1>7. Crashes = FALSE => AbortIsHeard'
    BY <1>0, <1>2, <1>3, <1>4, <1>6, HeardStays
  <1>8. \A q \in Procs : Held(cli[q])'
    <2>1. Idle.pc \in Bare
      BY DEF Idle, Bare
    <2>2. ASSUME NEW q \in Procs PROVE Held(cli[q])'
      <3>1. cli'[q].pc \in Bare
        BY <1>6, <2>1
      <3> QED
        BY <3>1 DEF Held, Bare, Sending, Placing
    <2> QED
      BY <2>2
  <1> QED
    BY <1>5, <1>7, <1>8 DEF OInv

-----------------------------------------------------------------------------
(* task new, and abort *)

LEMMA NewHolds ==
  ASSUME Sound, IInv', NEW p \in Procs, New(p)
  PROVE  OInv'
  <1>1. PICK t \in TaskId : IsFree(t) /\ \E row \in Create(t, 0) : SetTask(t, row)
    BY DEF New
  <1>2. PICK row \in Create(t, 0) : SetTask(t, row)
    BY <1>1
  <1>3. Succeeds(t, row) /\ StateOf(row) = "drafted"
    BY <1>1, <1>2, DraftSucceeds, CreateIsRow DEF IsFree, Sound
  <1>4. Follows(t, row)
    BY <1>1, <1>3 DEF Follows, Lands, IsFree
  <1>5. UNCHANGED <<sessions, runlog, agents, git, cli, daemon>>
    BY DEF New, world
  <1> QED
    BY <1>2, <1>4, <1>5, RowKeeps, SameWorldKeeps, FindStays, OthersStep DEF Sound, OInv

LEMMA DraftFollows ==
  ASSUME IInv, NEW t \in TaskId, ~Exists(tasks[t]), NEW retryOf \in TaskId \cup {0},
         retryOf # 0 => InState(retryOf, {"aborted"}), NEW row \in Create(t, retryOf)
  PROVE  Follows(t, row)
  <1>1. Succeeds(t, row) /\ StateOf(row) = "drafted"
    BY DraftSucceeds, CreateIsRow DEF TaskId
  <1> QED
    BY <1>1 DEF Follows, Lands

LEMMA RetryHolds ==
  ASSUME Sound, IInv', NEW p \in Procs, NEW t \in TaskId, Retry(p, t)
  PROVE  OInv'
  <1>1. PICK pc \in {"abort", "create"} :
          ReadsOn(p, [Idle EXCEPT !.pc = pc, !.task = t, !.superseding = TRUE])
    BY DEF Retry
  <1> DEFINE c == [Idle EXCEPT !.pc = pc, !.task = t, !.superseding = TRUE]
  <1>2. c \in Command /\ c.pc \in Bare /\ cli[p].pc = "idle"
    BY DEF Retry, Starts, Idle, Command, Bare
  <1>3. ReadsOn(p, c)
    BY <1>1
  <1> HIDE DEF c
  <1> QED
    BY <1>2, <1>3, BareHolds, ReadsOnHolds

LEMMA CreateRetryHolds ==
  ASSUME Sound, IInv', NEW p \in Procs, CreateRetry(p)
  PROVE  OInv'
  <1>1. /\ cli[p].pc = "create" /\ cli[p].task \in TaskId
        /\ InState(cli[p].task, {"aborted"})
    BY CommandNow DEF CreateRetry, Sound, CommandBound, Placed, InState
  <1>2. CASE Refused(p)
    BY <1>1, <1>2, RefusedHolds
  <1>3. ASSUME NEW t \in TaskId, IsFree(t), NEW row \in Create(t, cli[p].task),
               SetTask(t, row), Done(p), UNCHANGED <<sessions, runlog, world, daemon>>
        PROVE  OInv'
    <2>1. Follows(t, row)
      BY <1>1, <1>3, DraftFollows DEF IsFree, Sound
    <2>2. TasksKeep /\ NoneAborted /\ WorldKeeps
      BY <1>3, <2>1, RowKeeps, SameWorldKeeps DEF Sound, OInv, world
    <2> QED
      BY <1>1, <1>3, <2>2, IdleHolds, LeadStep DEF Done
  <1> QED
    BY <1>2, <1>3 DEF CreateRetry

\* The session an abort is to tell is the task's, and remains so.
LEMMA AbortSnapshotHolds ==
  ASSUME Sound, IInv', NEW p \in Procs, NEW t \in TaskId, NEW superseding \in BOOLEAN,
         AbortSnapshot(p, t, superseding), cli[p].pc # "interrupt"
  PROVE  OInv'
  <1> DEFINE c == [Idle EXCEPT !.pc = "write abort", !.task = t,
                     !.session = tasks[t].session, !.superseding = superseding]
  <1>1. tasks[t].session \in SessionId \cup {0}
    BY Numbers DEF Sound
  <1>2. /\ c \in Command /\ c.pc = "write abort" /\ c.task = t
        /\ c.session = tasks[t].session
    BY <1>1 DEF Idle, Command
  <1>3. ReadsOn(p, c)
    BY DEF AbortSnapshot, SessionToTell
  <1> HIDE DEF c
  <1>4. Held(c)
    BY <1>2 DEF Held, Sending, Placing
  <1> QED
    BY <1>2, <1>3, <1>4, ReadsOnHolds

LEMMA AbortTaskHolds ==
  ASSUME Sound, IInv', NEW p \in Procs, NEW t \in TaskId, AbortTask(p, t)
  PROVE  OInv'
  BY AbortSnapshotHolds DEF AbortTask, Starts

LEMMA SupersedeHolds ==
  ASSUME Sound, IInv', NEW p \in Procs, Supersede(p)
  PROVE  OInv'
  <1>1. cli[p].pc = "abort" /\ cli[p].task \in TaskId
    BY CommandNow DEF Supersede, Sound, CommandBound, Placed
  <1> QED
    BY <1>1, AbortSnapshotHolds, RefusedHolds DEF Supersede

LEMMA VerdictLands ==
  ASSUME IInv, NEW t \in TaskId, Exists(tasks[t]), NEW verdict \in Terminal,
         NEW reason \in Reason,
         NEW row \in Advance(t, tasks[t], verdict, reason, TRUE, tasks[t])
  PROVE  Lands(t, row) /\ StateOf(row) = verdict
  <1>1. SameFacts(row, tasks[t]) /\ StateOf(row) = verdict
    BY RowNow, JudgeContinues
  <1>2. Succeeds(t, row)
    BY VerdictSucceeds
  <1> QED
    BY <1>1, <1>2 DEF Lands, SameFacts, SameColumns, Terminal

\* The task is aborted, and the command has to tell its session if it has one.
LEMMA WriteAbortHolds ==
  ASSUME Sound, IInv', NEW p \in Procs, WriteAbort(p)
  PROVE  OInv'
  <1> DEFINE t == cli[p].task
  <1>0. /\ IInv /\ Settled /\ (Crashes = FALSE => AbortIsHeard)
        /\ \A q \in Procs : q = p
        /\ cli[p].pc = "write abort" /\ cli[p] \in Command
        /\ t \in TaskId /\ Exists(tasks[t]) /\ cli[p].session = tasks[t].session
    BY CommandNow DEF Sound, OneLead, OInv, Held, WriteAbort, CommandBound, Placed, IInv, TypeOK
  <1>1. CASE Refused(p)
    BY <1>0, <1>1, RefusedHolds
  <1>2. ASSUME NEW reason \in Reasons, NEW row \in Abort(t, tasks[t], reason), SetTask(t, row),
               IF cli[p].session # 0
               THEN Goto(p, [cli[p] EXCEPT !.pc = "interrupt"])
               ELSE AfterAbort(p),
               UNCHANGED <<sessions, runlog, world, daemon>>
        PROVE  OInv'
    <2>1. Lands(t, row) /\ StateOf(row) = "aborted"
      <3>1. reason \in Reason /\ "aborted" \in Terminal
        BY DEF Reason, Terminal
      <3> QED
        BY <1>0, <1>2, <3>1, VerdictLands DEF Abort
    <2>2. TasksKeep /\ SessionsKeep /\ WorldKeeps /\ FindIsMade'
      BY <1>0, <1>2, <2>1, RowLands, SameSessionsKeep, SameWorldKeeps, FindStays DEF world
    <2>3. Settled'
      BY <1>0, <2>2, FactsStay
    <2>4. PICK c \in Command :
            /\ Goto(p, c)
            /\ \/ c.pc \in {"idle", "create"} /\ tasks[t].session = 0
               \/ c.pc = "interrupt" /\ c.task = t /\ c.session = tasks[t].session
      <3>1. CASE cli[p].session # 0
        <4> DEFINE d == [cli[p] EXCEPT !.pc = "interrupt"]
        <4>1. /\ d \in Command /\ d.pc = "interrupt" /\ d.task = t
              /\ d.session = cli[p].session
          BY <1>0, <3>1 DEF Command
        <4>2. Goto(p, d)
          BY <1>2, <3>1
        <4> HIDE DEF d
        <4> QED
          BY <1>0, <4>1, <4>2
      <3>2. CASE cli[p].session = 0
        BY <1>0, <1>2, <3>2, AfterAbortBound
      <3> QED
        BY <3>1, <3>2
    <2>5. cli'[p] = c
      BY <1>0, <2>4 DEF Goto, IInv, TypeOK
    <2>6. Held(c)
      BY <2>4 DEF Held, Sending, Placing
    <2>7. \A q \in Procs : Held(cli[q])'
      BY <1>0, <1>2, <2>2, <2>5, <2>6, HeldStays
    <2>8. Crashes = FALSE => AbortIsHeard'
      <3>1. SUFFICES ASSUME AbortIsHeard, NEW u \in TaskId, InState(u, {"aborted"})',
                            tasks'[u].session # 0, sessions'[tasks'[u].session].live,
                            ~(cli'[p].pc = "interrupt" /\ cli'[p].task = u)
                     PROVE  u \in runlog'
        BY <1>0 DEF AbortIsHeard
      <3>2. u # t
        BY <2>2, <2>4, <2>5, <3>1 DEF TasksKeep
      <3>3. tasks'[u] = tasks[u]
        BY <1>0, <1>2, <3>2 DEF SetTask, IInv, TypeOK
      <3>4. \A q \in Procs : cli[q].pc # "interrupt"
        BY <1>0
      <3> QED
        BY <1>2, <3>1, <3>3, <3>4 DEF AbortIsHeard, InState
    <2> QED
      BY <2>3, <2>7, <2>8 DEF OInv
  <1> QED
    BY <1>1, <1>2 DEF WriteAbort

\* Agents show one line more, of a commit that was made, or owe the newest one.
LEMMA WorldGrows ==
  ASSUME IInv, IInv', Settled, git.head <= git'.head, runlog \subseteq runlog',
         NEW line \in Line, line.commit <= git'.head,
         \A e \in Agent :
           /\ \/ agents'[e].lines = agents[e].lines
              \/ agents'[e].lines = Append(agents[e].lines, line)
           /\ \/ agents'[e].owed \in {agents[e].owed, 0}
              \/ agents'[e].owed = git'.head
  PROVE  WorldKeeps
  <1>1. git.head \in Nat /\ git'.head \in Nat
    BY HeadMoves
  <1>2. ASSUME NEW e \in Agent
        PROVE  Extends(agents'[e].lines, agents[e].lines)
    <2>1. agents[e].lines \in Seq(Line)
      BY Numbers
    <2> DEFINE old == agents[e].lines
               new == agents'[e].lines
    <2>2. new = old \/ new = Append(old, line)
      OBVIOUS
    <2> HIDE DEF old, new
    <2>3. old \in Seq(Line)
      BY <2>1 DEF old
    <2>4. Extends(new, old)
      BY <2>2, <2>3 DEF Extends
    <2> QED
      BY <2>4 DEF old, new
  <1>3. ASSUME NEW e \in Agent
        PROVE  /\ agents'[e].owed <= git'.head
               /\ \A i \in 1..Len(agents'[e].lines) : agents'[e].lines[i].commit <= git'.head
    <2>1. /\ agents[e].owed \in Nat /\ agents[e].owed <= git.head
          /\ \A i \in 1..Len(agents[e].lines) : agents[e].lines[i].commit <= git.head
          /\ agents[e].lines \in Seq(Line)
      BY Numbers DEF Settled, CommitsAreMade, LinesAreMade
    <2>2. agents'[e].owed <= git'.head
      BY <1>1, <2>1
    <2> DEFINE lines == agents[e].lines
               later == agents'[e].lines
               old == git.head
               new == git'.head
    <2>3. /\ later = lines \/ later = Append(lines, line)
          /\ lines \in Seq(Line) /\ old \in Nat /\ new \in Nat /\ old <= new
          /\ \A i \in 1..Len(lines) : lines[i].commit <= old
          /\ line.commit <= new
      BY <1>1, <2>1
    <2> HIDE DEF lines, later, old, new
    <2>4. \A i \in 1..Len(later) : later[i].commit <= new
      <3>1. SUFFICES ASSUME NEW i \in 1..Len(later) PROVE later[i].commit <= new
        OBVIOUS
      <3>2. CASE i \in 1..Len(lines)
        <4>1. later[i] = lines[i] /\ lines[i] \in Line
          BY <2>3, <3>2
        <4> DEFINE sha == lines[i].commit
        <4>2. sha \in Commit \cup {0} /\ sha <= old /\ later[i].commit = sha
          BY <2>3, <3>2, <4>1 DEF Line
        <4> HIDE DEF sha
        <4>3. sha <= new
          BY <2>3, <4>2 DEF Commit
        <4> QED
          BY <4>2, <4>3
      <3>3. CASE i \notin 1..Len(lines)
        <4>1. later[i] = line
          BY <2>3, <3>1, <3>3
        <4> QED
          BY <2>3, <4>1
      <3> QED
        BY <3>2, <3>3
    <2> QED
      BY <2>2, <2>4 DEF later, new
  <1> QED
    BY <1>2, <1>3 DEF WorldKeeps, LinesAreMade

LEMMA TextIsLine == TextLine \in Line /\ TextLine.commit = 0
  BY DEF TextLine, Line

\* Who was interrupted was told, or the run log says so.
LEMMA InterruptHolds ==
  ASSUME Sound, IInv', NEW p \in Procs, Interrupt(p)
  PROVE  OInv'
  <1> DEFINE t == cli[p].task
             s == cli[p].session
             e == runtime[sessions[s].name]
  <1>0. /\ IInv /\ Settled /\ (Crashes = FALSE => AbortIsHeard)
        /\ \A q \in Procs : q = p
        /\ cli[p].pc = "interrupt"
        /\ t \in TaskId /\ s \in SessionId /\ s = tasks[t].session
    BY CommandNow DEF Sound, OneLead, OInv, Held, Interrupt, CommandBound, Placed
  <1>1. PICK c \in Command : Goto(p, c) /\ c.pc \in {"idle", "create"}
    BY <1>0, AfterAbortBound DEF Interrupt
  <1>2. /\ UNCHANGED <<tasks, sessions, git, daemon>>
        /\ runlog \subseteq runlog'
        /\ sessions[s].live => t \in runlog'
    BY DEF Interrupt
  <1>3. \A d \in Agent :
          /\ \/ agents'[d].lines = agents[d].lines
             \/ agents'[d].lines = Append(agents[d].lines, TextLine)
          /\ agents'[d].owed = agents[d].owed
    <2>1. agents \in [Agent -> AgentState]
      BY <1>0 DEF IInv, TypeOK
    <2>2. \/ UNCHANGED agents
          \/ agents' = [agents EXCEPT ![e].work = 0, ![e].lines = Append(@, TextLine)]
          \/ \E work \in {0, agents[e].work} : agents' = [agents EXCEPT ![e].work = work]
      BY DEF Interrupt
    <2> SUFFICES ASSUME NEW d \in Agent
                 PROVE  /\ \/ agents'[d].lines = agents[d].lines
                           \/ agents'[d].lines = Append(agents[d].lines, TextLine)
                        /\ agents'[d].owed = agents[d].owed
      OBVIOUS
    <2>3. agents[d] \in AgentState
      BY <2>1
    <2> HIDE DEF e
    <2>4. CASE UNCHANGED agents
      BY <2>4
    <2>5. CASE agents' = [agents EXCEPT ![e].work = 0, ![e].lines = Append(@, TextLine)]
      <3>1. d # e => agents'[d] = agents[d]
        BY <2>1, <2>5
      <3>2. d = e => agents'[d] = [agents[d] EXCEPT !.work = 0, !.lines = Append(@, TextLine)]
        BY <2>1, <2>5
      <3> QED
        BY <2>3, <3>1, <3>2 DEF AgentState
    <2>6. ASSUME NEW work, agents' = [agents EXCEPT ![e].work = work]
          PROVE  agents'[d].lines = agents[d].lines /\ agents'[d].owed = agents[d].owed
      <3>1. agents'[d] = agents[d] \/ agents'[d] = [agents[d] EXCEPT !.work = work]
        BY <2>1, <2>6
      <3> QED
        BY <2>3, <3>1 DEF AgentState
    <2> QED
      BY <2>2, <2>4, <2>5, <2>6
  <1>4. WorldKeeps
    BY <1>0, <1>2, <1>3, HeadMoves, TextIsLine, WorldGrows
  <1>5. TasksKeep /\ SessionsKeep /\ FindIsMade'
    BY <1>0, <1>2, <1>4, SameTasksKeep, SameSessionsKeep, FindStays
  <1>6. Settled'
    BY <1>0, <1>4, <1>5, FactsStay
  <1>7. cli'[p] = c
    BY <1>0, <1>1 DEF Goto, IInv, TypeOK
  <1>8. \A q \in Procs : Held(cli[q])'
    <2>1. Held(c)
      BY <1>1 DEF Held, Sending, Placing
    <2> QED
      BY <1>0, <1>2, <1>4, <1>5, <1>7, <2>1, HeldStays
  <1>9. Crashes = FALSE => AbortIsHeard'
    <2>1. SUFFICES ASSUME AbortIsHeard, NEW u \in TaskId, InState(u, {"aborted"})',
                          tasks'[u].session # 0, sessions'[tasks'[u].session].live
                   PROVE  u \in runlog'
      BY <1>0 DEF AbortIsHeard
    <2>2. CASE u = t
      BY <1>0, <1>2, <2>1, <2>2
    <2>3. CASE u # t
      <3>1. \A q \in Procs : ~(cli[q].pc = "interrupt" /\ cli[q].task = u)
        BY <1>0, <2>3
      <3> QED
        BY <1>2, <2>1, <3>1 DEF AbortIsHeard, InState
    <2> QED
      BY <2>2, <2>3
  <1> QED
    BY <1>6, <1>8, <1>9 DEF OInv

-----------------------------------------------------------------------------
(* dispatch *)

LEMMA DispatchTaskHolds ==
  ASSUME Sound, IInv', NEW p \in Procs, NEW t \in TaskId, DispatchTask(p, t)
  PROVE  OInv'
  <1> DEFINE c == [Idle EXCEPT !.pc = "check flying", !.task = t]
  <1>1. c \in Command /\ c.pc \in Bare
    BY DEF Idle, Command, Bare
  <1>2. ReadsOn(p, c) /\ cli[p].pc = "idle"
    BY DEF DispatchTask, Starts
  <1> HIDE DEF c
  <1> QED
    BY <1>1, <1>2, BareHolds, ReadsOnHolds

LEMMA CheckFlyingHolds ==
  ASSUME Sound, IInv', NEW p \in Procs, CheckFlying(p)
  PROVE  OInv'
  <1>0. cli[p] \in Command /\ cli[p].pc = "check flying"
    BY CommandNow DEF CheckFlying, Sound
  <1>1. CASE Refused(p)
    BY <1>0, <1>1, RefusedHolds
  <1>2. CASE /\ \A u \in TaskId : ~IsFlying(u)
             /\ ReadsOn(p, [cli[p] EXCEPT !.pc = "find session"])
    <2> DEFINE c == [cli[p] EXCEPT !.pc = "find session"]
    <2>1. c \in Command /\ c.pc = "find session" /\ ReadsOn(p, c)
      BY <1>0, <1>2 DEF Command
    <2> HIDE DEF c
    <2>2. Held(c)
      BY <1>2, <2>1, FlyingFlies DEF Held, Sending, Placing, IsFlying
    <2> QED
      BY <1>0, <2>1, <2>2, ReadsOnHolds
  <1> QED
    BY <1>1, <1>2 DEF CheckFlying

LEMMA FindSessionHolds ==
  ASSUME Sound, IInv', NEW p \in Procs, NEW n \in Names, FindSession(p, n)
  PROVE  OInv'
  <1>0. cli[p] \in Command /\ cli[p].pc = "find session" /\ Held(cli[p])
    BY CommandNow DEF FindSession, Sound, OInv
  <1>1. CASE Refused(p)
    BY <1>0, <1>1, RefusedHolds
  <1>2. ASSUME NEW s \in SessionId, IsLatest(s, n),
               ReadsOn(p, [cli[p] EXCEPT !.pc = "check prior", !.session = s])
        PROVE  OInv'
    <2> DEFINE c == [cli[p] EXCEPT !.pc = "check prior", !.session = s]
    <2>1. c \in Command /\ c.pc = "check prior" /\ c.session = s /\ ReadsOn(p, c)
      BY <1>0, <1>2 DEF Command
    <2> HIDE DEF c
    <2>2. sessions[s].name = n
      BY <1>2 DEF IsLatest, Incarnations
    <2>3. \A t \in TaskId : ~Flies(tasks[t])
      BY <1>0 DEF Held, Sending
    <2>4. Held(c)
      BY <1>2, <2>1, <2>2, <2>3 DEF Held, Sending, Placing
    <2> QED
      BY <1>0, <2>1, <2>4, ReadsOnHolds
  <1> QED
    BY <1>1, <1>2 DEF FindSession

\* Who has a session has left drafted with it.
LEMMA NobodyHas ==
  ASSUME IInv, Settled, NEW s \in SessionId, PriorTasks(s) = {}
  PROVE  \A t \in TaskId : tasks[t].session # s
  <1> SUFFICES ASSUME NEW t \in TaskId, tasks[t].session = s PROVE FALSE
    OBVIOUS
  <1>1. s # 0
    BY DEF SessionId
  <1>2. Exists(tasks[t])
    BY <1>1 DEF Settled, Clean, NoRow
  <1>3. StateOf(tasks[t]) # "drafted"
    BY <1>1 DEF IInv, RowBound
  <1> QED
    BY <1>2, <1>3 DEF PriorTasks, TasksOf

LEMMA CheckPriorHolds ==
  ASSUME Sound, IInv', NEW p \in Procs, CheckPrior(p)
  PROVE  OInv'
  <1>0. /\ cli[p] \in Command /\ cli[p].pc = "check prior" /\ Held(cli[p])
        /\ cli[p].session \in SessionId
    BY CommandNow DEF CheckPrior, Sound, OInv, CommandBound, Placed
  <1>1. CASE Refused(p)
    BY <1>0, <1>1, RefusedHolds
  <1>2. CASE /\ PriorTasks(cli[p].session) = {}
             /\ ReadsOn(p, [cli[p] EXCEPT !.pc = "read offset"])
    <2> DEFINE c == [cli[p] EXCEPT !.pc = "read offset"]
    <2>1. /\ c \in Command /\ c.pc = "read offset" /\ c.session = cli[p].session
          /\ ReadsOn(p, c)
      BY <1>0, <1>2 DEF Command
    <2> HIDE DEF c
    <2>2. \A t \in TaskId : tasks[t].session # c.session
      BY <1>0, <1>2, <2>1, NobodyHas DEF Sound, OInv
    <2>3. /\ \A t \in TaskId : ~Flies(tasks[t])
          /\ IsLatest(c.session, sessions[c.session].name)
      BY <1>0, <2>1 DEF Held, Sending
    <2>4. Held(c)
      BY <2>1, <2>2, <2>3 DEF Held, Sending, Placing
    <2> QED
      BY <1>0, <2>1, <2>4, ReadsOnHolds
  <1> QED
    BY <1>1, <1>2 DEF CheckPrior

\* What is held of the session all along from the check to the row.
LEMMA PlacingHolds ==
  ASSUME NEW c, Held(c), c.pc \in Placing
  PROVE  /\ \A t \in TaskId : ~Flies(tasks[t]) /\ tasks[t].session # c.session
         /\ IsLatest(c.session, sessions[c.session].name)
  BY DEF Held, Sending

LEMMA ReadOffsetHolds ==
  ASSUME Sound, IInv', NEW p \in Procs, ReadOffset(p)
  PROVE  OInv'
  <1> DEFINE offset == Len(Transcript(cli[p].session))
             c == [cli[p] EXCEPT !.pc = "read base", !.offset = offset]
  <1>0. /\ cli[p] \in Command /\ cli[p].pc = "read offset" /\ Held(cli[p])
        /\ cli[p].session \in SessionId /\ sessions[cli[p].session].name \in Names
    BY CommandNow DEF ReadOffset, Sound, OInv, CommandBound, Placed
  <1>1. offset \in Nat
    BY <1>0, TranscriptLength DEF Sound
  <1>2. ReadsOn(p, c)
    BY DEF ReadOffset
  <1>3. /\ \A t \in TaskId : ~Flies(tasks[t]) /\ tasks[t].session # cli[p].session
        /\ IsLatest(cli[p].session, sessions[cli[p].session].name)
    BY <1>0, PlacingHolds DEF Placing
  <1> HIDE DEF offset
  <1>4. c \in Command /\ c.pc = "read base" /\ c.session = cli[p].session /\ c.offset = offset
    BY <1>0, <1>1 DEF Command
  <1>5. offset <= Len(Transcript(cli[p].session))
    BY <1>1 DEF offset
  <1> HIDE DEF c
  <1>6. Held(c)
    BY <1>3, <1>4, <1>5 DEF Held, Sending, Placing
  <1> QED
    BY <1>0, <1>2, <1>4, <1>6, ReadsOnHolds

LEMMA ReadBaseHolds ==
  ASSUME Sound, IInv', NEW p \in Procs, ReadBase(p)
  PROVE  OInv'
  <1> DEFINE c == [cli[p] EXCEPT !.pc = "prompt", !.base = git.head]
  <1>0. cli[p] \in Command /\ cli[p].pc = "read base" /\ Held(cli[p])
    BY CommandNow DEF ReadBase, Sound, OInv
  <1>1. git.head \in Commit
    BY DEF Sound, IInv, TypeOK, Git
  <1>2. /\ c \in Command /\ c.pc = "prompt" /\ c.session = cli[p].session
        /\ c.base = git.head /\ c.offset = cli[p].offset
    BY <1>0, <1>1 DEF Command
  <1>3. ReadsOn(p, c)
    BY DEF ReadBase
  <1>4. /\ \A t \in TaskId : ~Flies(tasks[t]) /\ tasks[t].session # c.session
        /\ IsLatest(c.session, sessions[c.session].name)
    BY <1>0, <1>2, PlacingHolds DEF Placing
  <1> HIDE DEF c
  <1>5. c.offset <= Len(Transcript(c.session))
    BY <1>0, <1>2 DEF Held
  <1>6. \A t \in TaskId : tasks[t].commit <= c.base
    BY <1>2 DEF Sound, OInv, Settled, CommitsAreMade
  <1>7. Held(c)
    BY <1>2, <1>4, <1>5, <1>6 DEF Held, Sending, Placing
  <1> QED
    BY <1>0, <1>2, <1>3, <1>7, ReadsOnHolds

\* What a command that is sending a prompt held when it was about to.
Ready(c) ==
  /\ \A t \in TaskId : ~Flies(tasks[t]) /\ tasks[t].session # c.session /\ tasks[t].commit <= c.base
  /\ IsLatest(c.session, sessions[c.session].name)

LEMMA ReadyNow ==
  ASSUME NEW b, Held(b), b.pc = "prompt", NEW c, c.session = b.session, c.base = b.base
  PROVE  Ready(c)
  BY DEF Ready, Held, Sending, Placing

LEMMA ReadyStays ==
  ASSUME NEW c, Ready(c), UNCHANGED <<tasks, sessions>>
  PROVE  Ready(c)'
  BY DEF Ready, IsLatest, Incarnations

\* Agent e takes the prompt of task t, and shows it unless it is a HeadOnly one.
Takes(e, t, echoes) ==
  agents' = [agents EXCEPT ![e].work = t,
               ![e].lines = IF echoes THEN Append(@, PromptLine(t)) ELSE @]

LEMMA PromptIsLine ==
  ASSUME NEW t \in TaskId
  PROVE  PromptLine(t) \in Line /\ PromptLine(t).commit = 0 /\ PromptLine(t).task = t
  BY DEF PromptLine, Line

LEMMA TakesIs ==
  ASSUME IInv, NEW e \in Agent, NEW t \in TaskId, NEW echoes \in BOOLEAN, Takes(e, t, echoes)
  PROVE  \A d \in Agent :
           /\ agents'[d].owed = agents[d].owed
           /\ agents'[d].lines =
                IF d = e /\ echoes THEN Append(agents[d].lines, PromptLine(t))
                ELSE agents[d].lines
  <1> SUFFICES ASSUME NEW d \in Agent
               PROVE  /\ agents'[d].owed = agents[d].owed
                      /\ agents'[d].lines =
                           IF d = e /\ echoes THEN Append(agents[d].lines, PromptLine(t))
                           ELSE agents[d].lines
    OBVIOUS
  <1> DEFINE lines == IF echoes THEN Append(agents[d].lines, PromptLine(t)) ELSE agents[d].lines
  <1>1. agents[d] \in AgentState
    BY DEF IInv, TypeOK
  <1>2. agents \in [Agent -> AgentState]
    BY DEF IInv, TypeOK
  <1>3. d # e => agents'[d] = agents[d]
    BY <1>2 DEF Takes
  <1>4. d = e => agents'[d] = [agents[d] EXCEPT !.work = t, !.lines = lines]
    BY <1>2 DEF Takes
  <1> HIDE DEF lines
  <1>5. /\ agents'[d].owed = agents[d].owed
        /\ agents'[d].lines = IF d = e THEN lines ELSE agents[d].lines
    BY <1>1, <1>3, <1>4 DEF AgentState
  <1> QED
    BY <1>5 DEF lines

LEMMA TakesGrows ==
  ASSUME IInv, IInv', Settled, UNCHANGED <<git, runlog>>,
         NEW e \in Agent, NEW t \in TaskId, NEW echoes \in BOOLEAN, Takes(e, t, echoes)
  PROVE  WorldKeeps
  <1>1. PICK line \in Line : line = PromptLine(t) /\ line.commit = 0
    BY PromptIsLine
  <1>2. git.head <= git'.head /\ line.commit <= git'.head
    BY <1>1, HeadMoves
  <1>3. \A d \in Agent :
          /\ agents'[d].lines = agents[d].lines \/ agents'[d].lines = Append(agents[d].lines, line)
          /\ agents'[d].owed \in {agents[d].owed, 0}
    BY <1>1, TakesIs
  <1> QED
    BY <1>2, <1>3, WorldGrows

LEMMA TakesShows ==
  ASSUME IInv, UNCHANGED sessions, NEW s \in SessionId, NEW e \in Agent, sessions[s].agent = e,
         NEW t \in TaskId, NEW echoes \in BOOLEAN, echoes, Takes(e, t, echoes),
         NEW offset \in Nat, offset <= Len(Transcript(s))
  PROVE  Shows(Transcript(s)', offset, t)
  <1> DEFINE old == agents[e].lines
             new == agents'[e].lines
             line == PromptLine(t)
  <1>1. Transcript(s)' = new /\ Transcript(s) = old
    BY DEF Transcript
  <1>2. old \in Seq(Line)
    BY Numbers
  <1>3. new = Append(old, line)
    BY TakesIs
  <1>4. line \in Line /\ line.task = t
    BY PromptIsLine
  <1> HIDE DEF old, new, line
  <1>5. offset <= Len(old) /\ Len(old) \in Nat
    BY <1>1, <1>2
  <1>6. Len(new) = Len(old) + 1 /\ new[Len(old) + 1] = line
    BY <1>2, <1>3, <1>4
  <1>7. Len(old) + 1 \in (offset + 1)..Len(new)
    BY <1>5, <1>6
  <1>8. Shows(new, offset, t)
    BY <1>4, <1>6, <1>7 DEF Shows
  <1> QED
    BY <1>1, <1>8

\* The newest row of the name is still the session's: it is its agent that
\* answers, and shows the prompt past the offset.
LEMMA PromptHolds ==
  ASSUME Sound, IInv', NEW p \in Procs, Prompt(p)
  PROVE  OInv'
  <1> DEFINE sent == [cli[p] EXCEPT !.pc = "write dispatch"]
  <1>0. /\ IInv /\ Settled /\ (Crashes = FALSE => AbortIsHeard)
        /\ \A q \in Procs : q = p
    BY DEF Sound, OneLead, OInv
  <1>1. /\ cli[p] \in Command /\ cli[p].pc = "prompt" /\ Held(cli[p])
        /\ cli[p].task \in TaskId /\ cli[p].session \in SessionId
        /\ sessions[cli[p].session].name \in Names
    BY CommandNow DEF Prompt, Sound, OInv, CommandBound, Placed
  <1>2. /\ sent \in Command /\ sent.pc = "write dispatch" /\ sent.task = cli[p].task
        /\ sent.session = cli[p].session /\ sent.base = cli[p].base
        /\ sent.offset = cli[p].offset
    BY <1>1 DEF Command
  <1>3. PICK c \in Command : c = sent
    BY <1>2
  <1> HIDE DEF sent
  <1>4. PICK t \in TaskId, s \in SessionId : t = cli[p].task /\ s = cli[p].session
    BY <1>1
  <1>5. PICK n \in Names : n = sessions[s].name
    BY <1>1, <1>4
  <1>6. PICK e \in Agent : e = runtime[n]
    BY <1>4, <1>5 DEF Sound, IInv, SessionsBound
  <1>7. PICK echoes \in BOOLEAN : echoes <=> n \notin HeadOnly
    OBVIOUS
  <1>8. UNCHANGED <<tasks, sessions, runlog, git, daemon>>
    BY DEF Prompt, database
  <1>9. CASE UNCHANGED agents /\ Done(p)
    BY <1>0, <1>1, <1>8, <1>9, SameTasksKeep, SameWorldKeeps, IdleHolds, LeadStep DEF Done
  <1>10. ASSUME NEW r \in SessionId, IsLatest(r, n), sessions[r].agent = e,
                Takes(e, t, echoes), Goto(p, sent)
         PROVE  OInv'
    <2>1. r = s
      <3>1. IsLatest(r, n) /\ IsLatest(s, n)
        BY <1>1, <1>4, <1>5, <1>10 DEF Held, Placing
      <3>2. r <= s /\ s <= r
        BY <3>1 DEF IsLatest, Incarnations
      <3> QED
        BY <3>2 DEF SessionId
    <2>2. WorldKeeps
      BY <1>0, <1>8, <1>10, TakesGrows
    <2>3. TasksKeep /\ NoneAborted /\ SessionsKeep /\ FindIsMade'
      BY <1>0, <1>8, <2>2, SameTasksKeep, SameSessionsKeep, FindStays
    <2>4. Settled'
      BY <1>0, <2>2, <2>3, FactsStay
    <2>5. Crashes = FALSE => AbortIsHeard'
      BY <1>0, <1>1, <2>2, <2>3, HeardStays
    <2>6. cli'[p] = c
      BY <1>0, <1>3, <1>10 DEF Goto, IInv, TypeOK
    <2>7. Ready(c)'
      BY <1>1, <1>2, <1>3, <1>8, ReadyNow, ReadyStays
    <2>8. n \notin HeadOnly => Shows(Transcript(s)', c.offset, t)
      <3>1. PICK offset \in Nat : offset = cli[p].offset
        BY <1>1 DEF Command
      <3>2. offset <= Len(Transcript(s))
        BY <1>1, <1>4, <3>1 DEF Held
      <3>3. c.offset = offset
        BY <1>2, <1>3, <3>1
      <3>4. echoes => Shows(Transcript(s)', offset, t)
        BY <1>0, <1>8, <1>10, <2>1, <3>2, TakesShows
      <3> QED
        BY <1>7, <3>3, <3>4
    <2>9. c.session = s /\ c.task = t /\ c.pc = "write dispatch" /\ sessions'[s].name = n
      BY <1>2, <1>3, <1>4, <1>5, <1>8
    <2>10. Held(c)'
      BY <2>7, <2>8, <2>9 DEF Ready, Held, Sending, Placing
    <2>11. \A q \in Procs : Held(cli[q])'
      BY <1>0, <2>6, <2>10 DEF Held
    <2> QED
      BY <2>4, <2>5, <2>11 DEF OInv
  <1>11. \/ UNCHANGED agents /\ Done(p)
         \/ /\ \E r \in SessionId : IsLatest(r, n) /\ sessions[r].agent = e
            /\ Takes(e, t, echoes) /\ Goto(p, sent)
    <2>1. \/ UNCHANGED agents /\ Done(p)
          \/ /\ \E r \in SessionId : IsLatest(r, n) /\ sessions[r].agent = e
             /\ agents' = [agents EXCEPT ![e].work = t,
                             ![e].lines = IF n \in HeadOnly THEN @ ELSE Append(@, PromptLine(t))]
             /\ Goto(p, sent)
      BY <1>4, <1>5, <1>6 DEF Prompt, sent
    <2> QED
      BY <1>7, <2>1 DEF Takes
  <1> QED
    BY <1>9, <1>10, <1>11

\* The only step that makes a task fly, and gives it its session.
LEMMA DispatchedSettles ==
  ASSUME IInv, IInv', Settled, NEW c \in Command, Ready(c), NEW t \in TaskId,
         NEW s \in SessionId, sessions[s].name \in Names, c.session = s,
         NEW row \in Row, SetTask(t, row), Exists(row), StateOf(row) = "dispatched",
         row.session = s, row.base = c.base, row.commit = 0,
         NEW offset \in Nat, row.offset = offset,
         sessions[s].name \notin HeadOnly => Shows(Transcript(s), offset, t),
         UNCHANGED <<sessions, runlog, agents, git, daemon>>
  PROVE  Settled'
  <1>0. /\ SingleFlight /\ FreshImplementer /\ DispatchedMeansTaken /\ CommitCreditedOnce
        /\ CommitsAreMade /\ CreditedBefore /\ Clean
    BY DEF Settled
  <1>1. \A u \in TaskId : tasks'[u] = IF u = t THEN row ELSE tasks[u]
    BY DEF IInv, TypeOK, SetTask
  <1>2. \A u \in TaskId : ~Flies(tasks[u]) /\ tasks[u].session # s /\ tasks[u].commit <= row.base
    BY DEF Ready
  <1>3. SingleFlight'
    BY <1>1, <1>2 DEF SingleFlight, InState, Flies
  <1>4. FreshImplementer'
    BY <1>0, <1>1, <1>2 DEF FreshImplementer
  <1>5. DispatchedMeansTaken'
    <2>1. SUFFICES ASSUME NEW u \in TaskId, tasks'[u].session # 0,
                          sessions[tasks'[u].session].name \notin HeadOnly
                   PROVE  Shows(Transcript(tasks[u].session)', tasks'[u].offset, u)
      BY DEF DispatchedMeansTaken, Shows
    <2>2. CASE u = t
      BY <1>1, <2>1, <2>2 DEF Transcript
    <2>3. CASE u # t
      BY <1>0, <1>1, <2>1, <2>3 DEF DispatchedMeansTaken, Shows, Transcript
    <2> QED
      BY <2>2, <2>3
  <1>6. CommitCreditedOnce'
    BY <1>0, <1>1 DEF CommitCreditedOnce
  <1>7. CommitsAreMade'
    <2>1. \A u \in TaskId : tasks'[u].commit <= git'.head
      BY <1>0, <1>1, Numbers DEF CommitsAreMade
    <2>2. WorldKeeps /\ FindIsMade'
      BY SameWorldKeeps, FindStays
    <2> QED
      BY <2>1, <2>2 DEF CommitsAreMade, WorldKeeps
  <1>8. CreditedBefore'
    <2>1. row.base \in Nat
      BY DEF Row
    <2> QED
      BY <1>1, <1>2, <2>1 DEF CreditedBefore
  <1>9. Clean'
    BY <1>0, <1>1 DEF Clean
  <1> QED
    BY <1>3, <1>4, <1>5, <1>6, <1>7, <1>8, <1>9 DEF Settled

LEMMA WriteDispatchHolds ==
  ASSUME Sound, IInv', NEW p \in Procs, WriteDispatch(p)
  PROVE  OInv'
  <1> DEFINE c == cli[p]
             t == c.task
             s == c.session
  <1>0. /\ IInv /\ Settled /\ (Crashes = FALSE => AbortIsHeard)
        /\ \A q \in Procs : q = p
    BY DEF Sound, OneLead, OInv
  <1>1. /\ c \in Command /\ c.pc = "write dispatch" /\ Held(c)
        /\ t \in TaskId /\ Exists(tasks[t]) /\ s \in SessionId /\ sessions[s].name \in Names
        /\ c.offset \in Nat /\ c.base \in Commit
    BY CommandNow DEF WriteDispatch, Sound, OInv, CommandBound, Placed, Command
  <1>2. CASE Refused(p)
    BY <1>1, <1>2, RefusedHolds
  <1>3. ASSUME NEW reason \in Reasons \cup {NoReason},
               NEW row \in Dispatch(t, tasks[t], s, c.offset, c.base, reason),
               SetTask(t, row), Done(p), UNCHANGED <<sessions, runlog, world, daemon>>
        PROVE  OInv'
    <2>1. /\ StateOf(row) = "dispatched"
          /\ row = tasks[t] \/ (/\ row.session = s /\ row.offset = c.offset /\ row.base = c.base)
          /\ row \in Row /\ Exists(row) /\ Succeeds(t, row)
      <3>1. PICK r \in SessionId, offset \in Nat, base \in Commit :
              r = s /\ offset = c.offset /\ base = c.base
        BY <1>1
      <3> HIDE DEF c, t, s
      <3>2. Succeeds(t, row)
        <4>1. reason \in Reason
          BY DEF Reason
        <4> QED
          BY <1>0, <1>1, <1>3, <3>1, <4>1, DispatchSucceeds
      <3>3. row \in Row /\ Exists(row)
        BY <1>1, <3>2, SucceedsIsRow
      <3>4. /\ StateOf(row) = "dispatched"
            /\ row = tasks[t] \/ (/\ row.session = s /\ row.offset = c.offset /\ row.base = c.base)
        <4>1. reason \in Reason /\ r \in Nat /\ base \in Nat \ {0}
          BY DEF Reason, SessionId, Commit
        <4>2. tasks[t] \in Row /\ Exists(tasks[t])
          BY <1>0, <1>1, RowNow
        <4>3. row \in Dispatch(t, tasks[t], r, offset, base, reason)
          BY <1>3, <3>1
        <4>4. /\ StateOf(row) = "dispatched"
              /\ row = tasks[t] \/ (/\ row.session = r /\ row.offset = offset /\ row.base = base)
          BY <4>1, <4>2, <4>3, DispatchContinues
        <4> QED
          BY <3>1, <4>4
      <3> QED
        BY <3>2, <3>3, <3>4
    <2>2. Ready(c)
      BY <1>1 DEF Ready, Held, Sending, Placing
    <2>3. row # tasks[t]
      BY <1>1, <2>1, <2>2 DEF Ready, Flies, Flying
    <2>4. row.commit = 0
      BY <2>1 DEF Succeeds, RowBound, Flying
    <2>5. sessions[s].name \notin HeadOnly => Shows(Transcript(s), c.offset, t)
      BY <1>1 DEF Held
    <2>6. UNCHANGED <<sessions, runlog, agents, git, daemon>>
      BY <1>3 DEF world
    <2>7. PICK d \in Command : d = c
      BY <1>1
    <2>8. PICK u \in TaskId, r \in SessionId, offset \in Nat : u = t /\ r = s /\ offset = c.offset
      BY <1>1
    <2> HIDE DEF c, t, s
    <2>9. Settled'
      <3>1. Ready(d) /\ d.session = r /\ row.base = d.base /\ row.session = r
        BY <2>1, <2>2, <2>3, <2>7, <2>8 DEF s
      <3>2. sessions[r].name \notin HeadOnly => Shows(Transcript(r), offset, u)
        BY <2>5, <2>8
      <3>3. /\ SetTask(u, row) /\ sessions[r].name \in Names /\ row.offset = offset
        BY <1>1, <1>3, <2>1, <2>3, <2>8
      <3> QED
        BY <1>0, <2>1, <2>4, <2>6, <3>1, <3>2, <3>3, DispatchedSettles
    <2>10. cli'[p] = Idle
      BY <1>0, <1>3 DEF Done, Goto, IInv, TypeOK
    <2>11. Crashes = FALSE => AbortIsHeard'
      <3>1. SUFFICES ASSUME AbortIsHeard, NEW v \in TaskId, InState(v, {"aborted"})',
                            tasks'[v].session # 0, sessions'[tasks'[v].session].live
                     PROVE  v \in runlog'
        BY <1>0 DEF AbortIsHeard
      <3>2. v # t
        BY <1>0, <1>3, <2>1, <3>1 DEF SetTask, InState, IInv, TypeOK
      <3>3. tasks'[v] = tasks[v]
        BY <1>0, <1>3, <3>2 DEF SetTask, IInv, TypeOK
      <3>4. \A q \in Procs : cli[q].pc # "interrupt"
        BY <1>0, <1>1 DEF c
      <3> QED
        BY <2>6, <3>1, <3>3, <3>4 DEF AbortIsHeard, InState
    <2>12. \A q \in Procs : Held(cli[q])'
      <3>1. Idle.pc = "idle"
        BY DEF Idle
      <3> QED
        BY <1>0, <2>10, <3>1 DEF Held, Sending, Placing
    <2> QED
      BY <2>9, <2>11, <2>12 DEF OInv
  <1>4. \A reason \in Reasons \cup {NoReason} :
          Transacts(p, t, Dispatch(t, tasks[t], s, c.offset, c.base, reason)) =>
            \/ Refused(p)
            \/ /\ \E row \in Dispatch(t, tasks[t], s, c.offset, c.base, reason) : SetTask(t, row)
               /\ Done(p) /\ UNCHANGED <<sessions, runlog, world, daemon>>
    BY DEF Transacts
  <1> QED
    BY <1>2, <1>3, <1>4 DEF WriteDispatch

-----------------------------------------------------------------------------
(* accept, and the remedies *)

\* A transcript or HEAD shows only what was committed.
LEMMA NewCommitMade ==
  ASSUME IInv, Settled, NEW t \in TaskId, NEW sha \in Commit, IsNewCommit(sha, tasks[t])
  PROVE  sha <= git.head
  <1>1. git.head \in Nat /\ tasks[t].offset \in Nat /\ tasks[t].session \in SessionId
    BY Numbers DEF IsNewCommit
  <1>2. CASE sha = git.head
    BY <1>1, <1>2
  <1>3. CASE \E i \in (tasks[t].offset + 1)..Len(Transcript(tasks[t].session)) :
               Transcript(tasks[t].session)[i].commit = sha
    <2>1. PICK s \in SessionId, offset \in Nat : s = tasks[t].session /\ offset = tasks[t].offset
      BY <1>1
    <2>2. sessions[s].name \in Names
      BY <2>1 DEF Settled, Clean, SessionId
    <2>3. PICK e \in Agent : e = sessions[s].agent
      BY <2>2, Numbers
    <2>4. PICK i \in (offset + 1)..Len(agents[e].lines) : agents[e].lines[i].commit = sha
      BY <1>3, <2>1, <2>3 DEF Transcript
    <2>5. i \in 1..Len(agents[e].lines)
      <3>1. Len(agents[e].lines) \in Nat
        BY Numbers
      <3> QED
        BY <2>4, <3>1
    <2>6. agents[e].lines[i].commit <= git.head
      BY <2>5 DEF Settled, CommitsAreMade, LinesAreMade
    <2> QED
      BY <2>4, <2>6
  <1> QED
    BY <1>2, <1>3 DEF IsNewCommit

LEMMA CommitLands ==
  ASSUME IInv, NEW t \in TaskId, Exists(tasks[t]), NEW sha \in Commit \cup {0}, sha <= git.head,
         Beyond(sha, tasks[t]), NEW reason \in Reason,
         reason = NoReason \/ "record-commit" \in Commands,
         NEW row \in RecordCommit(t, tasks[t], sha, reason)
  PROVE  Follows(t, row)
  <1>1. Succeeds(t, row)
    BY CommitSucceeds
  <1>2. sha \in Nat /\ tasks[t] \in Row /\ StateOf(tasks[t]) # "drafted"
    BY RowNow DEF Commit, Beyond
  <1>3. /\ StateOf(row) = "committed_unverified"
        /\ row = tasks[t] \/ row.commit = sha
    BY <1>2, RecordCommitContinues
  <1> QED
    BY <1>1, <1>3 DEF Follows, Lands

LEMMA GateLands ==
  ASSUME IInv, NEW t \in TaskId, Exists(tasks[t]), NEW sha \in Commit \cup {0}, sha <= git.head,
         Beyond(sha, tasks[t]), NEW row \in GateOutcome(t, tasks[t], sha)
  PROVE  Follows(t, row)
  <1>1. Succeeds(t, row) /\ StateOf(row) = "accepted"
    BY GateSucceeds
  <1>2. sha \in Nat /\ tasks[t] \in Row /\ StateOf(tasks[t]) # "drafted"
    BY RowNow DEF Commit, Beyond
  <1>3. PICK recorded \in RecordCommit(t, tasks[t], sha, NoReason) :
          row \in Accept(t, recorded, GateReason)
    BY DEF GateOutcome
  <1>4. row.commit = tasks[t].commit \/ row.commit = sha
    BY <1>2, <1>3, RecordAndAcceptContinues DEF SameFacts, SameColumns
  <1> QED
    BY <1>1, <1>4 DEF Follows, Lands

LEMMA StampLands ==
  ASSUME IInv, NEW t \in TaskId, Exists(tasks[t]),
         NEW row \in RecordRequest(tasks[t]) \cup RecordDelivery(tasks[t]),
         \/ row \in RecordRequest(tasks[t]) \/ "record-commentary" \in Commands
         \/ tasks[t].commit \in mentioned
  PROVE  Follows(t, row)
  <1>1. Succeeds(t, row)
    BY StampSucceeds
  <1>2. StateOf(row) = StateOf(tasks[t]) /\ row.commit = tasks[t].commit
    BY RowNow, StampContinues DEF SameColumns
  <1> QED
    BY <1>1, <1>2 DEF Follows, Lands

\* The gate is given a commit that was made.
LEMMA JudgedHolds ==
  ASSUME Sound, IInv', NEW p \in Procs, NEW c \in Command, ReadsOn(p, c),
         c.pc \in {"gate", "write accept"}, NEW sha \in Commit \cup {0}, c.sha = sha,
         sha <= git.head, cli[p].pc # "interrupt"
  PROVE  OInv'
  <1>1. Held(c)
    BY DEF Held, Sending, Placing
  <1> QED
    BY <1>1, ReadsOnHolds

LEMMA AcceptTaskHolds ==
  ASSUME Sound, IInv', NEW p \in Procs, NEW t \in TaskId, AcceptTask(p, t)
  PROVE  OInv'
  <1>0. IInv /\ Settled /\ cli[p].pc = "idle"
    BY DEF Sound, OInv, AcceptTask, Starts
  <1>1. ASSUME NEW sha \in Commit, sha <= git.head,
               ReadsOn(p, [Idle EXCEPT !.pc = "gate", !.task = t, !.sha = sha])
        PROVE  OInv'
    <2> DEFINE c == [Idle EXCEPT !.pc = "gate", !.task = t, !.sha = sha]
    <2>1. c \in Command /\ c.pc = "gate" /\ c.sha = sha
      BY DEF Idle, Command
    <2>2. ReadsOn(p, c)
      BY <1>1
    <2> HIDE DEF c
    <2>3. cli[p].pc # "interrupt" /\ c.pc \in {"gate", "write accept"} /\ c \in Command
      BY <1>0, <2>1
    <2>4. c.sha = sha
      BY <2>1
    <2> QED
      BY <1>1, <2>2, <2>3, <2>4, JudgedHolds
  <1>2. ASSUME ReadsOn(p, [Idle EXCEPT !.pc = "look again", !.task = t])
        PROVE  OInv'
    <2> DEFINE c == [Idle EXCEPT !.pc = "look again", !.task = t]
    <2>1. c \in Command /\ c.pc \in Bare
      BY DEF Idle, Command, Bare
    <2>2. ReadsOn(p, c)
      BY <1>2
    <2> HIDE DEF c
    <2> QED
      BY <1>0, <2>1, <2>2, BareHolds, ReadsOnHolds
  <1>3. tasks[t].commit # 0 => tasks[t].commit \in Commit /\ tasks[t].commit <= git.head
    BY <1>0 DEF IInv, RowBound, Settled, CommitsAreMade
  <1>4. \A sha \in Commit : IsNewCommit(sha, tasks[t]) => sha <= git.head
    BY <1>0, NewCommitMade
  <1> QED
    BY <1>1, <1>2, <1>3, <1>4 DEF AcceptTask

LEMMA LookAgainHolds ==
  ASSUME Sound, IInv', NEW p \in Procs, LookAgain(p)
  PROVE  OInv'
  <1>0. /\ IInv /\ Settled
        /\ cli[p] \in Command /\ cli[p].pc = "look again" /\ cli[p].task \in TaskId
    BY CommandNow DEF Sound, OInv, LookAgain, CommandBound, Placed
  <1>1. CASE Refused(p)
    BY <1>0, <1>1, RefusedHolds
  <1>2. ASSUME NEW sha \in Commit, IsNewCommit(sha, tasks[cli[p].task]),
               ReadsOn(p, [cli[p] EXCEPT !.pc = "gate", !.sha = sha])
        PROVE  OInv'
    <2> DEFINE c == [cli[p] EXCEPT !.pc = "gate", !.sha = sha]
    <2>1. c \in Command /\ c.pc = "gate" /\ c.sha = sha
      BY <1>0 DEF Command
    <2>2. ReadsOn(p, c)
      BY <1>2
    <2> HIDE DEF c
    <2>3. cli[p].pc # "interrupt" /\ c.pc \in {"gate", "write accept"} /\ c \in Command
      BY <1>0, <2>1
    <2>4. c.sha = sha
      BY <2>1
    <2>5. sha <= git.head
      BY <1>0, <1>2, NewCommitMade
    <2> QED
      BY <2>2, <2>3, <2>4, <2>5, JudgedHolds
  <1> QED
    BY <1>1, <1>2 DEF LookAgain

LEMMA GateHolds ==
  ASSUME Sound, IInv', NEW p \in Procs, Gate(p)
  PROVE  OInv'
  <1>0. cli[p] \in Command /\ cli[p].pc = "gate" /\ Held(cli[p])
    BY CommandNow DEF Sound, OInv, Gate
  <1>1. CASE Refused(p)
    BY <1>0, <1>1, RefusedHolds
  <1>2. CASE ReadsOn(p, [cli[p] EXCEPT !.pc = "write accept"])
    <2> DEFINE c == [cli[p] EXCEPT !.pc = "write accept"]
    <2>1. c \in Command /\ c.pc = "write accept" /\ c.sha = cli[p].sha
      BY <1>0 DEF Command
    <2>2. ReadsOn(p, c)
      BY <1>2
    <2> HIDE DEF c
    <2>3. PICK sha \in Commit \cup {0} : sha = cli[p].sha
      BY <1>0 DEF Command
    <2>4. sha <= git.head
      BY <1>0, <2>3 DEF Held
    <2>5. cli[p].pc # "interrupt" /\ c.pc \in {"gate", "write accept"} /\ c \in Command
      BY <1>0, <2>1
    <2>6. c.sha = sha
      BY <2>1, <2>3
    <2> QED
      BY <2>2, <2>4, <2>5, <2>6, JudgedHolds
  <1> QED
    BY <1>1, <1>2 DEF Gate

LEMMA WriteAcceptHolds ==
  ASSUME Sound, IInv', NEW p \in Procs, WriteAccept(p)
  PROVE  OInv'
  <1>0. /\ IInv /\ cli[p] \in Command /\ cli[p].pc = "write accept" /\ Held(cli[p])
        /\ cli[p].task \in TaskId /\ Exists(tasks[cli[p].task])
        /\ Beyond(cli[p].sha, tasks[cli[p].task])
    BY CommandNow DEF Sound, OInv, WriteAccept, CommandBound, Placed
  <1>1. PICK sha \in Commit \cup {0}, t \in TaskId : sha = cli[p].sha /\ t = cli[p].task
    BY <1>0 DEF Command
  <1>2. sha <= git.head /\ Beyond(sha, tasks[t]) /\ Exists(tasks[t])
    BY <1>0, <1>1 DEF Held
  <1>3. \A row \in GateOutcome(t, tasks[t], sha) : Follows(t, row)
    BY <1>0, <1>2, GateLands
  <1>4. Transacts(p, t, GateOutcome(t, tasks[t], sha))
    BY <1>1 DEF WriteAccept
  <1> QED
    BY <1>0, <1>3, <1>4, TransactsHolds

LEMMA BareStepHolds ==
  ASSUME Sound, IInv', NEW p \in Procs, NEW t \in TaskId,
         ForceAccept(p, t) \/ ForceCommentary(p, t)
  PROVE  OInv'
  <1>1. PICK pc \in {"write forced accept", "write forced commentary"} :
          ReadsOn(p, [Idle EXCEPT !.pc = pc, !.task = t])
    BY DEF ForceAccept, ForceCommentary
  <1> DEFINE c == [Idle EXCEPT !.pc = pc, !.task = t]
  <1>2. c \in Command /\ c.pc \in Bare /\ cli[p].pc = "idle"
    BY DEF ForceAccept, ForceCommentary, Starts, Idle, Command, Bare
  <1>3. ReadsOn(p, c)
    BY <1>1
  <1> HIDE DEF c
  <1> QED
    BY <1>2, <1>3, BareHolds, ReadsOnHolds

LEMMA WriteForcedAcceptHolds ==
  ASSUME Sound, IInv', NEW p \in Procs, WriteForcedAccept(p)
  PROVE  OInv'
  <1>0. /\ IInv /\ cli[p].pc = "write forced accept"
        /\ cli[p].task \in TaskId /\ Exists(tasks[cli[p].task])
    BY CommandNow DEF Sound, WriteForcedAccept, CommandBound, Placed
  <1>1. PICK t \in TaskId : t = cli[p].task
    BY <1>0
  <1>2. PICK reason \in Reasons : Transacts(p, t, Accept(t, tasks[t], reason))
    BY <1>1 DEF WriteForcedAccept
  <1>3. reason \in Reason /\ "accepted" \in Terminal
    BY DEF Reason, Terminal
  <1>4. \A row \in Accept(t, tasks[t], reason) : Follows(t, row)
    BY <1>0, <1>1, <1>3, VerdictLands DEF Accept, Follows
  <1> QED
    BY <1>0, <1>2, <1>4, TransactsHolds

LEMMA ForceCommitHolds ==
  ASSUME Sound, IInv', NEW p \in Procs, NEW t \in TaskId, NEW sha \in Commit,
         ForceCommit(p, t, sha)
  PROVE  OInv'
  <1> DEFINE c == [Idle EXCEPT !.pc = "write forced commit", !.task = t,
                               !.base = tasks[t].base, !.sha = sha]
  <1>0. tasks[t].base \in Commit \cup {0}
    BY DEF Sound, IInv, RowBound
  <1>1. c \in Command /\ c.pc = "write forced commit" /\ c.sha = sha
    BY <1>0 DEF Idle, Command
  <1>2. ReadsOn(p, c) /\ cli[p].pc = "idle" /\ sha <= git.head
    BY DEF ForceCommit, Starts
  <1> HIDE DEF c
  <1>3. Held(c)
    BY <1>1, <1>2 DEF Held, Sending, Placing
  <1> QED
    BY <1>1, <1>2, <1>3, ReadsOnHolds

LEMMA WriteForcedCommitHolds ==
  ASSUME Sound, IInv', NEW p \in Procs, WriteForcedCommit(p)
  PROVE  OInv'
  <1>0. /\ IInv /\ cli[p] \in Command /\ cli[p].pc = "write forced commit" /\ Held(cli[p])
        /\ cli[p].task \in TaskId /\ Exists(tasks[cli[p].task])
        /\ StateOf(tasks[cli[p].task]) # "drafted"
        /\ cli[p].base = tasks[cli[p].task].base
        /\ "record-commit" \in Commands
    BY CommandNow DEF Sound, OInv, WriteForcedCommit, CommandBound, Placed
  <1>1. PICK sha \in Commit \cup {0}, t \in TaskId : sha = cli[p].sha /\ t = cli[p].task
    BY <1>0 DEF Command
  <1>2. PICK base \in Commit \cup {0} : base = cli[p].base
    BY <1>0 DEF Command
  <1>3. sha <= git.head /\ Exists(tasks[t]) /\ StateOf(tasks[t]) # "drafted" /\ base = tasks[t].base
    BY <1>0, <1>1, <1>2 DEF Held
  <1>4. PICK reason \in Reasons :
          Transacts(p, t, {row \in RecordCommit(t, tasks[t], sha, reason) :
                             MayRecord(t, sha, base)})
    BY <1>1, <1>2 DEF WriteForcedCommit
  <1>5. ASSUME NEW row \in RecordCommit(t, tasks[t], sha, reason), MayRecord(t, sha, base)
        PROVE  Follows(t, row)
    <2>1. reason \in Reason
      BY DEF Reason
    <2>2. Beyond(sha, tasks[t])
      BY <1>3, <1>5 DEF MayRecord, Beyond
    <2> QED
      BY <1>0, <1>3, <1>5, <2>1, <2>2, CommitLands
  <1> QED
    BY <1>0, <1>4, <1>5, TransactsHolds

LEMMA WriteForcedCommentaryHolds ==
  ASSUME Sound, IInv', NEW p \in Procs, WriteForcedCommentary(p)
  PROVE  OInv'
  <1>0. /\ IInv /\ cli[p].pc = "write forced commentary"
        /\ cli[p].task \in TaskId /\ Exists(tasks[cli[p].task])
        /\ "record-commentary" \in Commands
    BY CommandNow DEF Sound, WriteForcedCommentary, CommandBound, Placed
  <1>1. PICK t \in TaskId : t = cli[p].task
    BY <1>0
  <1>2. Transacts(p, t, {row \in RecordDelivery(tasks[t]) : ~tasks[t].delivered})
    BY <1>1 DEF WriteForcedCommentary
  <1>3. \A row \in RecordDelivery(tasks[t]) : Follows(t, row)
    BY <1>0, <1>1, StampLands
  <1> QED
    BY <1>0, <1>2, <1>3, TransactsHolds

-----------------------------------------------------------------------------
(* The daemon *)

LEMMA ObservesHolds ==
  ASSUME Sound, IInv', NEW d \in Daemon, Observes(d), d.pc # "write commit"
  PROVE  OInv'
  <1>1. UNCHANGED <<tasks, sessions, runlog, agents, git, cli>> /\ FindIsMade'
    BY DEF Observes, database, world, FindIsMade
  <1> QED
    BY <1>1, SameTasksKeep, SameWorldKeeps, OthersStep DEF Sound, OInv

LEMMA DiesHolds ==
  ASSUME Sound, IInv', Dies
  PROVE  OInv'
  <1> DEFINE d == [Watching EXCEPT !.pc = "dead"]
  <1>1. d \in Daemon /\ d.pc = "dead"
    BY DEF Watching, Daemon
  <1>2. Observes(d)
    BY DEF Dies
  <1> HIDE DEF d
  <1> QED
    BY <1>1, <1>2, ObservesHolds

LEMMA DaemonTransactsHolds ==
  ASSUME Sound, IInv', NEW t \in TaskId, t = daemon.task, NEW outcomes,
         \A row \in outcomes : Follows(t, row),
         NEW d \in Daemon, d.pc # "write commit", DaemonTransacts(outcomes, d)
  PROVE  OInv'
  <1>1. CASE Dies
    BY <1>1, DiesHolds
  <1>2. ASSUME NEW row \in outcomes, SetTask(t, row), daemon' = d,
               UNCHANGED <<sessions, runlog, world, cli>>
        PROVE  OInv'
    <2>1. TasksKeep /\ NoneAborted
      BY <1>2, RowKeeps DEF Sound, OInv
    <2>2. WorldKeeps
      BY <1>2, SameWorldKeeps DEF Sound, OInv, world
    <2>3. FindIsMade'
      BY <1>2 DEF FindIsMade
    <2> QED
      BY <1>2, <2>1, <2>2, <2>3, OthersStep
  <1> QED
    BY <1>1, <1>2 DEF DaemonTransacts

LEMMA DaemonPollHolds ==
  ASSUME Sound, IInv', DaemonPoll
  PROVE  OInv'
  <1> DEFINE queue == {s \in SessionId : sessions[s].live}
                      \cup (IF Commentator THEN {0} ELSE {})
             d == [Watching EXCEPT !.queue = queue]
  <1>1. queue \in SUBSET (SessionId \cup {0})
    OBVIOUS
  <1>2. Observes(d)
    BY DEF DaemonPoll
  <1> HIDE DEF queue
  <1>3. d \in Daemon /\ d.pc = "visit"
    BY <1>1 DEF Watching, Daemon
  <1> HIDE DEF d
  <1> QED
    BY <1>2, <1>3, ObservesHolds

LEMMA DaemonVisitHolds ==
  ASSUME Sound, IInv', NEW s \in SessionId, DaemonVisit(s)
  PROVE  OInv'
  <1> DEFINE queue == daemon.queue \ {s}
             rest == [daemon EXCEPT !.queue = queue]
  <1>0. IInv /\ Settled /\ daemon \in Daemon /\ daemon.pc = "visit"
    BY DEF Sound, OInv, IInv, TypeOK, DaemonVisit
  <1>1. queue \in SUBSET (SessionId \cup {0})
    BY <1>0 DEF Daemon
  <1>2. \/ Observes(rest)
        \/ \E t \in TaskId :
             \/ Observes([rest EXCEPT !.pc = "write flight", !.task = t])
             \/ \E sha \in Commit :
                  /\ IsNewCommit(sha, tasks[t])
                  /\ Observes([rest EXCEPT !.pc = "write commit", !.task = t, !.sha = sha])
    BY DEF DaemonVisit
  <1> HIDE DEF queue
  <1>3. rest \in Daemon /\ rest.pc = "visit"
    BY <1>0, <1>1 DEF Daemon
  <1> HIDE DEF rest
  <1>4. CASE Observes(rest)
    BY <1>3, <1>4, ObservesHolds
  <1>5. ASSUME NEW t \in TaskId, Observes([rest EXCEPT !.pc = "write flight", !.task = t])
        PROVE  OInv'
    <2> DEFINE d == [rest EXCEPT !.pc = "write flight", !.task = t]
    <2>1. d \in Daemon /\ d.pc = "write flight"
      BY <1>3 DEF Daemon
    <2>2. Observes(d)
      BY <1>5
    <2> HIDE DEF d
    <2> QED
      BY <2>1, <2>2, ObservesHolds
  <1>6. ASSUME NEW t \in TaskId, NEW sha \in Commit, IsNewCommit(sha, tasks[t]),
               Observes([rest EXCEPT !.pc = "write commit", !.task = t, !.sha = sha])
        PROVE  OInv'
    <2> DEFINE d == [rest EXCEPT !.pc = "write commit", !.task = t, !.sha = sha]
    <2>1. d.sha = sha
      BY <1>3 DEF Daemon
    <2>2. daemon' = d /\ UNCHANGED <<tasks, sessions, runlog, agents, git, cli>>
      BY <1>6 DEF Observes, database, world
    <2> HIDE DEF d
    <2>3. sha <= git.head
      BY <1>0, <1>6, NewCommitMade
    <2>4. FindIsMade'
      <3>1. daemon'.sha = sha /\ git'.head = git.head
        BY <2>1, <2>2
      <3> QED
        BY <2>3, <3>1 DEF FindIsMade
    <2> QED
      BY <1>0, <2>2, <2>4, SameTasksKeep, SameWorldKeeps, OthersStep
  <1> QED
    BY <1>2, <1>4, <1>5, <1>6

LEMMA DaemonWriteFlightHolds ==
  ASSUME Sound, IInv', DaemonWriteFlight
  PROVE  OInv'
  <1>0. /\ IInv /\ daemon.task \in TaskId /\ Exists(tasks[daemon.task])
        /\ tasks[daemon.task] \in Row /\ StateOf(tasks[daemon.task]) # "drafted"
    BY DaemonTaskNow DEF DaemonWriteFlight, Sound, IInv, DaemonBound
  <1>1. PICK t \in TaskId : t = daemon.task
    BY <1>0
  <1>2. ASSUME NEW row \in TakeFlight(t, tasks[t]) PROVE Follows(t, row)
    <2>1. /\ Continues(tasks[t], row) /\ SameFacts(row, tasks[t])
          /\ StateOf(row) = "in_flight" /\ ReasonOf(row) = NoReason
          /\ row = tasks[t] \/ Valid(t, row)
      BY <1>0, <1>1, TakeFlightContinues
    <2>2. Succeeds(t, row)
      BY <1>0, <1>1, <2>1, MovedSucceeds
    <2> QED
      BY <2>1, <2>2 DEF Follows, Lands, SameFacts, SameColumns
  <1> QED
    BY <1>0, <1>1, <1>2, VisitingBound, DaemonTransactsHolds DEF DaemonWriteFlight

LEMMA DaemonWriteCommitHolds ==
  ASSUME Sound, IInv', DaemonWriteCommit
  PROVE  OInv'
  <1>0. /\ IInv /\ Settled /\ daemon.task \in TaskId /\ Exists(tasks[daemon.task])
        /\ daemon.sha \in Commit /\ Beyond(daemon.sha, tasks[daemon.task])
    BY DaemonTaskNow DEF DaemonWriteCommit, Sound, OInv, IInv, DaemonBound
  <1>1. PICK t \in TaskId, sha \in Commit : t = daemon.task /\ sha = daemon.sha
    BY <1>0
  <1>2. sha <= git.head
    BY <1>0, <1>1 DEF DaemonWriteCommit, Settled, CommitsAreMade, FindIsMade
  <1>3. ASSUME NEW row \in RecordCommit(t, tasks[t], sha, NoReason) PROVE Follows(t, row)
    <2>1. NoReason \in Reason
      BY DEF Reason
    <2> QED
      BY <1>0, <1>1, <1>2, <2>1, CommitLands
  <1>4. DaemonTransacts(RecordCommit(t, tasks[t], sha, NoReason), Visiting)
    BY <1>1 DEF DaemonWriteCommit
  <1> QED
    BY <1>0, <1>1, <1>3, <1>4, VisitingBound, DaemonTransactsHolds

LEMMA DaemonVisitCommentatorHolds ==
  ASSUME Sound, IInv', DaemonVisitCommentator
  PROVE  OInv'
  <1> DEFINE waiting == {t \in TaskId : AwaitsCommentary(tasks[t])}
             queue == daemon.queue \ {0}
             asked == {t \in waiting : tasks[t].requested}
             d == [daemon EXCEPT !.queue = queue, !.pc = "commentary",
                                 !.pending = waiting, !.asked = asked]
  <1>0. daemon \in Daemon
    BY DEF Sound, IInv, TypeOK
  <1>1. /\ queue \in SUBSET (SessionId \cup {0}) /\ waiting \in SUBSET TaskId
        /\ asked \in SUBSET TaskId
    BY <1>0 DEF Daemon
  <1>2. Observes(d)
    BY DEF DaemonVisitCommentator
  <1> HIDE DEF waiting, queue, asked
  <1>3. d \in Daemon /\ d.pc = "commentary"
    BY <1>0, <1>1 DEF Daemon
  <1> HIDE DEF d
  <1> QED
    BY <1>2, <1>3, ObservesHolds

LEMMA DaemonReviewHolds ==
  ASSUME Sound, IInv', NEW t \in TaskId, DaemonReview(t)
  PROVE  OInv'
  <1> DEFINE pending == daemon.pending \ {t}
             rest == [daemon EXCEPT !.pending = pending]
  <1>0. daemon \in Daemon /\ daemon.pc = "commentary"
    BY DEF Sound, IInv, TypeOK, DaemonReview
  <1>1. pending \in SUBSET TaskId
    BY <1>0 DEF Daemon
  <1>2. \/ Observes(rest)
        \/ \E pc \in {"write delivery", "write request"} :
             Observes([rest EXCEPT !.pc = pc, !.task = t])
    BY DEF DaemonReview
  <1> HIDE DEF pending
  <1>3. rest \in Daemon /\ rest.pc = "commentary"
    BY <1>0, <1>1 DEF Daemon
  <1> HIDE DEF rest
  <1>4. CASE Observes(rest)
    BY <1>3, <1>4, ObservesHolds
  <1>5. ASSUME NEW pc \in {"write delivery", "write request"},
               Observes([rest EXCEPT !.pc = pc, !.task = t])
        PROVE  OInv'
    <2> DEFINE d == [rest EXCEPT !.pc = pc, !.task = t]
    <2>1. d \in Daemon /\ d.pc = pc
      BY <1>3 DEF Daemon
    <2>2. Observes(d)
      BY <1>5
    <2> HIDE DEF d
    <2> QED
      BY <2>1, <2>2, ObservesHolds
  <1> QED
    BY <1>2, <1>4, <1>5

LEMMA DaemonStampHolds ==
  ASSUME Sound, IInv', DaemonWriteDelivery \/ DaemonWriteRequest
  PROVE  OInv'
  <1>0. /\ IInv /\ daemon.task \in TaskId /\ Exists(tasks[daemon.task])
        /\ daemon.pc = "write delivery" => tasks[daemon.task].commit \in mentioned
    BY DaemonTaskNow DEF DaemonWriteDelivery, DaemonWriteRequest, Sound, IInv, DaemonBound
  <1>1. PICK t \in TaskId : t = daemon.task
    BY <1>0
  <1>2. ASSUME NEW row \in RecordRequest(tasks[t]) \cup RecordDelivery(tasks[t]),
               row \in RecordRequest(tasks[t]) \/ daemon.pc = "write delivery"
        PROVE  Follows(t, row)
    BY <1>0, <1>1, <1>2, StampLands
  <1>3. Reviewing \in Daemon /\ Reviewing.pc # "write commit"
    BY <1>0, ReviewingBound
  <1>4. CASE DaemonWriteDelivery
    <2>1. /\ \A row \in RecordDelivery(tasks[t]) : Follows(t, row)
          /\ DaemonTransacts(RecordDelivery(tasks[t]), Reviewing)
      BY <1>1, <1>2, <1>4 DEF DaemonWriteDelivery
    <2> QED
      BY <1>1, <1>3, <2>1, DaemonTransactsHolds
  <1>5. CASE DaemonWriteRequest
    <2>1. /\ \A row \in RecordRequest(tasks[t]) : Follows(t, row)
          /\ DaemonTransacts(RecordRequest(tasks[t]), Reviewing)
      BY <1>1, <1>2, <1>5 DEF DaemonWriteRequest
    <2> QED
      BY <1>1, <1>3, <2>1, DaemonTransactsHolds
  <1> QED
    BY <1>4, <1>5

-----------------------------------------------------------------------------
(* The implementers, the commentator and whoever else commits *)

\* Agent e shows a line more, or none, and owes what it owed, nothing, or HEAD.
LEMMA WorldHolds ==
  ASSUME Sound, IInv', Alone, git.head <= git'.head, NEW line \in Line,
         line.commit <= git'.head,
         \A e \in Agent :
           /\ \/ agents'[e].lines = agents[e].lines
              \/ agents'[e].lines = Append(agents[e].lines, line)
           /\ \/ agents'[e].owed \in {agents[e].owed, 0}
              \/ agents'[e].owed = git'.head
  PROVE  OInv'
  <1>0. IInv /\ Settled
    BY DEF Sound, OInv
  <1>1. UNCHANGED <<tasks, sessions, runlog, cli, daemon>>
    BY DEF Alone, database
  <1>2. WorldKeeps
    BY <1>0, <1>1, WorldGrows
  <1>3. FindIsMade' /\ TasksKeep /\ NoneAborted
    BY <1>0, <1>1, <1>2, FindStays, SameTasksKeep
  <1> QED
    BY <1>1, <1>2, <1>3, OthersStep

LEMMA LatePromptHolds ==
  ASSUME Sound, IInv', NEW e \in Agent, NEW t \in TaskId, LatePrompt(e, t)
  PROVE  OInv'
  <1>0. IInv /\ Settled
    BY DEF Sound, OInv
  <1>1. UNCHANGED <<git, runlog>> /\ Alone /\ UNCHANGED <<tasks, sessions, cli, daemon>>
    BY DEF LatePrompt, Alone, database
  <1>2. PICK echoes \in BOOLEAN : echoes
    OBVIOUS
  <1>3. Takes(e, t, echoes)
    BY <1>2 DEF LatePrompt, Takes
  <1>4. WorldKeeps
    BY <1>0, <1>1, <1>3, TakesGrows
  <1>5. FindIsMade' /\ TasksKeep /\ NoneAborted
    BY <1>0, <1>1, <1>4, FindStays, SameTasksKeep
  <1> QED
    BY <1>1, <1>4, <1>5, OthersStep

LEMMA WriteLineHolds ==
  ASSUME Sound, IInv', NEW e \in Agent, WriteLine(e)
  PROVE  OInv'
  <1>1. agents \in [Agent -> AgentState] /\ git \in Git
    BY WorldNow DEF Sound
  <1>2. git'.head = git.head /\ git.head \in Nat
    <2>1. PICK dirty : git' = [git EXCEPT !.dirty = dirty]
      BY DEF WriteLine
    <2>2. git'.head = git.head
      BY <1>1, <2>1 DEF Git
    <2>3. git.head \in Nat
      BY Numbers DEF Sound
    <2> QED
      BY <2>2, <2>3
  <1>3. \A d \in Agent :
          /\ \/ agents'[d].lines = agents[d].lines
             \/ agents'[d].lines = Append(agents[d].lines, TextLine)
          /\ agents'[d].owed = agents[d].owed
    <2> SUFFICES ASSUME NEW d \in Agent
                 PROVE  /\ \/ agents'[d].lines = agents[d].lines
                           \/ agents'[d].lines = Append(agents[d].lines, TextLine)
                        /\ agents'[d].owed = agents[d].owed
      OBVIOUS
    <2>1. agents[d] \in AgentState
      BY <1>1
    <2>2. \/ agents'[d] = agents[d]
          \/ agents'[d] = [agents[d] EXCEPT !.lines = Append(@, TextLine)]
      BY <1>1 DEF WriteLine
    <2> QED
      BY <2>1, <2>2 DEF AgentState
  <1>4. git.head <= git'.head /\ TextLine.commit <= git'.head /\ TextLine \in Line
    BY <1>2, TextIsLine
  <1>5. Alone
    BY DEF WriteLine
  <1> QED
    BY <1>3, <1>4, <1>5, WorldHolds

LEMMA NewHeadMoves ==
  ASSUME IInv, NEW trailer, NewHead(trailer)
  PROVE  git'.head = git.head + 1 /\ git.head \in Nat
  BY Numbers DEF NewHead

LEMMA MakeCommitHolds ==
  ASSUME Sound, IInv', NEW e \in Agent, MakeCommit(e)
  PROVE  OInv'
  <1>1. agents \in [Agent -> AgentState]
    BY WorldNow DEF Sound
  <1>2. git'.head = git.head + 1 /\ git.head \in Nat
    BY NewHeadMoves DEF MakeCommit, Sound
  <1> DEFINE owed == IF agents[e].name \in HeadOnly THEN 0 ELSE git.head + 1
  <1>3. \A d \in Agent :
          /\ agents'[d].lines = agents[d].lines
          /\ agents'[d].owed \in {agents[d].owed, owed}
    <2> SUFFICES ASSUME NEW d \in Agent
                 PROVE  /\ agents'[d].lines = agents[d].lines
                        /\ agents'[d].owed \in {agents[d].owed, owed}
      OBVIOUS
    <2>1. agents[d] \in AgentState
      BY <1>1
    <2>2. agents'[d] = agents[d] \/ agents'[d] = [agents[d] EXCEPT !.owed = owed]
      BY <1>1 DEF MakeCommit
    <2> HIDE DEF owed
    <2> QED
      BY <2>1, <2>2 DEF AgentState
  <1>4. \A d \in Agent :
          /\ agents'[d].lines = agents[d].lines
          /\ agents'[d].owed \in {agents[d].owed, 0} \/ agents'[d].owed = git'.head
    BY <1>2, <1>3
  <1>5. git.head <= git'.head /\ TextLine.commit <= git'.head /\ TextLine \in Line
    BY <1>2, TextIsLine
  <1>6. Alone
    BY DEF MakeCommit
  <1> QED
    BY <1>4, <1>5, <1>6, WorldHolds

LEMMA ShowCommitHolds ==
  ASSUME Sound, IInv', NEW e \in Agent, ShowCommit(e)
  PROVE  OInv'
  <1>1. agents \in [Agent -> AgentState] /\ agents[e].owed <= git.head
        /\ agents[e].owed \in Commit \cup {0}
    BY WorldNow DEF Sound, OInv, Settled, CommitsAreMade, LinesAreMade, AgentState
  <1>2. PICK sha \in Commit \cup {0} : sha = agents[e].owed
    BY <1>1
  <1>3. PICK line \in Line : line = CommitLine(sha) /\ line.commit = sha
    <2>1. CommitLine(sha) \in Line /\ CommitLine(sha).commit = sha
      BY DEF CommitLine, Line
    <2> QED
      BY <2>1
  <1>4. \A d \in Agent :
          /\ \/ agents'[d].lines = agents[d].lines
             \/ agents'[d].lines = Append(agents[d].lines, line)
          /\ agents'[d].owed \in {agents[d].owed, 0}
    <2> SUFFICES ASSUME NEW d \in Agent
                 PROVE  /\ \/ agents'[d].lines = agents[d].lines
                           \/ agents'[d].lines = Append(agents[d].lines, line)
                        /\ agents'[d].owed \in {agents[d].owed, 0}
      OBVIOUS
    <2>1. agents[d] \in AgentState
      BY <1>1
    <2>2. \/ agents'[d] = agents[d]
          \/ agents'[d] = [agents[d] EXCEPT !.lines = Append(@, line), !.owed = 0]
      BY <1>1, <1>2, <1>3 DEF ShowCommit
    <2> QED
      BY <2>1, <2>2 DEF AgentState
  <1>5. UNCHANGED git /\ Alone
    BY DEF ShowCommit
  <1>6. git.head <= git'.head /\ line.commit <= git'.head
    <2>1. git.head \in Nat
      BY Numbers DEF Sound
    <2> QED
      BY <1>1, <1>2, <1>3, <1>5, <2>1
  <1> QED
    BY <1>4, <1>5, <1>6, WorldHolds

LEMMA OutsideHolds ==
  ASSUME Sound, IInv', OutsideCommit \/ \E c \in Commit : Review(c)
  PROVE  OInv'
  <1>1. UNCHANGED agents /\ Alone
    BY DEF OutsideCommit, Review
  <1>2. git.head \in Nat /\ git.head <= git'.head
    <2>1. git.head \in Nat
      BY Numbers DEF Sound
    <2>2. CASE OutsideCommit
      <3>1. git'.head = git.head + 1
        BY <2>2 DEF OutsideCommit, NewHead
      <3> QED
        BY <2>1, <3>1
    <2>3. CASE UNCHANGED git
      BY <2>1, <2>3
    <2> QED
      BY <2>1, <2>2, <2>3 DEF Review
  <1>3. TextLine.commit <= git'.head /\ TextLine \in Line
    BY <1>2, HeadMoves, TextIsLine DEF Sound
  <1> QED
    BY <1>1, <1>2, <1>3, WorldHolds

-----------------------------------------------------------------------------
(* OInv is inductive under OneLead, relative to IInv. *)

LEMMA InitOInv == Init => OInv
  <1> SUFFICES ASSUME Init PROVE OInv
    OBVIOUS
  <1>1. \A t \in TaskId : /\ tasks[t] = NoRow /\ ~Exists(tasks[t]) /\ ~Flies(tasks[t])
                          /\ tasks[t].session = 0 /\ tasks[t].commit = 0
    BY DEF Init, NoRow, Exists, Flies
  <1>2. git.head = 1 /\ daemon.pc = "visit"
    BY DEF Init, Watching
  <1>3. LinesAreMade
    <2>1. \A e \in Agent : agents[e].owed = 0 /\ agents[e].lines = <<>>
      BY DEF Init, NoAgent
    <2>2. \A e \in Agent : agents[e].owed <= git.head
      BY <1>2, <2>1
    <2>3. \A e \in Agent : 1..Len(agents[e].lines) = {}
      BY <2>1
    <2> QED
      BY <2>2, <2>3 DEF LinesAreMade
  <1>4. \A t \in TaskId : tasks[t].commit <= git.head
    BY <1>1, <1>2
  <1>5. FindIsMade
    BY <1>2 DEF FindIsMade
  <1>6. Settled
    BY <1>1, <1>3, <1>4, <1>5
    DEF Settled, SingleFlight, FreshImplementer, DispatchedMeansTaken, CommitCreditedOnce,
        CommitsAreMade, CreditedBefore, Clean, InState
  <1>7. AbortIsHeard
    BY <1>1 DEF AbortIsHeard, InState
  <1>8. \A p \in Procs : Held(cli[p])
    <2>1. \A p \in Procs : cli[p].pc = "idle"
      BY DEF Init, Idle
    <2> QED
      BY <2>1 DEF Held, Sending, Placing
  <1> QED
    BY <1>6, <1>7, <1>8 DEF OInv

LEMMA StutterHolds ==
  ASSUME Sound, IInv', UNCHANGED vars
  PROVE  OInv'
  <1>1. UNCHANGED <<tasks, sessions, runlog, agents, git, cli, daemon>>
    BY DEF vars, database, world
  <1>2. WorldKeeps /\ TasksKeep /\ NoneAborted
    BY <1>1, SameTasksKeep, SameWorldKeeps DEF Sound, OInv
  <1>3. FindIsMade'
    BY <1>1, <1>2, FindStays DEF Sound, OInv
  <1> QED
    BY <1>1, <1>2, <1>3, OthersStep

LEMMA LeadHolds ==
  ASSUME Sound, IInv', NEW p \in Procs, Lead(p)
  PROVE  OInv'
  <1>1. CASE New(p)
    BY <1>1, NewHolds
  <1>2. CASE Step(p)
    BY <1>2, WriteLaunchHolds, CreateRetryHolds, SupersedeHolds, WriteAbortHolds,
       InterruptHolds, CheckFlyingHolds, CheckPriorHolds, ReadOffsetHolds, ReadBaseHolds,
       PromptHolds, WriteDispatchHolds, LookAgainHolds, GateHolds, WriteAcceptHolds,
       WriteForcedAcceptHolds, WriteForcedCommitHolds, WriteForcedCommentaryHolds
    DEF Step
  <1>3. CASE Crash(p)
    BY <1>3, RefusedHolds DEF Crash
  <1>4. CASE \E n \in Names : StartAgent(p, n) \/ FindSession(p, n)
    BY <1>4, StartAgentHolds, FindSessionHolds
  <1>5. ASSUME NEW t \in TaskId,
               \/ Retry(p, t) \/ AbortTask(p, t) \/ DispatchTask(p, t)
               \/ AcceptTask(p, t) \/ ForceAccept(p, t) \/ ForceCommentary(p, t)
               \/ \E c \in Commit : ForceCommit(p, t, c)
        PROVE  OInv'
    BY <1>5, RetryHolds, AbortTaskHolds, DispatchTaskHolds, AcceptTaskHolds,
       BareStepHolds, ForceCommitHolds
  <1> QED
    BY <1>1, <1>2, <1>3, <1>4, <1>5 DEF Lead

LEMMA DaemonHolds ==
  ASSUME Sound, IInv', DaemonStep \/ DaemonCrash \/ DaemonStart
  PROVE  OInv'
  <1>0. IInv
    BY DEF Sound
  <1>1. CASE DaemonStep
    BY <1>0, <1>1, DaemonPollHolds, DaemonVisitHolds, DaemonWriteFlightHolds,
       DaemonWriteCommitHolds, DaemonVisitCommentatorHolds, DaemonReviewHolds,
       DaemonStampHolds, VisitingBound, ObservesHolds
    DEF DaemonStep, DaemonReviewed
  <1>2. CASE DaemonCrash
    BY <1>2, DiesHolds DEF DaemonCrash
  <1>3. CASE DaemonStart
    <2>1. Watching.pc = "visit"
      BY DEF Watching
    <2> QED
      BY <1>3, <2>1, WatchingBound, ObservesHolds DEF DaemonStart
  <1> QED
    BY <1>1, <1>2, <1>3

LEMMA EnvironmentHolds ==
  ASSUME Sound, IInv', Environment
  PROVE  OInv'
  BY LatePromptHolds, WriteLineHolds, MakeCommitHolds, ShowCommitHolds, OutsideHolds
  DEF Environment

LEMMA OneLeadInductive ==
  ASSUME OneLead
  PROVE  IInv /\ OInv /\ [Next]_vars => OInv'
  <1> SUFFICES ASSUME IInv, OInv, [Next]_vars
               PROVE  OInv'
    OBVIOUS
  <1>1. Sound /\ IInv'
    BY Inductive DEF Sound
  <1>2. CASE Next
    BY <1>1, <1>2, LeadHolds, DaemonHolds, EnvironmentHolds DEF Next
  <1>3. CASE UNCHANGED vars
    BY <1>1, <1>3, StutterHolds
  <1> QED
    BY <1>2, <1>3

LEMMA OneLeadInvariance ==
  ASSUME OneLead
  PROVE  Spec => []OInv
  <1>1. Init => OInv
    BY InitOInv
  <1>2. IInv /\ OInv /\ [Next]_vars => OInv'
    BY OneLeadInductive
  <1>3. Spec => []IInv
    BY Invariance
  <1> QED
    BY <1>1, <1>2, <1>3, PTL DEF Spec

-----------------------------------------------------------------------------
\* cmd_dispatch's refusal to dispatch while a task flies is enough: between its
\* look and its write only the lead itself could make another one fly.
THEOREM OneTaskFlies ==
  ASSUME OneLead
  PROVE  Spec => []SingleFlight
  <1>1. OInv => SingleFlight
    BY DEF OInv, Settled
  <1> QED
    BY <1>1, OneLeadInvariance, PTL

\* A session is never bound to a second task, whatever became of the first and
\* however often it was relaunched: last_task_on answers for every later row.
THEOREM ImplementersAreFresh ==
  ASSUME OneLead
  PROVE  Spec => []FreshImplementer
  <1>1. OInv => FreshImplementer
    BY DEF OInv, Settled
  <1> QED
    BY <1>1, OneLeadInvariance, PTL

\* The prompt of a dispatched task shows past the recorded offset: the offset is
\* read before the prompt is sent, and of the session that takes it.
THEOREM DispatchesWereTaken ==
  ASSUME OneLead
  PROVE  Spec => []DispatchedMeansTaken
  <1>1. OInv => DispatchedMeansTaken
    BY DEF OInv, Settled
  <1> QED
    BY <1>1, OneLeadInvariance, PTL

\* A commit is credited once, although the daemon, the gate and the forced
\* remedy each look for it on their own: every commit credited earlier is at or
\* before the base of the task that flies.
THEOREM CreditIsUnique ==
  ASSUME OneLead
  PROVE  Spec => []CommitCreditedOnce
  <1>1. OInv => CommitCreditedOnce
    BY DEF OInv, Settled
  <1> QED
    BY <1>1, OneLeadInvariance, PTL

\* Unless a command is killed between its write and its interrupt, an aborted
\* task's implementer is told or the run log says that it was not.
THEOREM AbortsAreHeard ==
  ASSUME OneLead, Crashes = FALSE
  PROVE  Spec => []AbortIsHeard
  <1>1. OInv => AbortIsHeard
    BY DEF OInv
  <1> QED
    BY <1>1, OneLeadInvariance, PTL
=============================================================================
