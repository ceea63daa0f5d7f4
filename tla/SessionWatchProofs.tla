-------------------------- MODULE SessionWatchProofs --------------------------
(***************************************************************************)
(* However often a session is launched again and its daemon restarted, and *)
(* whatever the transcripts say: a daemon nudges a stalled session once,   *)
(* and asks a full commentator once to compact; every row can be read      *)
(* back, and only a launch during a poll ends the daemon.                  *)
(***************************************************************************)
EXTENDS SessionWatch, TLAPS

-----------------------------------------------------------------------------
(* The inductive invariant *)

\* A poll has a row from its snapshot on, and what it is about to prompt was so
\* when it looked.
PollBound(d) ==
  /\ d.pc \in {"stamp", "snapshot"} => d.row = 0 /\ ~d.grew
  /\ d.pc \notin {"stamp", "snapshot"} => d.row # 0
  /\ d.pc = "compacting" => ~d.compacting
  /\ d.pc = "kicking" => d.mayKick

\* The row of a session s a daemon has prompted: while it is live no poll is of
\* another, so that sizes and the outstanding compaction are this session's.
PromptedRow(s, row, d) == row.written /\ (row.live => d.row \in {0, s})

\* A session that was nudged and has not grown: the row says so, and the daemon
\* knows the size it was nudged at.
NudgeKept(s, a, row, d) ==
  a.nudges > 0 =>
    /\ a.nudges = 1 /\ row.kicked /\ PromptedRow(s, row, d)
    /\ row.live \/ d.row = s => a.size = d.known
    /\ d.row = s => ~d.mayKick /\ ~d.grew

\* A session that was asked to compact and not read under the limit since.
CompactionKept(s, a, row, d) ==
  a.compactions > 0 =>
    /\ a.compactions = 1 /\ PromptedRow(s, row, d)
    /\ row.live \/ d.row = s => d.compacting
    /\ d.row = s /\ d.pc = "compact" => d.context # "under"

\* Only the last session that has a row can be live.
RowsBound ==
  /\ \A s \in Session : rows[s].live => rows[s].written
  /\ \A s \in Session : rows[s].written => s <= launched
  /\ \A r, s \in Session : rows[r].live /\ rows[s].live => r = s
  /\ daemon.row # 0 => rows[daemon.row].written

IInv ==
  /\ TypeOK /\ RowsBound /\ PollBound(daemon)
  /\ \A s \in Session :
       /\ NudgeKept(s, agents[s], rows[s], daemon)
       /\ CompactionKept(s, agents[s], rows[s], daemon)
-----------------------------------------------------------------------------
(* Parts of a step *)

LEMMA InitHolds == Init => IInv
  <1> SUFFICES ASSUME Init PROVE IInv
    OBVIOUS
  <1> USE ConstantsAssumption DEF ConstantsAssumption
  <1>1. 0 \in Time /\ 0 \in 0..MaxStarts /\ "neither" \in Contexts
    BY DEF Time, Contexts
  <1>2. NoRow \in Row
    BY <1>1 DEF NoRow, Row
  <1>3. NoAgent \in AgentState
    BY <1>1 DEF NoAgent, AgentState
  <1>4. Started \in Daemon
    BY <1>1 DEF Started, Daemon
  <1>5. TypeOK
    BY <1>1, <1>2, <1>3, <1>4 DEF Init, TypeOK
  <1>6. \A s \in Session : ~rows[s].written /\ ~rows[s].live
    BY DEF Init, NoRow
  <1>7. \A s \in Session : agents[s].nudges = 0 /\ agents[s].compactions = 0
    BY DEF Init, NoAgent
  <1>8. PollBound(daemon) /\ daemon.row = 0
    BY DEF Init, Started, PollBound
  <1>9. RowsBound
    BY <1>6, <1>8 DEF RowsBound
  <1> QED
    BY <1>5, <1>7, <1>8, <1>9 DEF IInv, NudgeKept, CompactionKept

\* A step of the daemon's own, that writes nothing.
LEMMA DaemonOnly ==
  ASSUME IInv, UNCHANGED <<echoesOnTake, clock, restarts, launched, rows, agents>>,
         daemon' \in Daemon, PollBound(daemon'),
         daemon'.row # 0 => rows[daemon'.row].written,
         \A s \in Session : /\ NudgeKept(s, agents[s], rows[s], daemon')
                            /\ CompactionKept(s, agents[s], rows[s], daemon')
  PROVE IInv'
  <1>1. TypeOK'
    BY DEF IInv, TypeOK, Daemon, AgentState, Contexts
  <1>2. RowsBound'
    BY DEF IInv, RowsBound
  <1> QED
    BY <1>1, <1>2 DEF IInv

\* What a poll that ends, with what it keeps, leaves behind.
LEMMA PollEnds ==
  ASSUME IInv, daemon' = EndPoll
  PROVE  /\ daemon' \in Daemon /\ PollBound(daemon') /\ daemon'.row = 0
         /\ daemon'.known = daemon.known /\ daemon'.compacting = daemon.compacting
         /\ \A s \in Session : /\ NudgeKept(s, agents[s], rows[s], daemon')
                               /\ CompactionKept(s, agents[s], rows[s], daemon')
  <1>1. PICK d \in Daemon : d = daemon
    BY DEF IInv, TypeOK
  <1>2. PICK k \in Nat, c \in BOOLEAN : d.known = k /\ d.compacting = c
    BY DEF Daemon
  <1>3. daemon' = [pc |-> "stamp", known |-> k, compacting |-> c, at |-> 0,
                   row |-> 0, lastGrowth |-> 0, mayKick |-> FALSE, grew |-> FALSE,
                   context |-> "neither", watched |-> 0, shown |-> {}, idle |-> FALSE]
    BY <1>1, <1>2 DEF EndPoll, Started
  <1>4. 0 \in Time /\ "neither" \in Contexts
    BY ConstantsAssumption DEF ConstantsAssumption, Time, Contexts
  <1>5. daemon' \in Daemon
    <2>1. [pc |-> "stamp", known |-> k, compacting |-> c, at |-> 0, row |-> 0,
           lastGrowth |-> 0, mayKick |-> FALSE, grew |-> FALSE, context |-> "neither",
           watched |-> 0, shown |-> {}, idle |-> FALSE] \in Daemon
      BY <1>4 DEF Daemon
    <2> QED
      BY <1>3, <2>1
  <1>6. PollBound(daemon') /\ daemon'.row = 0
    BY <1>3 DEF PollBound
  <1>7. /\ daemon'.known = daemon.known /\ daemon'.compacting = daemon.compacting
        /\ ~daemon'.mayKick /\ ~daemon'.grew /\ daemon'.pc = "stamp"
    BY <1>1, <1>2, <1>3
  <1>8. ASSUME NEW s \in Session
        PROVE  /\ NudgeKept(s, agents[s], rows[s], daemon')
               /\ CompactionKept(s, agents[s], rows[s], daemon')
    <2>1. NudgeKept(s, agents[s], rows[s], daemon) /\ CompactionKept(s, agents[s], rows[s], daemon)
      BY DEF IInv
    <2>2. s # 0
      BY DEF Session
    <2> QED
      BY <2>1, <2>2, <1>6, <1>7 DEF NudgeKept, CompactionKept, PromptedRow
  <1> QED
    BY <1>5, <1>6, <1>7, <1>8

\* A poll's step that keeps its row, what it knows of prompts and the kick.
LEMMA PollGoesOn ==
  ASSUME IInv, UNCHANGED <<echoesOnTake, clock, restarts, launched, rows, agents>>,
         daemon' \in Daemon, daemon'.row = daemon.row, daemon'.known = daemon.known,
         daemon'.compacting = daemon.compacting, daemon'.mayKick = daemon.mayKick,
         daemon'.grew = daemon.grew, PollBound(daemon'),
         \A s \in Session : agents[s].compactions > 0 /\ daemon.row = s /\ daemon'.pc = "compact"
                              => daemon'.context # "under"
  PROVE IInv'
  <1>1. ASSUME NEW s \in Session
        PROVE  /\ NudgeKept(s, agents[s], rows[s], daemon')
               /\ CompactionKept(s, agents[s], rows[s], daemon')
    <2>1. NudgeKept(s, agents[s], rows[s], daemon) /\ CompactionKept(s, agents[s], rows[s], daemon)
      BY DEF IInv
    <2> QED
      BY <2>1 DEF NudgeKept, CompactionKept, PromptedRow
  <1>2. daemon'.row # 0 => rows[daemon'.row].written
    BY DEF IInv, RowsBound
  <1> QED
    BY <1>1, <1>2, DaemonOnly

-----------------------------------------------------------------------------
(* The daemon *)

LEMMA StampKeeps == IInv /\ Stamp => IInv'
  <1> SUFFICES ASSUME IInv, Stamp PROVE IInv'
    OBVIOUS
  <1>1. PICK d \in Daemon : d = daemon
    BY DEF IInv, TypeOK
  <1>2. d.pc = "stamp" /\ d.row = 0 /\ ~d.grew
    BY <1>1 DEF IInv, Stamp, DaemonAt, PollBound
  <1>3. daemon' = [d EXCEPT !.pc = "snapshot", !.at = clock] /\ clock \in Time
    BY <1>1 DEF IInv, TypeOK, Stamp
  <1>4. daemon' \in Daemon
    BY <1>3 DEF Daemon
  <1>5. /\ daemon'.row = d.row /\ daemon'.known = d.known /\ daemon'.compacting = d.compacting
        /\ daemon'.mayKick = d.mayKick /\ daemon'.grew = d.grew /\ daemon'.pc = "snapshot"
    BY <1>3 DEF Daemon
  <1>6. PollBound(daemon')
    BY <1>2, <1>5 DEF PollBound
  <1> QED
    BY <1>1, <1>4, <1>5, <1>6, PollGoesOn DEF Stamp

LEMMA EndsKeep ==
  ASSUME IInv, UNCHANGED <<echoesOnTake, clock, restarts, launched, rows, agents>>,
         daemon' = EndPoll
  PROVE IInv'
  BY PollEnds, DaemonOnly

LEMMA SnapshotKeeps == IInv /\ Snapshot => IInv'
  <1> SUFFICES ASSUME IInv, Snapshot PROVE IInv'
    OBVIOUS
  <1>1. CASE daemon' = EndPoll
    BY <1>1, EndsKeep DEF Snapshot
  <1>2. ASSUME NEW t \in Session, rows[t].live,
               daemon' = [daemon EXCEPT !.pc = "read", !.row = t,
                            !.lastGrowth = rows[t].lastGrowth, !.mayKick = ~rows[t].kicked]
        PROVE  IInv'
    <2>1. PICK d \in Daemon : d = daemon
      BY DEF IInv, TypeOK
    <2>2. PICK row \in Row : row = rows[t]
      BY DEF IInv, TypeOK
    <2>3. PICK g \in Time, k \in BOOLEAN : row.lastGrowth = g /\ row.kicked = k
      BY DEF Row
    <2>4. daemon' = [d EXCEPT !.pc = "read", !.row = t, !.lastGrowth = g, !.mayKick = ~k]
      BY <1>2, <2>1, <2>2, <2>3
    <2>5. daemon' \in Daemon
      BY <2>4 DEF Daemon
    <2>6. /\ daemon'.row = t /\ daemon'.known = d.known /\ daemon'.compacting = d.compacting
          /\ daemon'.mayKick = ~k /\ daemon'.grew = d.grew /\ daemon'.pc = "read"
      BY <2>4 DEF Daemon
    <2>7. d.pc = "snapshot" /\ d.row = 0 /\ ~d.grew
      BY <2>1 DEF IInv, Snapshot, DaemonAt, PollBound
    <2>8. t # 0 /\ rows[t].written
      BY <1>2 DEF Session, IInv, RowsBound
    <2>9. PollBound(daemon')
      BY <2>6, <2>8 DEF PollBound
    <2>10. ASSUME NEW s \in Session
           PROVE  /\ NudgeKept(s, agents[s], rows[s], daemon')
                  /\ CompactionKept(s, agents[s], rows[s], daemon')
      <3>1. NudgeKept(s, agents[s], rows[s], daemon) /\ CompactionKept(s, agents[s], rows[s], daemon)
        BY DEF IInv
      <3>2. rows[s].live => s = t
        BY <1>2 DEF IInv, RowsBound
      <3>3. s = t => rows[s].live /\ rows[s].kicked = k
        BY <1>2, <2>2, <2>3
      <3> QED
        BY <2>1, <2>6, <2>7, <3>1, <3>2, <3>3 DEF NudgeKept, CompactionKept, PromptedRow
    <2> QED
      BY <2>5, <2>6, <2>8, <2>9, <2>10, DaemonOnly DEF Snapshot
  <1> QED
    BY <1>1, <1>2 DEF Snapshot

LEMMA ReadKeeps == IInv /\ Read => IInv'
  <1> SUFFICES ASSUME IInv, Read PROVE IInv'
    OBVIOUS
  <1>1. CASE daemon' = EndPoll
    BY <1>1, EndsKeep DEF Read
  <1>2. CASE daemon' = [daemon EXCEPT !.pc = "write reading", !.known = agents[daemon.row].size,
                          !.grew = agents[daemon.row].size # daemon.known,
                          !.context = agents[daemon.row].context]
    <2>1. PICK d \in Daemon : d = daemon
      BY DEF IInv, TypeOK
    <2>2. d.pc = "read" /\ d.row # 0
      BY <2>1 DEF IInv, Read, DaemonAt, PollBound
    <2>3. PICK t \in Session : t = d.row
      BY <2>2 DEF Daemon
    <2>4. PICK a \in AgentState : a = agents[t]
      BY DEF IInv, TypeOK
    <2>5. PICK size \in Nat, c \in Contexts, g \in BOOLEAN :
            a.size = size /\ a.context = c /\ g = (a.size # d.known)
      BY DEF AgentState
    <2>6. daemon' = [d EXCEPT !.pc = "write reading", !.known = size, !.grew = g, !.context = c]
      BY <1>2, <2>1, <2>3, <2>4, <2>5
    <2>7. daemon' \in Daemon
      BY <2>6 DEF Daemon
    <2>8. /\ daemon'.row = d.row /\ daemon'.known = size /\ daemon'.compacting = d.compacting
          /\ daemon'.mayKick = d.mayKick /\ daemon'.grew = g /\ daemon'.pc = "write reading"
      BY <2>6 DEF Daemon
    <2>9. PollBound(daemon')
      BY <2>2, <2>8 DEF PollBound
    <2>10. ASSUME NEW s \in Session
           PROVE  /\ NudgeKept(s, agents[s], rows[s], daemon')
                  /\ CompactionKept(s, agents[s], rows[s], daemon')
      <3>1. NudgeKept(s, agents[s], rows[s], daemon) /\ CompactionKept(s, agents[s], rows[s], daemon)
        BY DEF IInv
      <3>2. s = t => agents[s].size = size /\ g = (agents[s].size # d.known)
        BY <2>4, <2>5
      <3> QED
        BY <2>1, <2>2, <2>3, <2>8, <3>1, <3>2 DEF NudgeKept, CompactionKept, PromptedRow
    <2>11. daemon'.row # 0 => rows[daemon'.row].written
      BY <2>1, <2>8 DEF IInv, RowsBound
    <2> QED
      BY <2>7, <2>9, <2>10, <2>11, DaemonOnly DEF Read
  <1> QED
    BY <1>1, <1>2 DEF Read

\* The reading of a row: what it leaves of it, and what growth alone does.
LEMMA ReadingOf ==
  ASSUME NEW row \in Row, NEW grew \in BOOLEAN, NEW at \in Time
  PROVE  /\ Reading(row, grew, at) \in Row
         /\ Reading(row, grew, at).written = row.written
         /\ Reading(row, grew, at).live = row.live
         /\ ~grew => Reading(row, grew, at).kicked = row.kicked
  <1>1. [row EXCEPT !.lastGrowth = at, !.kicked = FALSE] \in Row
    BY DEF Row
  <1>2. /\ [row EXCEPT !.lastGrowth = at, !.kicked = FALSE].written = row.written
        /\ [row EXCEPT !.lastGrowth = at, !.kicked = FALSE].live = row.live
    BY DEF Row
  <1> QED
    BY <1>1, <1>2 DEF Reading

LEMMA WriteReadingKeeps == IInv /\ WriteReading => IInv'
  <1> SUFFICES ASSUME IInv, WriteReading PROVE IInv'
    OBVIOUS
  <1>1. PICK d \in Daemon : d = daemon
    BY DEF IInv, TypeOK
  <1>2. d.pc = "write reading" /\ d.row # 0
    BY <1>1 DEF IInv, WriteReading, DaemonAt, PollBound
  <1>3. PICK t \in Session : t = d.row
    BY <1>2 DEF Daemon
  <1>4. PICK g \in BOOLEAN, at \in Time, c \in Contexts : d.grew = g /\ d.at = at /\ d.context = c
    BY DEF Daemon
  <1>5. rows[t] \in Row /\ agents[t] \in AgentState
    BY DEF IInv, TypeOK
  <1>6. PICK row \in Row : row = Reading(rows[t], g, at)
    BY <1>5, ReadingOf
  <1>7. /\ row.written = rows[t].written /\ row.live = rows[t].live
        /\ ~g => row.kicked = rows[t].kicked
    BY <1>5, <1>6, ReadingOf
  <1>8. CASE daemon' = [daemon EXCEPT !.pc = "dead"] /\ UNCHANGED <<rows, agents>>
    <2>1. daemon' = [d EXCEPT !.pc = "dead"]
      BY <1>1, <1>8
    <2>2. daemon' \in Daemon
      BY <2>1 DEF Daemon
    <2>3. /\ daemon'.row = d.row /\ daemon'.known = d.known /\ daemon'.compacting = d.compacting
          /\ daemon'.mayKick = d.mayKick /\ daemon'.grew = d.grew /\ daemon'.pc = "dead"
      BY <2>1 DEF Daemon
    <2>4. PollBound(daemon')
      BY <1>2, <2>3 DEF PollBound
    <2> QED
      BY <1>1, <1>8, <2>2, <2>3, <2>4, PollGoesOn DEF WriteReading
  <1>9. CASE /\ rows' = [rows EXCEPT ![daemon.row] = Reading(rows[daemon.row], daemon.grew, daemon.at)]
             /\ daemon' = [daemon EXCEPT !.pc = "compact", !.grew = FALSE]
             /\ agents' = [agents EXCEPT ![daemon.row].compactions =
                             IF daemon.context = "under" THEN 0 ELSE @]
    <2>1. /\ rows' = [rows EXCEPT ![t] = row]
          /\ daemon' = [d EXCEPT !.pc = "compact", !.grew = FALSE]
          /\ agents' = [agents EXCEPT ![t].compactions = IF c = "under" THEN 0 ELSE @]
      BY <1>1, <1>3, <1>4, <1>6, <1>9
    <2>2. PICK a \in AgentState : a = agents[t]
      BY <1>5
    <2>3. PICK n \in 0..2 : n = IF c = "under" THEN 0 ELSE a.compactions
      BY DEF AgentState
    <2>4. agents' = [agents EXCEPT ![t] = [a EXCEPT !.compactions = n]]
      BY <2>1, <2>2, <2>3
    <2>5. PICK b \in AgentState : b = [a EXCEPT !.compactions = n]
      BY DEF AgentState
    <2>6. b.size = a.size /\ b.nudges = a.nudges /\ b.compactions = n
      BY <2>5 DEF AgentState
    <2>7. /\ rows' \in [Session -> Row] /\ agents' \in [Session -> AgentState]
          /\ rows'[t] = row /\ agents'[t] = b
          /\ \A s \in Session : s # t => rows'[s] = rows[s] /\ agents'[s] = agents[s]
      BY <2>1, <2>4, <2>5 DEF IInv, TypeOK
    <2>8. daemon' \in Daemon
      BY <2>1 DEF Daemon
    <2>9. /\ daemon'.row = d.row /\ daemon'.known = d.known /\ daemon'.compacting = d.compacting
          /\ daemon'.mayKick = d.mayKick /\ ~daemon'.grew /\ daemon'.pc = "compact"
          /\ daemon'.context = d.context
      BY <2>1 DEF Daemon
    <2>10. PollBound(daemon')
      BY <1>2, <2>9 DEF PollBound
    <2>11. TypeOK'
      BY <2>7, <2>8 DEF IInv, TypeOK, WriteReading, Daemon, AgentState, Contexts
    <2>12. \A s \in Session : rows'[s].written = rows[s].written /\ rows'[s].live = rows[s].live
      BY <1>7, <2>7
    <2>13. daemon'.row = daemon.row /\ launched' = launched
      BY <1>1, <2>9 DEF WriteReading
    <2>14. RowsBound'
      BY <1>1, <1>3, <2>9, <2>12, <2>13 DEF IInv, RowsBound
    <2>15. ASSUME NEW s \in Session
           PROVE  /\ NudgeKept(s, agents'[s], rows'[s], daemon')
                  /\ CompactionKept(s, agents'[s], rows'[s], daemon')
      <3>1. NudgeKept(s, agents[s], rows[s], d) /\ CompactionKept(s, agents[s], rows[s], d)
        BY <1>1 DEF IInv
      <3>2. CASE s = t
        <4>1. agents'[s].nudges > 0 => ~g
          BY <1>3, <1>4, <2>2, <2>6, <2>7, <3>1, <3>2 DEF NudgeKept
        <4>2. NudgeKept(s, agents'[s], rows'[s], daemon')
          BY <1>3, <1>7, <2>2, <2>6, <2>7, <2>9, <3>1, <3>2, <4>1 DEF NudgeKept, PromptedRow
        <4>3. agents'[s].compactions > 0 => n = agents[s].compactions /\ d.context # "under"
          BY <1>4, <2>2, <2>3, <2>6, <2>7, <3>2
        <4> QED
          BY <1>3, <1>7, <2>2, <2>6, <2>7, <2>9, <3>1, <3>2, <4>2, <4>3
          DEF CompactionKept, PromptedRow
      <3>3. CASE s # t
        BY <1>3, <2>7, <2>9, <3>1, <3>3 DEF NudgeKept, CompactionKept, PromptedRow
      <3> QED
        BY <3>2, <3>3
    <2> QED
      BY <2>10, <2>11, <2>14, <2>15 DEF IInv
  <1> QED
    BY <1>8, <1>9 DEF WriteReading

\* What a step of an agent, or a prompt sent to one, may leave.
LEMMA SessionsGoOn ==
  ASSUME IInv, UNCHANGED <<echoesOnTake, clock, restarts, launched, rows>>,
         agents' \in [Session -> AgentState], daemon' \in Daemon,
         daemon'.row = daemon.row, daemon'.known = daemon.known,
         daemon'.compacting = daemon.compacting, daemon'.mayKick = daemon.mayKick,
         daemon'.grew = daemon.grew, PollBound(daemon'),
         daemon'.pc = "compact" => daemon.pc = "compact" /\ daemon'.context = daemon.context,
         \A s \in Session :
           /\ agents'[s].compactions = agents[s].compactions
           /\ agents'[s].nudges > 0 => /\ agents'[s].nudges = agents[s].nudges
                                       /\ agents'[s].size = agents[s].size
  PROVE IInv'
  <1>1. TypeOK'
    BY DEF IInv, TypeOK, Daemon, AgentState, Contexts
  <1>2. RowsBound'
    BY DEF IInv, RowsBound
  <1>3. ASSUME NEW s \in Session
        PROVE  /\ NudgeKept(s, agents'[s], rows[s], daemon')
               /\ CompactionKept(s, agents'[s], rows[s], daemon')
    <2>1. NudgeKept(s, agents[s], rows[s], daemon) /\ CompactionKept(s, agents[s], rows[s], daemon)
      BY DEF IInv
    <2> QED
      BY <2>1 DEF NudgeKept, CompactionKept, PromptedRow
  <1> QED
    BY <1>1, <1>2, <1>3 DEF IInv

LEMMA SendKeeps ==
  ASSUME IInv, NEW prompt \in Prompts, NEW pc \in {"compacting", "kicking"},
         pc = "compacting" => ~daemon.compacting, pc = "kicking" => daemon.mayKick,
         daemon.pc \in {"compact", "kick"},
         Send(prompt, pc), UNCHANGED <<echoesOnTake, clock, restarts, launched, rows>>
  PROVE  IInv'
  <1>1. PICK d \in Daemon : d = daemon
    BY DEF IInv, TypeOK
  <1>2. PICK s \in Session, idle \in BOOLEAN :
          Latest(s) /\ daemon' = [d EXCEPT !.pc = pc, !.watched = s, !.idle = idle]
    BY <1>1 DEF Send
  <1>3. PICK l \in Session : l = launched
    <2>1. s <= launched
      BY <1>2 DEF Latest, Written, IInv, RowsBound
    <2>2. launched \in 0..MaxStarts /\ s \in 1..MaxStarts
      BY DEF IInv, TypeOK, Session
    <2>3. launched \in Session
      BY <2>1, <2>2, ConstantsAssumption DEF Session, ConstantsAssumption
    <2> QED
      BY <2>3
  <1>4. PICK a \in AgentState : a = agents[l]
    BY DEF IInv, TypeOK
  <1>5. agents' = [agents EXCEPT ![l] = [a EXCEPT !.sent = @ \cup {prompt}]]
    BY <1>3, <1>4 DEF Send
  <1>6. PICK b \in AgentState : b = [a EXCEPT !.sent = @ \cup {prompt}]
    BY DEF AgentState
  <1>7. b.size = a.size /\ b.nudges = a.nudges /\ b.compactions = a.compactions
    BY <1>6 DEF AgentState
  <1>8. /\ agents' \in [Session -> AgentState] /\ agents'[l] = b
        /\ \A r \in Session : r # l => agents'[r] = agents[r]
    BY <1>5, <1>6 DEF IInv, TypeOK
  <1>9. daemon' \in Daemon
    BY <1>2 DEF Daemon
  <1>10. /\ daemon'.row = d.row /\ daemon'.known = d.known /\ daemon'.compacting = d.compacting
         /\ daemon'.mayKick = d.mayKick /\ daemon'.grew = d.grew /\ daemon'.pc = pc
    BY <1>2 DEF Daemon
  <1>11. PollBound(daemon')
    BY <1>1, <1>10 DEF PollBound, IInv
  <1>12. \A r \in Session :
           /\ agents'[r].compactions = agents[r].compactions
           /\ agents'[r].nudges = agents[r].nudges /\ agents'[r].size = agents[r].size
    BY <1>4, <1>7, <1>8
  <1> QED
    BY <1>1, <1>8, <1>9, <1>10, <1>11, <1>12, SessionsGoOn

LEMMA CompactPromptKeeps == IInv /\ CompactPrompt => IInv'
  BY SendKeeps DEF CompactPrompt, DaemonAt, MustCompact, Prompts

LEMMA KickKeeps == IInv /\ Kick => IInv'
  BY SendKeeps DEF Kick, DaemonAt, MustKick, Prompts

LEMMA ToKickIs ==
  ASSUME NEW d \in Daemon, d = daemon, NEW c \in BOOLEAN
  PROVE  /\ ToKick(c) \in Daemon
         /\ ToKick(c).pc = "kick" /\ ToKick(c).row = d.row /\ ToKick(c).known = d.known
         /\ ToKick(c).compacting = c /\ ToKick(c).mayKick = d.mayKick /\ ToKick(c).grew = d.grew
  <1>1. ToKick(c) = [d EXCEPT !.pc = "kick", !.compacting = c, !.context = "neither",
                       !.watched = 0, !.shown = {}, !.idle = FALSE]
    BY DEF ToKick
  <1>2. "neither" \in Contexts
    BY DEF Contexts
  <1>3. [d EXCEPT !.pc = "kick", !.compacting = c, !.context = "neither",
                  !.watched = 0, !.shown = {}, !.idle = FALSE] \in Daemon
    BY <1>2 DEF Daemon
  <1> QED
    BY <1>1, <1>3 DEF Daemon

LEMMA LeaveContextKeeps == IInv /\ LeaveContext => IInv'
  <1> SUFFICES ASSUME IInv, LeaveContext PROVE IInv'
    OBVIOUS
  <1>1. PICK d \in Daemon : d = daemon
    BY DEF IInv, TypeOK
  <1>2. PICK c \in BOOLEAN : c = (d.compacting /\ d.context # "under")
    OBVIOUS
  <1>3. daemon' = ToKick(c) /\ d.pc = "compact"
    BY <1>1, <1>2 DEF LeaveContext, DaemonAt
  <1>4. /\ daemon' \in Daemon
        /\ daemon'.pc = "kick" /\ daemon'.row = d.row /\ daemon'.known = d.known
        /\ daemon'.compacting = c /\ daemon'.mayKick = d.mayKick /\ daemon'.grew = d.grew
    BY <1>1, <1>3, ToKickIs
  <1>5. PollBound(daemon')
    BY <1>1, <1>3, <1>4 DEF IInv, PollBound
  <1>6. ASSUME NEW s \in Session
        PROVE  /\ NudgeKept(s, agents[s], rows[s], daemon')
               /\ CompactionKept(s, agents[s], rows[s], daemon')
    <2>1. NudgeKept(s, agents[s], rows[s], d) /\ CompactionKept(s, agents[s], rows[s], d)
      BY <1>1 DEF IInv
    <2>2. d.row # 0
      BY <1>1, <1>3 DEF IInv, PollBound
    <2> QED
      BY <1>2, <1>3, <1>4, <2>1, <2>2 DEF NudgeKept, CompactionKept, PromptedRow
  <1>7. daemon'.row # 0 => rows[daemon'.row].written
    BY <1>1, <1>4 DEF IInv, RowsBound
  <1> QED
    BY <1>4, <1>5, <1>6, <1>7, DaemonOnly DEF LeaveContext

LEMMA CompactLostKeeps == IInv /\ CompactLost => IInv'
  <1> SUFFICES ASSUME IInv, CompactLost PROVE IInv'
    OBVIOUS
  <1>1. PICK d \in Daemon : d = daemon
    BY DEF IInv, TypeOK
  <1>2. PICK c \in BOOLEAN : c = d.compacting
    BY DEF Daemon
  <1>3. daemon' = ToKick(c) /\ d.pc = "compacting"
    BY <1>1, <1>2 DEF CompactLost, DaemonAt
  <1>4. /\ daemon' \in Daemon
        /\ daemon'.pc = "kick" /\ daemon'.row = d.row /\ daemon'.known = d.known
        /\ daemon'.compacting = c /\ daemon'.mayKick = d.mayKick /\ daemon'.grew = d.grew
    BY <1>1, <1>3, ToKickIs
  <1>5. PollBound(daemon')
    BY <1>1, <1>3, <1>4 DEF IInv, PollBound
  <1> QED
    BY <1>1, <1>2, <1>4, <1>5, PollGoesOn DEF CompactLost

LEMMA CompactTakenKeeps == IInv /\ CompactTaken => IInv'
  <1> SUFFICES ASSUME IInv, CompactTaken PROVE IInv'
    OBVIOUS
  <1>1. PICK d \in Daemon : d = daemon
    BY DEF IInv, TypeOK
  <1>2. d.pc = "compacting" /\ d.row # 0 /\ ~d.compacting
    BY <1>1 DEF CompactTaken, DaemonAt, IInv, PollBound
  <1>3. PICK t \in Session : t = d.row
    BY <1>2 DEF Daemon
  <1>4. PICK a \in AgentState : a = agents[t]
    BY DEF IInv, TypeOK
  <1>5. a.compactions = 0
    <2>1. CompactionKept(t, a, rows[t], d)
      BY <1>1, <1>4 DEF IInv
    <2>2. a.compactions \in 0..2
      BY DEF AgentState
    <2> QED
      BY <1>2, <1>3, <2>1, <2>2 DEF CompactionKept
  <1>6. PICK n \in 0..2 : n = 1
    OBVIOUS
  <1>7. agents' = [agents EXCEPT ![t] = [a EXCEPT !.compactions = n]]
    BY <1>1, <1>3, <1>4, <1>5, <1>6 DEF CompactTaken
  <1>8. PICK b \in AgentState : b = [a EXCEPT !.compactions = n]
    BY DEF AgentState
  <1>9. /\ agents' \in [Session -> AgentState] /\ agents'[t] = b
        /\ \A s \in Session : s # t => agents'[s] = agents[s]
    BY <1>7, <1>8 DEF IInv, TypeOK
  <1>10. b.size = a.size /\ b.nudges = a.nudges /\ b.compactions = n
    BY <1>8 DEF AgentState
  <1>11. daemon' = ToKick(TRUE)
    BY DEF CompactTaken
  <1>12. /\ daemon' \in Daemon
         /\ daemon'.pc = "kick" /\ daemon'.row = d.row /\ daemon'.known = d.known
         /\ daemon'.compacting /\ daemon'.mayKick = d.mayKick /\ daemon'.grew = d.grew
    BY <1>1, <1>11, ToKickIs
  <1>13. PollBound(daemon')
    BY <1>2, <1>12 DEF PollBound
  <1>14. TypeOK'
    BY <1>9, <1>12 DEF IInv, TypeOK, CompactTaken, Daemon, AgentState, Contexts
  <1>15. RowsBound'
    BY <1>1, <1>12 DEF IInv, RowsBound, CompactTaken
  <1>16. ASSUME NEW s \in Session
         PROVE  /\ NudgeKept(s, agents'[s], rows[s], daemon')
                /\ CompactionKept(s, agents'[s], rows[s], daemon')
    <2>1. NudgeKept(s, agents[s], rows[s], d) /\ CompactionKept(s, agents[s], rows[s], d)
      BY <1>1 DEF IInv
    <2>2. CASE s # t
      BY <1>2, <1>9, <1>12, <2>1, <2>2 DEF NudgeKept, CompactionKept, PromptedRow
    <2>3. CASE s = t
      <3>1. NudgeKept(s, agents'[s], rows[s], daemon')
        BY <1>4, <1>9, <1>10, <1>12, <2>1, <2>3 DEF NudgeKept, PromptedRow
      <3>2. rows[s].written
        BY <1>1, <1>2, <1>3, <2>3 DEF IInv, RowsBound
      <3> QED
        BY <1>3, <1>6, <1>9, <1>10, <1>12, <2>3, <3>1, <3>2 DEF CompactionKept, PromptedRow
    <2> QED
      BY <2>2, <2>3
  <1> QED
    BY <1>13, <1>14, <1>15, <1>16 DEF IInv, CompactTaken

LEMMA KickTakenKeeps == IInv /\ KickTaken => IInv'
  <1> SUFFICES ASSUME IInv, KickTaken PROVE IInv'
    OBVIOUS
  <1>1. PICK d \in Daemon : d = daemon
    BY DEF IInv, TypeOK
  <1>2. d.pc = "kicking" /\ d.row # 0 /\ d.mayKick
    BY <1>1 DEF KickTaken, DaemonAt, IInv, PollBound
  <1>3. PICK t \in Session : t = d.row
    BY <1>2 DEF Daemon
  <1>4. PICK a \in AgentState : a = agents[t]
    BY DEF IInv, TypeOK
  <1>5. a.nudges = 0
    <2>1. NudgeKept(t, a, rows[t], d)
      BY <1>1, <1>4 DEF IInv
    <2>2. a.nudges \in 0..2
      BY DEF AgentState
    <2> QED
      BY <1>2, <1>3, <2>1, <2>2 DEF NudgeKept
  <1>6. PICK n \in 0..2 : n = IF a.size # d.known THEN 0 ELSE 1
    OBVIOUS
  <1>7. agents' = [agents EXCEPT ![t] = [a EXCEPT !.nudges = n]]
    BY <1>1, <1>3, <1>4, <1>5, <1>6 DEF KickTaken
  <1>8. PICK b \in AgentState : b = [a EXCEPT !.nudges = n]
    BY DEF AgentState
  <1>9. b.size = a.size /\ b.nudges = n /\ b.compactions = a.compactions
    BY <1>8 DEF AgentState
  <1>10. PICK old \in Row : old = rows[t]
    BY DEF IInv, TypeOK
  <1>11. rows' = [rows EXCEPT ![t] = [old EXCEPT !.kicked = TRUE]]
    BY <1>1, <1>3, <1>10 DEF KickTaken
  <1>12. PICK row \in Row : row = [old EXCEPT !.kicked = TRUE]
    BY DEF Row
  <1>13. row.written = old.written /\ row.live = old.live /\ row.kicked
    BY <1>12 DEF Row
  <1>14. /\ rows' \in [Session -> Row] /\ agents' \in [Session -> AgentState]
         /\ rows'[t] = row /\ agents'[t] = b
         /\ \A s \in Session : s # t => rows'[s] = rows[s] /\ agents'[s] = agents[s]
    BY <1>7, <1>8, <1>11, <1>12 DEF IInv, TypeOK
  <1>15. /\ daemon' \in Daemon /\ PollBound(daemon') /\ daemon'.row = 0
         /\ daemon'.known = d.known /\ daemon'.compacting = d.compacting
         /\ \A s \in Session : /\ NudgeKept(s, agents[s], rows[s], daemon')
                               /\ CompactionKept(s, agents[s], rows[s], daemon')
    BY <1>1, PollEnds DEF KickTaken
  <1>16. TypeOK'
    BY <1>14, <1>15 DEF IInv, TypeOK, KickTaken, Daemon, AgentState, Contexts
  <1>17. \A s \in Session : rows'[s].written = rows[s].written /\ rows'[s].live = rows[s].live
    BY <1>10, <1>13, <1>14
  <1>18. RowsBound'
    BY <1>15, <1>17 DEF IInv, RowsBound, KickTaken
  <1>19. ASSUME NEW s \in Session
         PROVE  /\ NudgeKept(s, agents'[s], rows'[s], daemon')
                /\ CompactionKept(s, agents'[s], rows'[s], daemon')
    <2>1. CASE s # t
      BY <1>14, <1>15, <2>1
    <2>2. CASE s = t
      <3>1. rows[s].written
        BY <1>1, <1>2, <1>3, <2>2 DEF IInv, RowsBound
      <3>2. CompactionKept(s, agents'[s], rows'[s], daemon')
        BY <1>4, <1>9, <1>10, <1>13, <1>14, <1>15, <2>2 DEF CompactionKept, PromptedRow
      <3>3. t # 0
        BY <1>2, <1>3
      <3>4. n > 0 => n = 1 /\ a.size = d.known
        BY <1>6
      <3> QED
        BY <1>4, <1>9, <1>10, <1>13, <1>14, <1>15, <2>2, <3>1, <3>2, <3>3, <3>4
        DEF NudgeKept, PromptedRow
    <2> QED
      BY <2>1, <2>2
  <1> QED
    BY <1>15, <1>16, <1>18, <1>19 DEF IInv

-----------------------------------------------------------------------------
(* Launches, restarts, agents and time *)

LEMMA RestartKeeps == IInv /\ Restart => IInv'
  <1> SUFFICES ASSUME IInv, Restart PROVE IInv'
    OBVIOUS
  <1> USE ConstantsAssumption DEF ConstantsAssumption
  <1>1. 0 \in Time /\ "neither" \in Contexts
    BY DEF Time, Contexts
  <1>2. Started \in Daemon
    BY <1>1 DEF Started, Daemon
  <1>3. PollBound(Started) /\ Started.row = 0
    BY DEF Started, PollBound
  <1>4. \A n \in 0..2 : \A a \in AgentState :
          /\ [a EXCEPT !.nudges = n, !.compactions = n] \in AgentState
          /\ [a EXCEPT !.nudges = n, !.compactions = n].nudges = n
          /\ [a EXCEPT !.nudges = n, !.compactions = n].compactions = n
    BY DEF AgentState
  <1>5. /\ agents' \in [Session -> AgentState]
        /\ \A s \in Session : agents'[s].nudges = 0 /\ agents'[s].compactions = 0
    <2>1. PICK n \in 0..2 : n = 0
      OBVIOUS
    <2>2. /\ agents \in [Session -> AgentState]
          /\ agents' = [s \in Session |-> [agents[s] EXCEPT !.nudges = n, !.compactions = n]]
      BY <2>1 DEF IInv, TypeOK, Restart
    <2>3. /\ agents' \in [Session -> AgentState]
          /\ \A s \in Session : agents'[s].nudges = n /\ agents'[s].compactions = n
      BY <1>4, <2>2
    <2> QED
      BY <2>1, <2>3
  <1>6. restarts' \in 0..MaxStarts
    <2>1. /\ launched \in 0..MaxStarts /\ restarts \in 0..MaxStarts
          /\ launched + restarts < MaxStarts /\ restarts' = restarts + 1
      BY DEF IInv, TypeOK, Restart
    <2> QED
      BY <2>1
  <1>7. TypeOK'
    BY <1>2, <1>5, <1>6 DEF IInv, TypeOK, Restart, Daemon, AgentState, Contexts
  <1>8. RowsBound'
    BY <1>3 DEF IInv, RowsBound, Restart
  <1>9. ASSUME NEW s \in Session
        PROVE  /\ NudgeKept(s, agents'[s], rows'[s], daemon')
               /\ CompactionKept(s, agents'[s], rows'[s], daemon')
    BY <1>5 DEF NudgeKept, CompactionKept
  <1>10. PollBound(daemon')
    BY <1>3 DEF Restart
  <1> QED
    BY <1>7, <1>8, <1>9, <1>10 DEF IInv

LEMMA StartAgentKeeps == IInv /\ StartAgent => IInv'
  <1> SUFFICES ASSUME IInv, StartAgent PROVE IInv'
    OBVIOUS
  <1>1. launched \in 0..MaxStarts /\ launched' \in 0..MaxStarts /\ launched < launched'
    BY ConstantsAssumption DEF ConstantsAssumption, IInv, TypeOK, StartAgent
  <1>2. \A a \in AgentState : /\ [a EXCEPT !.busy = FALSE] \in AgentState
                              /\ [a EXCEPT !.busy = FALSE].nudges = a.nudges
                              /\ [a EXCEPT !.busy = FALSE].compactions = a.compactions
                              /\ [a EXCEPT !.busy = FALSE].size = a.size
    BY DEF AgentState
  <1>3. /\ agents' \in [Session -> AgentState]
        /\ \A s \in Session :
             /\ agents'[s].nudges = agents[s].nudges /\ agents'[s].size = agents[s].size
             /\ agents'[s].compactions = agents[s].compactions
    BY <1>2 DEF IInv, TypeOK, StartAgent
  <1>4. TypeOK'
    BY <1>1, <1>3 DEF IInv, TypeOK, StartAgent, Daemon, AgentState, Contexts
  <1>5. \A s \in Session : rows[s].written => s <= launched'
    BY <1>1, ConstantsAssumption DEF ConstantsAssumption, IInv, RowsBound, Session
  <1>6. RowsBound'
    BY <1>5 DEF IInv, RowsBound, StartAgent
  <1> QED
    BY <1>3, <1>4, <1>6 DEF IInv, NudgeKept, CompactionKept, PromptedRow, StartAgent

LEMMA WriteLaunchKeeps == IInv /\ WriteLaunch => IInv'
  <1> SUFFICES ASSUME IInv, WriteLaunch PROVE IInv'
    OBVIOUS
  <1>1. PICK l \in Session : l = launched
    BY ConstantsAssumption DEF ConstantsAssumption, IInv, TypeOK, WriteLaunch, Session
  <1>2. clock \in Time
    BY DEF IInv, TypeOK
  <1>3. PICK new \in Row : new = [written |-> TRUE, live |-> TRUE, started |-> clock,
                                  lastGrowth |-> clock, kicked |-> FALSE]
    BY <1>2 DEF Row
  <1>4. new.written
    BY <1>3
  <1>5. rows' = [r \in Session |-> IF r = l THEN new ELSE [rows[r] EXCEPT !.live = FALSE]]
    BY <1>1, <1>3 DEF WriteLaunch, Launched
  <1>6. \A row \in Row : /\ [row EXCEPT !.live = FALSE] \in Row
                         /\ [row EXCEPT !.live = FALSE].written = row.written
                         /\ [row EXCEPT !.live = FALSE].kicked = row.kicked
                         /\ ~[row EXCEPT !.live = FALSE].live
    BY DEF Row
  <1>7. /\ rows' \in [Session -> Row] /\ rows'[l] = new
        /\ \A r \in Session : r # l => /\ rows'[r].written = rows[r].written
                                       /\ rows'[r].kicked = rows[r].kicked /\ ~rows'[r].live
    BY <1>5, <1>6 DEF IInv, TypeOK
  <1>8. TypeOK'
    BY <1>7 DEF IInv, TypeOK, WriteLaunch, Daemon, AgentState, Contexts
  <1>9. ~rows[l].written
    BY <1>1 DEF WriteLaunch
  <1>10. daemon.row \in Session \cup {0}
    BY DEF IInv, TypeOK, Daemon
  <1>11. RowsBound'
    <2>1. \A s \in Session : rows'[s].live => s = l
      BY <1>7
    <2>2. \A s \in Session : rows'[s].written => s <= launched
      <3>1. l <= launched
        BY <1>1 DEF Session
      <3> QED
        BY <1>7, <3>1 DEF IInv, RowsBound
    <2>3. daemon.row # 0 => rows'[daemon.row].written
      BY <1>4, <1>7, <1>10 DEF IInv, RowsBound
    <2> QED
      BY <1>4, <1>7, <2>1, <2>2, <2>3 DEF RowsBound, WriteLaunch
  <1>12. ASSUME NEW s \in Session
         PROVE  /\ NudgeKept(s, agents[s], rows'[s], daemon)
                /\ CompactionKept(s, agents[s], rows'[s], daemon)
    <2>1. NudgeKept(s, agents[s], rows[s], daemon) /\ CompactionKept(s, agents[s], rows[s], daemon)
      BY DEF IInv
    <2> QED
      BY <1>7, <1>9, <2>1 DEF NudgeKept, CompactionKept, PromptedRow
  <1> QED
    BY <1>8, <1>11, <1>12 DEF IInv, WriteLaunch

LEMMA TickKeeps == IInv /\ Tick => IInv'
  <1> SUFFICES ASSUME IInv, Tick PROVE IInv'
    OBVIOUS
  <1>1. clock' \in Time
    BY ConstantsAssumption DEF ConstantsAssumption, IInv, TypeOK, Tick, Time
  <1>2. TypeOK'
    BY <1>1 DEF IInv, TypeOK, Tick, Daemon, AgentState, Contexts
  <1> QED
    BY <1>2 DEF IInv, RowsBound, Tick

\* What an agent does to itself: it grows, and was not nudged since, or it does not.
LEMMA AgentKeeps ==
  ASSUME IInv, NEW s \in Session, NEW a \in AgentState, NEW shows \in SUBSET Prompts,
         Agent(s, a, shows), a.compactions = agents[s].compactions,
         a.nudges > 0 => a.nudges = agents[s].nudges /\ a.size = agents[s].size
  PROVE  IInv'
  <1>1. PICK d \in Daemon : d = daemon
    BY DEF IInv, TypeOK
  <1>2. /\ agents' \in [Session -> AgentState] /\ agents'[s] = a
        /\ \A r \in Session : r # s => agents'[r] = agents[r]
    BY DEF IInv, TypeOK, Agent
  <1>3. PICK e \in Daemon : e = [d EXCEPT !.shown = @ \cup shows]
    BY DEF Daemon
  <1>4. /\ e.row = d.row /\ e.known = d.known /\ e.compacting = d.compacting
        /\ e.mayKick = d.mayKick /\ e.grew = d.grew /\ e.pc = d.pc /\ e.context = d.context
    BY <1>3 DEF Daemon
  <1>5. daemon' \in {d, e}
    BY <1>1, <1>3 DEF Agent
  <1>6. /\ daemon' \in Daemon
        /\ daemon'.row = d.row /\ daemon'.known = d.known /\ daemon'.compacting = d.compacting
        /\ daemon'.mayKick = d.mayKick /\ daemon'.grew = d.grew /\ daemon'.pc = d.pc
        /\ daemon'.context = d.context
    BY <1>4, <1>5
  <1>7. PollBound(daemon')
    BY <1>1, <1>6 DEF IInv, PollBound
  <1> QED
    BY <1>1, <1>2, <1>6, <1>7, SessionsGoOn DEF Agent

LEMMA GrownIs ==
  ASSUME NEW a \in AgentState
  PROVE  Grown(a) \in AgentState /\ Grown(a).nudges = 0 /\ Grown(a).compactions = a.compactions
  <1>1. PICK n \in 0..2 : n = 0
    OBVIOUS
  <1>2. PICK size \in Nat : size = a.size + 1
    BY DEF AgentState
  <1>3. PICK b \in AgentState : b = [a EXCEPT !.size = size, !.nudges = n]
    BY DEF AgentState
  <1>4. b.nudges = n /\ b.compactions = a.compactions
    BY <1>3 DEF AgentState
  <1> QED
    BY <1>1, <1>2, <1>3, <1>4 DEF Grown

LEMMA TakeKeeps ==
  ASSUME NEW s \in Session
  PROVE  IInv /\ Take(s) => IInv'
  <1> SUFFICES ASSUME IInv, Take(s) PROVE IInv'
    OBVIOUS
  <1>1. PICK a \in AgentState : a = agents[s]
    BY DEF IInv, TypeOK
  <1>2. PICK prompt \in a.sent :
          LET b == [a EXCEPT !.sent = @ \ {prompt}, !.busy = s = launched] IN
          \/ Agent(s, Grown(b), {prompt})
          \/ Agent(s, [b EXCEPT !.took = TRUE], {})
    BY <1>1 DEF Take
  <1>3. prompt \in Prompts
    BY DEF AgentState
  <1>4. PICK busy \in BOOLEAN : busy = (s = launched)
    OBVIOUS
  <1>5. PICK b \in AgentState : b = [a EXCEPT !.sent = @ \ {prompt}, !.busy = busy]
    BY DEF AgentState
  <1>6. b.nudges = a.nudges /\ b.compactions = a.compactions /\ b.size = a.size
    BY <1>5 DEF AgentState
  <1>7. Agent(s, Grown(b), {prompt}) \/ Agent(s, [b EXCEPT !.took = TRUE], {})
    BY <1>2, <1>4, <1>5
  <1>8. CASE Agent(s, Grown(b), {prompt})
    <2>1. PICK c \in AgentState : c = Grown(b) /\ c.nudges = 0 /\ c.compactions = b.compactions
      BY GrownIs
    <2> QED
      BY <1>1, <1>3, <1>6, <1>8, <2>1, AgentKeeps
  <1>9. CASE Agent(s, [b EXCEPT !.took = TRUE], {})
    <2>1. PICK c \in AgentState : c = [b EXCEPT !.took = TRUE]
      BY DEF AgentState
    <2>2. c.nudges = b.nudges /\ c.compactions = b.compactions /\ c.size = b.size
      BY <2>1 DEF AgentState
    <2> QED
      BY <1>1, <1>6, <1>9, <2>1, <2>2, AgentKeeps
  <1> QED
    BY <1>7, <1>8, <1>9

LEMMA WriteKeeps ==
  ASSUME NEW s \in Session
  PROVE  IInv /\ Write(s) => IInv'
  <1> SUFFICES ASSUME IInv, Write(s) PROVE IInv'
    OBVIOUS
  <1>1. PICK a \in AgentState : a = agents[s]
    BY DEF IInv, TypeOK
  <1>2. PICK c \in Contexts :
          Agent(s, [Grown(a) EXCEPT !.context = c, !.took = FALSE],
                IF a.took THEN {"continue"} ELSE {})
    BY <1>1 DEF Write
  <1>3. PICK g \in AgentState : g = Grown(a) /\ g.nudges = 0 /\ g.compactions = a.compactions
    BY GrownIs
  <1>4. PICK b \in AgentState : b = [g EXCEPT !.context = c, !.took = FALSE]
    BY DEF AgentState
  <1>5. b.nudges = g.nudges /\ b.compactions = g.compactions
    BY <1>4 DEF AgentState
  <1>6. PICK shows \in SUBSET Prompts : shows = IF a.took THEN {"continue"} ELSE {}
    BY DEF Prompts
  <1>7. Agent(s, b, shows)
    BY <1>2, <1>3, <1>4, <1>6
  <1> QED
    BY <1>1, <1>3, <1>5, <1>7, AgentKeeps

LEMMA TurnKeeps ==
  ASSUME NEW s \in Session
  PROVE  IInv /\ Turn(s) => IInv'
  <1> SUFFICES ASSUME IInv, Turn(s) PROVE IInv'
    OBVIOUS
  <1>1. PICK a \in AgentState : a = agents[s]
    BY DEF IInv, TypeOK
  <1>2. PICK b \in AgentState : b = [a EXCEPT !.busy = ~@]
    BY DEF AgentState
  <1>3. b.nudges = a.nudges /\ b.compactions = a.compactions /\ b.size = a.size
    BY <1>2 DEF AgentState
  <1>4. Agent(s, b, {})
    BY <1>1, <1>2 DEF Turn
  <1> QED
    BY <1>1, <1>3, <1>4, AgentKeeps

-----------------------------------------------------------------------------
(* The theorems *)

LEMMA Inductive == IInv /\ [Next]_vars => IInv'
  <1> SUFFICES ASSUME IInv, [Next]_vars PROVE IInv'
    OBVIOUS
  <1>1. CASE DaemonStep
    <2>1. CASE LeaveAlone \/ KickLost
      BY <2>1, EndsKeep DEF LeaveAlone, KickLost
    <2> QED
      BY <1>1, <2>1, StampKeeps, SnapshotKeeps, ReadKeeps, WriteReadingKeeps, CompactPromptKeeps,
         LeaveContextKeeps, CompactTakenKeeps, CompactLostKeeps, KickKeeps, KickTakenKeeps
      DEF DaemonStep
  <1>2. CASE Restart \/ StartAgent \/ WriteLaunch \/ Tick
    BY <1>2, RestartKeeps, StartAgentKeeps, WriteLaunchKeeps, TickKeeps
  <1>3. CASE \E s \in Session : Take(s) \/ Write(s) \/ Turn(s)
    BY <1>3, TakeKeeps, WriteKeeps, TurnKeeps
  <1>4. CASE UNCHANGED vars
    <2>1. TypeOK'
      BY <1>4 DEF IInv, TypeOK, vars, Daemon, AgentState, Contexts
    <2> QED
      BY <1>4, <2>1 DEF IInv, RowsBound, vars
  <1> QED
    BY <1>1, <1>2, <1>3, <1>4 DEF Next

LEMMA Invariance == Spec => []IInv
  <1>1. Init => IInv
    BY InitHolds
  <1>2. IInv /\ [Next]_vars => IInv'
    BY Inductive
  <1> QED
    BY <1>1, <1>2, PTL DEF Spec

\* Type correctness: every row, every agent and what the daemon holds are what
\* they are declared as, for any number of launches and restarts.
THEOREM TypeCorrect == Spec => []TypeOK
  <1>1. IInv => TypeOK
    BY DEF IInv
  <1> QED
    BY <1>1, Invariance, PTL

\* A stalled session is nudged once until it grows, and a full commentator asked
\* once to compact until it was read under the limit, in one daemon's life,
\* whatever is launched under the name while the daemon polls.
THEOREM OnceIsEnough == Spec => []PromptedOnce
  <1>1. IInv => PromptedOnce
    <2> SUFFICES ASSUME IInv, NEW s \in Session
                 PROVE  agents[s].nudges <= 1 /\ agents[s].compactions <= 1
      BY DEF PromptedOnce
    <2>1. NudgeKept(s, agents[s], rows[s], daemon) /\ CompactionKept(s, agents[s], rows[s], daemon)
      BY DEF IInv
    <2>2. agents[s].nudges \in 0..2 /\ agents[s].compactions \in 0..2
      BY DEF IInv, TypeOK, AgentState
    <2> QED
      BY <2>1, <2>2 DEF NudgeKept, CompactionKept
  <1> QED
    BY <1>1, Invariance, PTL

-----------------------------------------------------------------------------
(* What a launch may cost *)

\* Every row can be read back: Session::new's assertion holds of the whole table.
RowsReadBack == \A s \in Session : Materializes(rows[s])

\* A daemon that ended had read a row launched after its poll had begun.
LaunchedMeanwhile ==
  DaemonAt("dead") => daemon.row \in Session /\ rows[daemon.row].started > daemon.at

RaceInv == IInv /\ RowsReadBack /\ LaunchedMeanwhile

\* Rows keep when they were started, and what is written in them can be read back.
LEMMA ReadBackKeeps ==
  ASSUME IInv, RowsReadBack, [Next]_vars
  PROVE  /\ RowsReadBack'
         /\ \A s \in Session : rows[s].written => rows'[s].started = rows[s].started
  <1>1. \A s \in Session : rows[s] \in Row /\ Materializes(rows[s])
    BY DEF IInv, TypeOK, RowsReadBack
  <1>2. rows \in [Session -> Row]
    BY DEF IInv, TypeOK
  <1>3. CASE WriteReading
    <2>1. CASE UNCHANGED rows
      BY <1>1, <2>1 DEF RowsReadBack, Materializes
    <2>2. CASE /\ Materializes(Reading(rows[daemon.row], daemon.grew, daemon.at))
               /\ rows' = [rows EXCEPT ![daemon.row] =
                             Reading(rows[daemon.row], daemon.grew, daemon.at)]
      <3>1. PICK d \in Daemon : d = daemon
        BY DEF IInv, TypeOK
      <3>2. PICK t \in Session : t = d.row
        BY <1>3, <3>1 DEF Daemon, IInv, WriteReading, DaemonAt, PollBound
      <3>3. PICK old \in Row : old = rows[t]
        BY <1>2
      <3>4. PICK g \in BOOLEAN, at \in Time : g = d.grew /\ at = d.at
        BY DEF Daemon
      <3>5. PICK new \in Row : new = Reading(old, g, at)
        BY ReadingOf
      <3>6. new.started = old.started
        <4>1. [old EXCEPT !.lastGrowth = at, !.kicked = FALSE].started = old.started
          BY DEF Row
        <4> QED
          BY <3>5, <4>1 DEF Reading
      <3>7. rows' = [rows EXCEPT ![t] = new] /\ Materializes(new)
        BY <2>2, <3>1, <3>2, <3>3, <3>4, <3>5
      <3> QED
        BY <1>1, <1>2, <3>3, <3>6, <3>7 DEF RowsReadBack, Materializes
    <2> QED
      BY <1>3, <2>1, <2>2 DEF WriteReading
  <1>4. CASE KickTaken
    <2>1. PICK d \in Daemon : d = daemon
      BY DEF IInv, TypeOK
    <2>2. PICK t \in Session : t = d.row
      BY <1>4, <2>1 DEF Daemon, IInv, KickTaken, DaemonAt, PollBound
    <2>3. PICK old \in Row : old = rows[t]
      BY <1>2
    <2>4. PICK new \in Row : new = [old EXCEPT !.kicked = TRUE]
      BY DEF Row
    <2>5. new.started = old.started /\ new.lastGrowth = old.lastGrowth
      BY <2>4 DEF Row
    <2>6. rows' = [rows EXCEPT ![t] = new]
      BY <1>4, <2>1, <2>2, <2>3, <2>4 DEF KickTaken
    <2> QED
      BY <1>1, <1>2, <2>3, <2>5, <2>6 DEF RowsReadBack, Materializes
  <1>5. CASE WriteLaunch
    <2>1. PICK now \in Time : now = clock
      BY DEF IInv, TypeOK
    <2>2. PICK new \in Row : new = [written |-> TRUE, live |-> TRUE, started |-> now,
                                    lastGrowth |-> now, kicked |-> FALSE]
      BY DEF Row
    <2>3. new.started = now /\ new.lastGrowth = now
      BY <2>2
    <2>4. now >= now
      BY ConstantsAssumption DEF ConstantsAssumption, Time
    <2>5. \A row \in Row : /\ [row EXCEPT !.live = FALSE].started = row.started
                           /\ [row EXCEPT !.live = FALSE].lastGrowth = row.lastGrowth
      BY DEF Row
    <2>6. /\ rows' = [r \in Session |-> IF r = launched THEN new ELSE [rows[r] EXCEPT !.live = FALSE]]
          /\ ~rows[launched].written
      BY <1>5, <2>1, <2>2 DEF WriteLaunch, Launched
    <2>7. \A s \in Session : \/ s = launched /\ rows'[s] = new
                             \/ /\ s # launched
                                /\ rows'[s].started = rows[s].started
                                /\ rows'[s].lastGrowth = rows[s].lastGrowth
      BY <1>1, <2>5, <2>6
    <2> QED
      BY <1>1, <2>3, <2>4, <2>6, <2>7 DEF RowsReadBack, Materializes
  <1>6. CASE UNCHANGED rows
    BY <1>1, <1>6 DEF RowsReadBack, Materializes
  <1>7. WriteReading \/ KickTaken \/ WriteLaunch \/ UNCHANGED rows
    BY DEF Next, DaemonStep, vars, Stamp, Snapshot, Read, CompactPrompt, LeaveContext,
      CompactTaken, CompactLost, Kick, LeaveAlone, KickLost, Restart, StartAgent, Tick, Take,
      Write, Turn, Agent
  <1> QED
    BY <1>3, <1>4, <1>5, <1>6, <1>7

\* A daemon ends with a reading that was rolled back, or had ended.
LEMMA EndsWithAReading ==
  ASSUME IInv, [Next]_vars, DaemonAt("dead")'
  PROVE  /\ daemon'.row = daemon.row /\ daemon'.at = daemon.at
         /\ \/ DaemonAt("dead")
            \/ /\ DaemonAt("write reading") /\ UNCHANGED rows
               /\ ~Materializes(Reading(rows[daemon.row], daemon.grew, daemon.at))
  <1>1. PICK d \in Daemon : d = daemon
    BY DEF IInv, TypeOK
  <1>2. CASE WriteReading
    <2>1. /\ [d EXCEPT !.pc = "compact", !.grew = FALSE].pc = "compact"
          /\ [d EXCEPT !.pc = "dead"].row = d.row /\ [d EXCEPT !.pc = "dead"].at = d.at
      BY DEF Daemon
    <2> QED
      BY <1>1, <1>2, <2>1 DEF WriteReading, DaemonAt
  <1>3. ASSUME daemon' = EndPoll
        PROVE  FALSE
    <2>1. PICK k \in Nat, c \in BOOLEAN : k = d.known /\ c = d.compacting
      BY DEF Daemon
    <2>2. daemon' = [pc |-> "stamp", known |-> k, compacting |-> c, at |-> 0,
                     row |-> 0, lastGrowth |-> 0, mayKick |-> FALSE, grew |-> FALSE,
                     context |-> "neither", watched |-> 0, shown |-> {}, idle |-> FALSE]
      BY <1>1, <1>3, <2>1 DEF EndPoll, Started
    <2> QED
      BY <2>2 DEF DaemonAt
  <1>4. CASE DaemonStep /\ ~WriteReading
    <2>1. CASE Stamp
      <3>1. daemon' = [d EXCEPT !.pc = "snapshot", !.at = clock]
        BY <1>1, <2>1 DEF Stamp
      <3> QED
        BY <3>1 DEF Daemon, DaemonAt
    <2>2. CASE Snapshot /\ daemon' # EndPoll
      <3>1. PICK s \in Session :
              daemon' = [d EXCEPT !.pc = "read", !.row = s, !.lastGrowth = rows[s].lastGrowth,
                           !.mayKick = ~rows[s].kicked]
        BY <1>1, <2>2 DEF Snapshot
      <3> QED
        BY <3>1 DEF Daemon, DaemonAt
    <2>3. CASE Read /\ daemon' # EndPoll
      <3>1. PICK s : daemon' = [d EXCEPT !.pc = "write reading", !.known = agents[s].size,
                                  !.grew = agents[s].size # d.known,
                                  !.context = agents[s].context]
        BY <1>1, <2>3 DEF Read
      <3> QED
        BY <3>1 DEF Daemon, DaemonAt
    <2>4. CASE CompactPrompt \/ Kick
      <3>1. PICK pc \in {"compacting", "kicking"} : \E s, idle :
              daemon' = [d EXCEPT !.pc = pc, !.watched = s, !.idle = idle]
        BY <1>1, <2>4 DEF CompactPrompt, Kick, Send
      <3> QED
        BY <3>1 DEF Daemon, DaemonAt
    <2>5. CASE LeaveContext \/ CompactTaken \/ CompactLost
      <3>1. PICK c : daemon' = [d EXCEPT !.pc = "kick", !.compacting = c, !.context = "neither",
                                  !.watched = 0, !.shown = {}, !.idle = FALSE]
        BY <1>1, <2>5 DEF LeaveContext, CompactTaken, CompactLost, ToKick
      <3> QED
        BY <3>1 DEF Daemon, DaemonAt
    <2>6. CASE daemon' = EndPoll
      BY <1>3, <2>6
    <2> QED
      BY <1>4, <2>1, <2>2, <2>3, <2>4, <2>5, <2>6
      DEF DaemonStep, LeaveAlone, KickTaken, KickLost
  <1>5. CASE \E s \in Session : Take(s) \/ Write(s) \/ Turn(s)
    <2>1. PICK shows : daemon' \in {d, [d EXCEPT !.shown = @ \cup shows]}
      BY <1>1, <1>5 DEF Take, Write, Turn, Agent
    <2>2. LET e == [d EXCEPT !.shown = @ \cup shows] IN
          e.pc = d.pc /\ e.row = d.row /\ e.at = d.at
      BY DEF Daemon
    <2> QED
      BY <1>1, <2>1, <2>2 DEF DaemonAt
  <1>6. CASE UNCHANGED daemon
    BY <1>6 DEF DaemonAt
  <1>7. CASE StartAgent \/ WriteLaunch \/ Tick \/ UNCHANGED vars
    BY <1>6, <1>7 DEF StartAgent, WriteLaunch, Tick, vars
  <1>8. CASE Restart
    BY <1>8 DEF Restart, Started, DaemonAt
  <1> QED
    BY <1>2, <1>4, <1>5, <1>7, <1>8 DEF Next

LEMMA RaceInductive == RaceInv /\ [Next]_vars => RaceInv'
  <1> SUFFICES ASSUME RaceInv, [Next]_vars PROVE RaceInv'
    OBVIOUS
  <1>1. IInv /\ IInv' /\ RowsReadBack'
    BY Inductive, ReadBackKeeps DEF RaceInv
  <1>2. ASSUME DaemonAt("dead")'
        PROVE  daemon'.row \in Session /\ rows'[daemon'.row].started > daemon'.at
    <2>1. daemon'.row = daemon.row /\ daemon'.at = daemon.at
      BY <1>1, <1>2, EndsWithAReading
    <2>2. CASE DaemonAt("dead")
      <3>1. daemon.row \in Session /\ rows[daemon.row].started > daemon.at
        BY <2>2 DEF RaceInv, LaunchedMeanwhile
      <3>2. rows[daemon.row].written
        BY <1>1, <3>1 DEF IInv, RowsBound, Session
      <3> QED
        BY <2>1, <3>1, <3>2, ReadBackKeeps DEF RaceInv
    <2>3. CASE /\ DaemonAt("write reading") /\ UNCHANGED rows
               /\ ~Materializes(Reading(rows[daemon.row], daemon.grew, daemon.at))
      <3>1. PICK d \in Daemon : d = daemon
        BY <1>1 DEF IInv, TypeOK
      <3>2. PICK t \in Session : t = d.row
        BY <1>1, <2>3, <3>1 DEF Daemon, IInv, DaemonAt, PollBound
      <3>3. PICK old \in Row : old = rows[t]
        BY <1>1 DEF IInv, TypeOK
      <3>4. PICK g \in BOOLEAN, at \in Time : g = d.grew /\ at = d.at
        BY DEF Daemon
      <3>5. old.lastGrowth >= old.started
        BY <3>3 DEF RaceInv, RowsReadBack, Materializes
      <3>6. /\ [old EXCEPT !.lastGrowth = at, !.kicked = FALSE].lastGrowth = at
            /\ [old EXCEPT !.lastGrowth = at, !.kicked = FALSE].started = old.started
        BY DEF Row
      <3>7. ~Materializes(Reading(old, g, at))
        BY <2>3, <3>1, <3>2, <3>3, <3>4
      <3>8. ~(at >= old.started)
        BY <3>5, <3>6, <3>7 DEF Materializes, Reading
      <3>9. old.started > at
        <4>1. old.started \in Nat /\ at \in Nat
          BY ConstantsAssumption DEF ConstantsAssumption, Time, Row
        <4> QED
          BY <3>8, <4>1
      <3> QED
        BY <2>1, <2>3, <3>1, <3>2, <3>3, <3>4, <3>9
    <2> QED
      BY <1>1, <1>2, <2>2, <2>3, EndsWithAReading
  <1> QED
    BY <1>1, <1>2 DEF RaceInv, LaunchedMeanwhile

LEMMA RaceInvariance == Spec => []RaceInv
  <1>1. Init => RaceInv
    <2> SUFFICES ASSUME Init PROVE RaceInv
      OBVIOUS
    <2>1. IInv
      BY InitHolds
    <2>2. RowsReadBack
      BY DEF Init, NoRow, RowsReadBack, Materializes
    <2>3. ~DaemonAt("dead")
      BY DEF Init, Started, DaemonAt
    <2> QED
      BY <2>1, <2>2, <2>3 DEF RaceInv, LaunchedMeanwhile
  <1> QED
    BY <1>1, RaceInductive, PTL DEF Spec

\* No reading leaves a row that Session::new would refuse: record_reading rolls
\* back the ones that would, so a daemon that is started again can read them all.
THEOREM RowsStayReadable == Spec => []RowsReadBack
  <1>1. RaceInv => RowsReadBack
    BY DEF RaceInv
  <1> QED
    BY <1>1, RaceInvariance, PTL

\* The launch that ended a daemon came after its poll's timestamp was taken:
\* nothing an agent writes, no restart and no other launch makes a reading the
\* row cannot hold.
THEOREM OnlyALaunchEndsTheDaemon == Spec => []LaunchedMeanwhile
  <1>1. RaceInv => LaunchedMeanwhile
    BY DEF RaceInv
  <1> QED
    BY <1>1, RaceInvariance, PTL
=============================================================================
