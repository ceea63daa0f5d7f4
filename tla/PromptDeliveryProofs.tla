------------------------ MODULE PromptDeliveryProofs ------------------------
(***************************************************************************)
(* For any commands and sessions: a prompt said to be taken did arrive,    *)
(* and at a session that does not run Codex none arrives twice and a wait  *)
(* prints no answer to another prompt.                                     *)
(***************************************************************************)
EXTENDS Waiting, TLAPS

-----------------------------------------------------------------------------
(* The inductive invariant *)

\* Between two sends, or before the first.
Sending(p) == commands[p].pc \in {"status", "offset", "send"}

Holding(p) == Sending(p) \/ At(p, "watch")

\* The prompt lock keeps every other sender out.
LockHeld(p) == Holding(p) => lock = p

\* A text arrives no more often than it was sent.
Counted(p) ==
  /\ At(p, "lock") => copies[p] = 0
  /\ Sending(p) => copies[p] < commands[p].attempt
  /\ At(p, "watch") => copies[p] <= commands[p].attempt /\ commands[p].attempt > 0

\* What did not arrive is nowhere in the sessions, nor in the transcript past
\* the offset.
NowhereYet(p) ==
  copies[p] = 0 => Through(p) /\ (commands[p].pc \in {"send", "watch"} => ~Shows(p))

\* A session found idle is still so until the prompt it was looked at for
\* arrives.
IdleUntilSent(p) ==
  commands[p].idle =>
    /\ commands[p].pc \in {"offset", "send"} => ~agents[commands[p].to].busy
    /\ At(p, "watch") /\ agents[commands[p].to].busy => copies[p] > 0

\* A text that arrived is shown by an agent that shows what it takes, so it is
\* not sent again.
ShownOnceSent(p) ==
  /\ copies[p] <= 1
  /\ Sending(p) => copies[p] = 0
  /\ At(p, "watch") /\ copies[p] = 1 /\ EchoesOnTake(commands[p].to) => Shows(p)

Keeps(p) ==
  /\ LockHeld(p) /\ Counted(p) /\ NowhereYet(p) /\ IdleUntilSent(p)
  /\ At(p, "done") => copies[p] > 0
  /\ commands[p].to \notin Codex => ShownOnceSent(p)

IInv == TypeOK /\ \A p \in Commands : Keeps(p)

USE ConstantsAssumption DEF PROMPT_ATTEMPTS

-----------------------------------------------------------------------------
(* Types *)

LEMMA CommandFields ==
  ASSUME TypeOK, NEW p \in Commands
  PROVE  /\ commands[p] \in Command /\ commands[p].to \in Sessions
         /\ commands[p].attempt \in 0..3 /\ commands[p].offset \in Nat
         /\ copies[p] \in 0..3
         /\ commands[p].offset <= Len(agents[commands[p].to].lines)
  BY DEF TypeOK, Command

LEMMA AgentFields ==
  ASSUME TypeOK, NEW s \in Sessions
  PROVE  /\ agents[s] \in AgentState /\ agents[s].busy \in BOOLEAN
         /\ agents[s].turn \in Commands \cup {NoText}
         /\ agents[s].queue \in Seq(Commands) /\ agents[s].lines \in Seq(Commands)
  BY DEF TypeOK, AgentState

LEMMA Appended ==
  ASSUME NEW queue \in Seq(Commands), NEW p \in Commands, NEW q, q # p,
         q \notin ToSet(queue)
  PROVE  q \notin ToSet(Append(queue, p))
  <1>1. \A i \in 1..Len(queue) : queue[i] # q
    BY DEF ToSet
  <1>2. ASSUME NEW i \in 1..(Len(queue) + 1)
        PROVE  Append(queue, p)[i] # q
    BY <1>1
  <1>3. DOMAIN Append(queue, p) = 1..(Len(queue) + 1)
    OBVIOUS
  <1> QED
    BY <1>2, <1>3 DEF ToSet

\* What an agent is after a text arrived.
LEMMA ReceivesFields ==
  ASSUME NEW a \in AgentState, NEW s \in Sessions, NEW p \in Commands
  PROVE  /\ Receives(s, a, p) \in AgentState /\ Receives(s, a, p).busy = TRUE
         /\ Receives(s, a, p).turn \in {a.turn, p}
         /\ Receives(s, a, p).queue \in {a.queue, Append(a.queue, p)}
         /\ Receives(s, a, p).lines \in {a.lines, Append(a.lines, p)}
  <1> DEFINE turn == IF a.busy \/ EchoesOnTake(s) THEN a.turn ELSE p
             queue == IF a.busy THEN Append(a.queue, p) ELSE a.queue
             lines == IF (IF a.busy THEN EchoesQueued(s) ELSE EchoesOnTake(s))
                      THEN Append(a.lines, p) ELSE a.lines
  <1>1. /\ a.turn \in Commands \cup {NoText} /\ a.queue \in Seq(Commands)
        /\ a.lines \in Seq(Commands)
    BY DEF AgentState
  <1>2. turn \in Commands \cup {NoText} /\ queue \in Seq(Commands) /\ lines \in Seq(Commands)
    BY <1>1
  <1>3. turn \in {a.turn, p} /\ queue \in {a.queue, Append(a.queue, p)}
        /\ lines \in {a.lines, Append(a.lines, p)}
    OBVIOUS
  <1>4. Receives(s, a, p) =
          [a EXCEPT !.busy = TRUE, !.turn = turn, !.queue = queue, !.lines = lines]
    BY DEF Receives
  <1> HIDE DEF turn, queue, lines
  <1> QED
    BY <1>2, <1>3, <1>4 DEF AgentState

LEMMA InitHolds == Init => IInv
  <1> SUFFICES ASSUME Init PROVE IInv
    OBVIOUS
  <1>1. PICK s \in Sessions : commands = [p \in Commands |-> Standing("ready", s)]
    BY DEF Init
  <1>2. \A p \in Commands : commands[p] = Standing("ready", s) /\ copies[p] = 0
    BY <1>1 DEF Init
  <1>3. Standing("ready", s) \in Command
    BY DEF Standing, Command
  <1>4. ASSUME NEW t \in Sessions
        PROVE  /\ agents[t] \in AgentState /\ Len(agents[t].lines) = 0
               /\ agents[t].turn = NoText /\ agents[t].queue = <<>>
    <2>1. PICK busy \in BOOLEAN :
            agents[t] = [busy |-> busy, turn |-> NoText, queue |-> <<>>, lines |-> <<>>]
      BY DEF Init
    <2> QED
      BY <2>1 DEF AgentState
  <1>5. agents \in [Sessions -> AgentState]
    BY <1>4 DEF Init
  <1>6. \A p \in Commands : commands[p].offset <= Len(agents[commands[p].to].lines)
    BY <1>2, <1>4 DEF Standing
  <1>7. TypeOK
    BY <1>1, <1>3, <1>5, <1>6 DEF Init, TypeOK
  <1>8. ASSUME NEW p \in Commands, NEW t \in Sessions
        PROVE  agents[t].turn # p /\ p \notin ToSet(agents[t].queue)
    BY <1>4 DEF ToSet
  <1>9. \A p \in Commands : Through(p)
    BY <1>8 DEF Through
  <1> QED
    BY <1>2, <1>7, <1>9 DEF IInv, Keeps, LockHeld, Counted, NowhereYet, IdleUntilSent,
      ShownOnceSent, Holding, Sending, At, Standing

-----------------------------------------------------------------------------
(* Steps of a command *)

\* A step of one command that touches no session leaves the others what they
\* were.
LEMMA Bystander ==
  ASSUME IInv, NEW p \in Commands, Keeps(p)', TypeOK', UNCHANGED agents,
         \A q \in Commands \ {p} :
           /\ commands'[q] = commands[q] /\ copies'[q] = copies[q]
           /\ lock' = lock \/ ~Holding(q)
  PROVE  IInv'
  <1>1. ASSUME NEW q \in Commands \ {p}
        PROVE  Keeps(q)'
    BY DEF IInv, Keeps, LockHeld, Counted, NowhereYet, IdleUntilSent, ShownOnceSent,
      Holding, Sending, At, Through, Shows
  <1> QED
    BY <1>1 DEF IInv

\* Only one command holds the lock.
LEMMA OnlyHolder ==
  ASSUME IInv, NEW p \in Commands, Holding(p), NEW q \in Commands \ {p}
  PROVE  ~Holding(q)
  BY DEF IInv, Keeps, LockHeld

LEMMA BeginKeeps ==
  ASSUME IInv, NEW p \in Commands, NEW s \in Sessions, Begin(p, s)
  PROVE  IInv'
  <1>1. commands' = [commands EXCEPT ![p] = Standing("lock", s)]
        /\ copies' = [copies EXCEPT ![p] = 0] /\ UNCHANGED <<lock, agents>>
    BY DEF Begin
  <1>2. commands'[p] = Standing("lock", s) /\ copies'[p] = 0
    BY <1>1 DEF IInv, TypeOK
  <1>3. Standing("lock", s) \in Command
    BY DEF Standing, Command
  <1>4. 0 <= Len(agents[s].lines)
    BY AgentFields DEF IInv
  <1>5. TypeOK'
    BY <1>1, <1>3, <1>4 DEF IInv, TypeOK, Standing
  <1>6. Through(p)'
    BY <1>1 DEF Begin, Through
  <1>7. Keeps(p)'
    BY <1>2, <1>6 DEF Keeps, LockHeld, Counted, NowhereYet, IdleUntilSent, ShownOnceSent,
      Holding, Sending, At, Standing
  <1> QED
    BY <1>1, <1>5, <1>7, Bystander DEF IInv, TypeOK

LEMMA TakeLockKeeps ==
  ASSUME IInv, NEW p \in Commands, TakeLock(p)
  PROVE  IInv'
  <1>1. /\ At(p, "lock") /\ lock = NoText /\ lock' = p
        /\ commands' = [commands EXCEPT ![p].pc = "status", ![p].attempt = 1]
        /\ UNCHANGED <<agents, copies>>
    BY DEF TakeLock
  <1>2. commands[p] \in Command /\ copies[p] = 0
    BY <1>1, CommandFields DEF IInv, Keeps, Counted
  <1>3. commands'[p] = [commands[p] EXCEPT !.pc = "status", !.attempt = 1]
    BY <1>1 DEF IInv, TypeOK
  <1>4. /\ commands'[p] \in Command /\ commands'[p].pc = "status"
        /\ commands'[p].attempt = 1 /\ commands'[p].to = commands[p].to
        /\ commands'[p].offset = commands[p].offset
    <2>1. 1 \in 0..PROMPT_ATTEMPTS
      OBVIOUS
    <2> QED
      BY <1>2, <1>3, <2>1 DEF Command
  <1>5. TypeOK'
    BY <1>1, <1>4 DEF IInv, TypeOK
  <1>6. Keeps(p)'
    BY <1>1, <1>2, <1>4 DEF IInv, Keeps, LockHeld, Counted, NowhereYet, IdleUntilSent,
      ShownOnceSent, Holding, Sending, At, Through
  <1>7. \A q \in Commands : ~Holding(q)
    BY <1>1 DEF IInv, Keeps, LockHeld
  <1> QED
    BY <1>1, <1>5, <1>6, <1>7, Bystander DEF IInv, TypeOK

LEMMA ReadStatusKeeps ==
  ASSUME IInv, NEW p \in Commands, ReadStatus(p)
  PROVE  IInv'
  <1>1. PICK idle \in CalledIdle(commands[p].to) :
          commands' = [commands EXCEPT ![p].pc = "offset", ![p].idle = idle]
    BY DEF ReadStatus
  <1>2. At(p, "status") /\ UNCHANGED <<lock, agents, copies>>
    BY DEF ReadStatus
  <1>3. commands[p] \in Command /\ agents[commands[p].to].busy \in BOOLEAN
    BY CommandFields, AgentFields DEF IInv
  <1>4. idle \in BOOLEAN /\ (idle => ~agents[commands[p].to].busy)
    BY <1>3 DEF CalledIdle
  <1>5. commands'[p] = [commands[p] EXCEPT !.pc = "offset", !.idle = idle]
    BY <1>1 DEF IInv, TypeOK
  <1>6. /\ commands'[p] \in Command /\ commands'[p].pc = "offset" /\ commands'[p].idle = idle
        /\ commands'[p].attempt = commands[p].attempt /\ commands'[p].to = commands[p].to
        /\ commands'[p].offset = commands[p].offset
    BY <1>3, <1>4, <1>5 DEF Command
  <1>7. TypeOK'
    BY <1>1, <1>2, <1>6 DEF IInv, TypeOK
  <1>8. Keeps(p)'
    BY <1>2, <1>4, <1>6 DEF IInv, Keeps, LockHeld, Counted, NowhereYet, IdleUntilSent,
      ShownOnceSent, Holding, Sending, At, Through
  <1> QED
    BY <1>1, <1>2, <1>7, <1>8, Bystander DEF IInv, TypeOK

LEMMA ReadOffsetKeeps ==
  ASSUME IInv, NEW p \in Commands, ReadOffset(p)
  PROVE  IInv'
  <1> DEFINE end == Len(agents[commands[p].to].lines)
  <1>1. /\ At(p, "offset") /\ UNCHANGED <<lock, agents, copies>>
        /\ commands' = [commands EXCEPT ![p].pc = "send", ![p].offset = end]
    BY DEF ReadOffset
  <1>2. commands[p] \in Command /\ end \in Nat
    BY CommandFields, AgentFields DEF IInv
  <1>3. commands'[p] = [commands[p] EXCEPT !.pc = "send", !.offset = end]
    BY <1>1 DEF IInv, TypeOK
  <1>4. /\ commands'[p] \in Command /\ commands'[p].pc = "send" /\ commands'[p].offset = end
        /\ commands'[p].attempt = commands[p].attempt /\ commands'[p].to = commands[p].to
        /\ commands'[p].idle = commands[p].idle
    BY <1>2, <1>3 DEF Command
  <1>5. TypeOK'
    BY <1>1, <1>2, <1>4 DEF IInv, TypeOK
  <1>6. ~Shows(p)'
    BY <1>1, <1>2, <1>4 DEF Shows
  <1>7. Keeps(p)'
    BY <1>1, <1>4, <1>6 DEF IInv, Keeps, LockHeld, Counted, NowhereYet, IdleUntilSent,
      ShownOnceSent, Holding, Sending, At, Through
  <1> QED
    BY <1>1, <1>5, <1>7, Bystander DEF IInv, TypeOK

\* A send that is lost, or arrives at a session that is idle or busy.
LEMMA SendKeeps ==
  ASSUME IInv, NEW p \in Commands, Send(p)
  PROVE  IInv'
  <1> DEFINE s == commands[p].to
  <1>1. At(p, "send") /\ lock' = lock /\ commands' = [commands EXCEPT ![p].pc = "watch"]
    BY DEF Send
  <1>2. /\ commands[p] \in Command /\ s \in Sessions /\ agents[s] \in AgentState
        /\ agents[s].queue \in Seq(Commands) /\ agents[s].lines \in Seq(Commands)
        /\ copies[p] \in 0..3 /\ commands[p].attempt \in 0..3
        /\ commands[p].offset \in Nat /\ commands[p].offset <= Len(agents[s].lines)
    BY CommandFields, AgentFields DEF IInv
  <1>3. commands'[p] = [commands[p] EXCEPT !.pc = "watch"]
    BY <1>1 DEF IInv, TypeOK
  <1>4. /\ commands'[p] \in Command /\ commands'[p].pc = "watch"
        /\ commands'[p].attempt = commands[p].attempt /\ commands'[p].to = s
        /\ commands'[p].offset = commands[p].offset /\ commands'[p].idle = commands[p].idle
    BY <1>2, <1>3 DEF Command
  <1>5. copies[p] < commands[p].attempt /\ Holding(p)
    BY <1>1 DEF IInv, Keeps, Counted, Sending, Holding, At
  <1>6. \A q \in Commands \ {p} : commands'[q] = commands[q]
    BY <1>1 DEF IInv, TypeOK
  <1>7. CASE UNCHANGED <<agents, copies>>
    <2>1. TypeOK'
      BY <1>1, <1>4, <1>7 DEF IInv, TypeOK
    <2>2. Keeps(p)'
      BY <1>1, <1>2, <1>4, <1>5, <1>7 DEF IInv, Keeps, LockHeld, Counted, NowhereYet,
        IdleUntilSent, ShownOnceSent, Holding, Sending, At, Through, Shows
    <2> QED
      BY <1>1, <1>6, <1>7, <2>1, <2>2, Bystander
  <1>8. CASE /\ agents' = [agents EXCEPT ![s] = Receives(s, @, p)]
             /\ copies' = [copies EXCEPT ![p] = @ + 1]
    <2> DEFINE a == agents[s]
               b == Receives(s, a, p)
    <2>1. /\ b \in AgentState /\ b.busy = TRUE
          /\ b.turn \in {a.turn, p}
          /\ b.queue \in {a.queue, Append(a.queue, p)}
          /\ b.lines \in {a.lines, Append(a.lines, p)}
      BY <1>2, ReceivesFields
    <2>2. a.busy = FALSE /\ EchoesOnTake(s) => b.lines = Append(a.lines, p)
      BY <1>2 DEF Receives, AgentState
    <2>3. a.busy /\ EchoesQueued(s) => b.lines = Append(a.lines, p)
      BY <1>2 DEF Receives, AgentState
    <2>4. agents'[s] = b /\ \A t \in Sessions \ {s} : agents'[t] = agents[t]
      BY <1>2, <1>8 DEF IInv, TypeOK
    <2>5. copies'[p] = copies[p] + 1 /\ \A q \in Commands \ {p} : copies'[q] = copies[q]
      BY <1>8 DEF IInv, TypeOK
    <2>6. copies'[p] \in 1..3 /\ copies'[p] <= commands[p].attempt
      BY <1>2, <1>5, <2>5
    <2>7. Len(b.lines) >= Len(a.lines) /\ Len(b.lines) \in Nat
      BY <1>2, <2>1
    <2>8. \A q \in Commands : commands'[q].offset <= Len(agents'[commands'[q].to].lines)
      <3>1. ASSUME NEW q \in Commands
            PROVE  /\ commands'[q].to = commands[q].to
                   /\ commands'[q].offset = commands[q].offset
        BY <1>4, <1>6
      <3>2. ASSUME NEW q \in Commands
            PROVE  /\ commands[q].to \in Sessions /\ commands[q].offset \in Nat
                   /\ commands[q].offset <= Len(agents[commands[q].to].lines)
        BY CommandFields DEF IInv
      <3>3. Len(a.lines) \in Nat
        BY <1>2
      <3> QED
        BY <2>4, <2>7, <3>1, <3>2, <3>3
    <2>9. TypeOK'
      <3>1. agents' \in [Sessions -> AgentState]
        BY <1>2, <1>8, <2>1 DEF IInv, TypeOK
      <3>2. copies' \in [Commands -> 0..PROMPT_ATTEMPTS]
        BY <1>8, <2>6 DEF IInv, TypeOK
      <3>3. commands' \in [Commands -> Command]
        BY <1>1, <1>4 DEF IInv, TypeOK
      <3> QED
        BY <1>1, <2>8, <3>1, <3>2, <3>3 DEF IInv, TypeOK
    <2>10. ASSUME NEW q \in Commands \ {p}
           PROVE  Keeps(q)'
      <3>1. ~Holding(q) /\ commands'[q] = commands[q] /\ copies'[q] = copies[q]
        BY <1>5, <1>6, <2>5, OnlyHolder
      <3>2. Through(q) => Through(q)'
        <4>1. q \notin ToSet(a.queue) => q \notin ToSet(b.queue)
          BY <1>2, <2>1, Appended
        <4>2. a.turn # q => b.turn # q
          BY <2>1
        <4> QED
          BY <1>2, <2>4, <4>1, <4>2 DEF Through
      <3> QED
        BY <3>1, <3>2 DEF IInv, Keeps, LockHeld, Counted, NowhereYet, IdleUntilSent,
          ShownOnceSent, Holding, Sending, At
    <2>11. s \notin Codex /\ EchoesOnTake(s) => Shows(p)'
      <3> SUFFICES ASSUME s \notin Codex, EchoesOnTake(s)
                   PROVE  Shows(p)'
        OBVIOUS
      <3>1. b.lines = Append(a.lines, p)
        BY <1>2, <2>2, <2>3 DEF EchoesOnTake, EchoesQueued, AgentState
      <3>2. Len(b.lines) = Len(a.lines) + 1 /\ b.lines[Len(b.lines)] = p
        <4>1. a.lines \in Seq(Commands)
          BY <1>2 DEF AgentState
        <4>2. \A l \in Seq(Commands) :
                Len(Append(l, p)) = Len(l) + 1 /\ Append(l, p)[Len(l) + 1] = p
          OBVIOUS
        <4> QED
          BY <3>1, <4>1, <4>2
      <3>3. Len(b.lines) \in (commands'[p].offset + 1)..Len(b.lines)
        BY <1>2, <1>4, <3>2
      <3> QED
        BY <1>4, <2>4, <3>2, <3>3 DEF Shows
    <2>12. s \notin Codex => copies'[p] = 1
      BY <1>1, <2>5 DEF IInv, Keeps, ShownOnceSent, Sending, At
    <2>13. LockHeld(p)'
      BY <1>1, <1>5 DEF IInv, Keeps, LockHeld, Holding, Sending, At
    <2>14. Keeps(p)'
      BY <1>2, <1>4, <1>5, <2>6, <2>11, <2>12, <2>13 DEF Keeps, Counted, NowhereYet,
        IdleUntilSent, ShownOnceSent, Sending, At
    <2> QED
      BY <2>9, <2>10, <2>14 DEF IInv
  <1> QED
    BY <1>7, <1>8 DEF Send

\* A command that ends, however it does.
LEMMA EndKeeps ==
  ASSUME IInv, NEW p \in Commands, NEW pc \in {"done", "failed"},
         commands' = [commands EXCEPT ![p] = Standing(pc, @.to)],
         UNCHANGED <<agents, copies>>,
         lock' \in {lock, NoText}, \A q \in Commands \ {p} : lock' = lock \/ ~Holding(q),
         pc = "done" => copies[p] > 0
  PROVE  IInv'
  <1>1. commands[p] \in Command /\ commands[p].to \in Sessions
        /\ Len(agents[commands[p].to].lines) \in Nat
    BY CommandFields, AgentFields DEF IInv
  <1>2. commands'[p] = Standing(pc, commands[p].to)
    BY DEF IInv, TypeOK
  <1>3. Standing(pc, commands[p].to) \in Command
    BY <1>1 DEF Standing, Command
  <1>4. TypeOK'
    BY <1>1, <1>2, <1>3 DEF IInv, TypeOK, Standing
  <1>5. Through(p) => Through(p)'
    BY DEF Through
  <1>6. Keeps(p)'
    BY <1>2, <1>5 DEF IInv, Keeps, LockHeld, Counted, NowhereYet, IdleUntilSent,
      ShownOnceSent, Holding, Sending, At, Standing
  <1>7. \A q \in Commands \ {p} : commands'[q] = commands[q]
    BY DEF IInv, TypeOK
  <1> QED
    BY <1>4, <1>6, <1>7, Bystander

LEMMA TakenKeeps ==
  ASSUME IInv, NEW p \in Commands, Taken(p)
  PROVE  IInv'
  <1>1. Holding(p) /\ copies[p] \in 0..3
    BY CommandFields DEF Taken, Holding, IInv
  <1>2. copies[p] > 0
    <2>1. CASE Shows(p)
      BY <1>1, <2>1 DEF IInv, Keeps, NowhereYet, Taken, At
    <2>2. CASE WentBusy(p)
      BY <2>2 DEF IInv, Keeps, IdleUntilSent, WentBusy, Taken
    <2> QED
      BY <2>1, <2>2 DEF Taken
  <1>3. \A q \in Commands \ {p} : ~Holding(q)
    BY <1>1, OnlyHolder
  <1> QED
    BY <1>2, <1>3, EndKeeps DEF Taken, Leaves

LEMMA GiveUpKeeps ==
  ASSUME IInv, NEW p \in Commands, GiveUp(p)
  PROVE  IInv'
  <1>1. Holding(p)
    BY DEF GiveUp, Unseen, Holding
  <1>2. \A q \in Commands \ {p} : ~Holding(q)
    BY <1>1, OnlyHolder
  <1> QED
    BY <1>2, EndKeeps DEF GiveUp, Leaves

LEMMA KillKeeps ==
  ASSUME IInv, NEW p \in Commands, Kill(p)
  PROVE  IInv'
  <1>1. ASSUME NEW q \in Commands \ {p}
        PROVE  lock' = lock \/ ~Holding(q)
    BY DEF Kill, IInv, Keeps, LockHeld
  <1> QED
    BY <1>1, EndKeeps DEF Kill

LEMMA ResendKeeps ==
  ASSUME IInv, NEW p \in Commands, Resend(p)
  PROVE  IInv'
  <1> DEFINE attempt == commands[p].attempt + 1
  <1>1. /\ At(p, "watch") /\ ~Shows(p) /\ commands[p].attempt < Attempts(commands[p].to)
        /\ commands' = [commands EXCEPT ![p].pc = "status", ![p].attempt = attempt]
        /\ UNCHANGED <<lock, agents, copies>>
    BY DEF Resend, Unseen
  <1>2. /\ commands[p] \in Command /\ commands[p].attempt \in 0..3 /\ copies[p] \in 0..3
        /\ copies[p] <= commands[p].attempt /\ commands[p].attempt > 0
    BY <1>1, CommandFields DEF IInv, Keeps, Counted
  <1>3. EchoesOnTake(commands[p].to) /\ attempt \in 0..PROMPT_ATTEMPTS
    BY <1>1, <1>2 DEF Attempts
  <1>4. commands'[p] = [commands[p] EXCEPT !.pc = "status", !.attempt = attempt]
    BY <1>1 DEF IInv, TypeOK
  <1>5. /\ commands'[p] \in Command /\ commands'[p].pc = "status"
        /\ commands'[p].attempt = attempt /\ commands'[p].to = commands[p].to
        /\ commands'[p].offset = commands[p].offset
    BY <1>2, <1>3, <1>4 DEF Command
  <1>6. TypeOK'
    BY <1>1, <1>5 DEF IInv, TypeOK
  <1>7. commands[p].to \notin Codex => copies[p] = 0
    BY <1>1, <1>2, <1>3 DEF IInv, Keeps, ShownOnceSent
  <1>8. copies'[p] < commands'[p].attempt
    BY <1>1, <1>2, <1>5
  <1>9. Through(p) => Through(p)'
    BY <1>1 DEF Through
  <1>10. Keeps(p)'
    BY <1>1, <1>5, <1>7, <1>8, <1>9 DEF IInv, Keeps, LockHeld, Counted, NowhereYet,
      IdleUntilSent, ShownOnceSent, Holding, Sending, At
  <1> QED
    BY <1>1, <1>6, <1>10, Bystander DEF IInv, TypeOK

-----------------------------------------------------------------------------
(* Steps of an agent *)

\* An agent shows and takes only what arrived, and no turn of its own makes it
\* busy.
LEMMA AgentKeeps ==
  ASSUME IInv, NEW s \in Sessions, NEW b \in AgentState,
         agents' = [agents EXCEPT ![s] = b], UNCHANGED <<lock, commands, copies>>,
         b.busy => agents[s].busy,
         \/ b.lines = agents[s].lines
         \/ \E t \in Commands : b.lines = Append(agents[s].lines, t) /\ copies[t] # 0,
         \A p \in Commands : copies[p] = 0 => b.turn # p /\ p \notin ToSet(b.queue)
  PROVE  IInv'
  <1> DEFINE a == agents[s]
  <1>1. a.lines \in Seq(Commands) /\ b.lines \in Seq(Commands)
    BY AgentFields DEF IInv, AgentState
  <1>2. agents'[s] = b /\ \A t \in Sessions \ {s} : agents'[t] = agents[t]
    BY DEF IInv, TypeOK
  <1>3. /\ Len(b.lines) \in Nat /\ Len(a.lines) \in Nat /\ Len(b.lines) >= Len(a.lines)
        /\ \A i \in 1..Len(a.lines) : b.lines[i] = a.lines[i]
        /\ \A i \in 1..Len(b.lines) : i > Len(a.lines) => copies[b.lines[i]] # 0
    BY <1>1
  <1>4. TypeOK'
    <2>1. ASSUME NEW p \in Commands
          PROVE  commands[p].offset <= Len(agents'[commands[p].to].lines)
      BY <1>2, <1>3, CommandFields DEF IInv
    <2>2. agents' \in [Sessions -> AgentState]
      BY DEF IInv, TypeOK
    <2> QED
      BY <2>1, <2>2 DEF IInv, TypeOK
  <1>5. ASSUME NEW p \in Commands
        PROVE  Keeps(p)'
    <2>1. commands[p].to \in Sessions /\ commands[p].offset \in Nat
      BY CommandFields DEF IInv
    <2>2. Shows(p) => Shows(p)'
      BY <1>2, <1>3, <2>1 DEF Shows
    <2>3. copies[p] = 0 /\ ~Shows(p) => ~Shows(p)'
      <3> SUFFICES ASSUME copies[p] = 0, Shows(p)' PROVE Shows(p)
        OBVIOUS
      <3>1. CASE commands[p].to = s
        <4>1. PICK i \in (commands[p].offset + 1)..Len(b.lines) : b.lines[i] = p
          BY <1>2, <3>1 DEF Shows
        <4>2. i <= Len(a.lines) /\ a.lines[i] = p
          BY <1>3, <2>1, <4>1
        <4> QED
          BY <1>3, <2>1, <3>1, <4>1, <4>2 DEF Shows
      <3>2. CASE commands[p].to # s
        BY <1>2, <2>1, <3>2 DEF Shows
      <3> QED
        BY <3>1, <3>2
    <2>4. copies[p] = 0 /\ Through(p) => Through(p)'
      BY <1>2 DEF Through
    <2>5. agents'[commands[p].to].busy => agents[commands[p].to].busy
      BY <1>2, <2>1
    <2> QED
      BY <2>2, <2>3, <2>4, <2>5 DEF IInv, Keeps, LockHeld, Counted, NowhereYet,
        IdleUntilSent, ShownOnceSent, Holding, Sending, At
  <1> QED
    BY <1>4, <1>5 DEF IInv

\* What an agent holds did arrive.
LEMMA HeldArrived ==
  ASSUME IInv, NEW s \in Sessions, NEW p \in Commands,
         agents[s].turn = p \/ p \in ToSet(agents[s].queue)
  PROVE  copies[p] # 0
  BY DEF IInv, Keeps, NowhereYet, Through

LEMMA ReplyKeeps ==
  ASSUME IInv, NEW s \in Sessions, Reply(s)
  PROVE  IInv'
  <1> DEFINE a == agents[s]
             lines == Append(a.lines, a.turn)
             b == [a EXCEPT !.turn = NoText, !.lines = lines]
  <1>1. a \in AgentState /\ a.turn \in Commands /\ a.lines \in Seq(Commands)
    BY AgentFields DEF IInv, Reply
  <1>2. /\ b \in AgentState /\ b.busy = a.busy /\ b.turn = NoText /\ b.queue = a.queue
        /\ b.lines = lines
    <2>1. lines \in Seq(Commands)
      BY <1>1
    <2> HIDE DEF lines
    <2> QED
      BY <1>1, <2>1 DEF AgentState
  <1>3. agents' = [agents EXCEPT ![s] = b] /\ UNCHANGED <<lock, commands, copies>>
    BY DEF Reply, Agent
  <1>4. copies[a.turn] # 0
    BY <1>1, HeldArrived
  <1>5. \A p \in Commands : copies[p] = 0 => b.turn # p /\ p \notin ToSet(b.queue)
    BY <1>2, HeldArrived
  <1> HIDE DEF b
  <1> QED
    BY <1>1, <1>2, <1>3, <1>4, <1>5, AgentKeeps

LEMMA EndTurnKeeps ==
  ASSUME IInv, NEW s \in Sessions, EndTurn(s)
  PROVE  IInv'
  <1> DEFINE a == agents[s]
  <1>1. /\ a \in AgentState /\ a.busy = TRUE /\ a.turn = NoText
        /\ a.queue \in Seq(Commands) /\ a.lines \in Seq(Commands)
    BY AgentFields DEF IInv, EndTurn
  <1>2. CASE a.queue = <<>> /\ Agent(s, [a EXCEPT !.busy = FALSE])
    <2> DEFINE b == [a EXCEPT !.busy = FALSE]
    <2>1. /\ b \in AgentState /\ b.busy = FALSE /\ b.turn = a.turn /\ b.queue = a.queue
          /\ b.lines = a.lines
      BY <1>1 DEF AgentState
    <2>2. \A p \in Commands : copies[p] = 0 => b.turn # p /\ p \notin ToSet(b.queue)
      BY <2>1, HeldArrived
    <2>3. agents' = [agents EXCEPT ![s] = b] /\ UNCHANGED <<lock, commands, copies>>
      BY <1>2 DEF Agent
    <2> HIDE DEF b
    <2> QED
      BY <2>1, <2>2, <2>3, AgentKeeps
  <1>3. CASE /\ a.queue # <<>>
             /\ Agent(s, [a EXCEPT
                  !.queue = Tail(@),
                  !.turn = IF EchoesOnTake(s) THEN NoText ELSE Head(a.queue),
                  !.lines = IF EchoesOnTake(s) THEN Append(@, Head(a.queue)) ELSE @])
    <2> DEFINE head == Head(a.queue)
               turn == IF EchoesOnTake(s) THEN NoText ELSE head
               lines == IF EchoesOnTake(s) THEN Append(a.lines, head) ELSE a.lines
               b == [a EXCEPT !.queue = Tail(a.queue), !.turn = turn, !.lines = lines]
    <2>1. head \in Commands /\ head \in ToSet(a.queue) /\ Tail(a.queue) \in Seq(Commands)
      BY <1>1, <1>3 DEF ToSet
    <2>2. turn \in Commands \cup {NoText} /\ lines \in Seq(Commands)
      BY <1>1, <2>1
    <2>3. copies[head] # 0
      BY <2>1, HeldArrived
    <2>4. \A q \in ToSet(Tail(a.queue)) : q \in ToSet(a.queue)
      <3>1. ASSUME NEW i \in 1..(Len(a.queue) - 1)
            PROVE  Tail(a.queue)[i] = a.queue[i + 1] /\ i + 1 \in 1..Len(a.queue)
        BY <1>1, <1>3
      <3>2. DOMAIN Tail(a.queue) = 1..(Len(a.queue) - 1) /\ DOMAIN a.queue = 1..Len(a.queue)
        BY <1>1, <1>3
      <3> QED
        BY <3>1, <3>2 DEF ToSet
    <2>5. agents' = [agents EXCEPT ![s] = b] /\ UNCHANGED <<lock, commands, copies>>
      BY <1>3 DEF Agent
    <2>6. turn \in {NoText, head} /\ lines \in {a.lines, Append(a.lines, head)}
      OBVIOUS
    <2> HIDE DEF turn, lines
    <2>7. /\ b \in AgentState /\ b.busy = a.busy /\ b.turn = turn /\ b.lines = lines
          /\ b.queue = Tail(a.queue)
      BY <1>1, <2>1, <2>2 DEF AgentState
    <2>8. ASSUME NEW p \in Commands, copies[p] = 0
          PROVE  b.turn # p /\ p \notin ToSet(b.queue)
      BY <2>3, <2>4, <2>6, <2>7, <2>8, HeldArrived
    <2> HIDE DEF b
    <2> QED
      BY <1>1, <2>1, <2>3, <2>5, <2>6, <2>7, <2>8, AgentKeeps
  <1> QED
    BY <1>2, <1>3 DEF EndTurn

-----------------------------------------------------------------------------
LEMMA Inductive == IInv /\ [Next]_vars => IInv'
  <1> SUFFICES ASSUME IInv, [Next]_vars PROVE IInv'
    OBVIOUS
  <1>1. ASSUME NEW p \in Commands, NEW s \in Sessions, Begin(p, s)
        PROVE  IInv'
    BY <1>1, BeginKeeps
  <1>2. ASSUME NEW p \in Commands, TakeLock(p) \/ Kill(p)
        PROVE  IInv'
    BY <1>2, TakeLockKeeps, KillKeeps
  <1>3. ASSUME NEW p \in Commands, Progress(p)
        PROVE  IInv'
    BY <1>3, ReadStatusKeeps, ReadOffsetKeeps, SendKeeps, TakenKeeps, ResendKeeps,
      GiveUpKeeps DEF Progress
  <1>4. ASSUME NEW s \in Sessions, Reply(s) \/ EndTurn(s)
        PROVE  IInv'
    BY <1>4, ReplyKeeps, EndTurnKeeps
  <1>5. CASE UNCHANGED vars
    BY <1>5 DEF vars, IInv, TypeOK, Keeps, LockHeld, Counted, NowhereYet, IdleUntilSent,
      ShownOnceSent, Holding, Sending, At, Through, Shows
  <1> QED
    BY <1>1, <1>2, <1>3, <1>4, <1>5 DEF Next

-----------------------------------------------------------------------------
\* Types, and that no command reads past the end of its session's transcript.
THEOREM TypeCorrect == Spec => []TypeOK
  <1>1. IInv => TypeOK
    BY DEF IInv
  <1> QED
    BY InitHolds, Inductive, <1>1, PTL DEF Spec

\* However many commands prompt however many sessions, and whichever sends are
\* lost and commands killed: a prompt cmd_prompt calls taken did arrive.
THEOREM TakenMeansArrived == Spec => []SeenMeansTaken
  <1>1. IInv => SeenMeansTaken
    BY DEF IInv, Keeps, SeenMeansTaken
  <1> QED
    BY InitHolds, Inductive, <1>1, PTL DEF Spec

\* A session that does not run Codex, whose queue shows nothing, gets a prompt
\* once, however often cmd_prompt sent it and whatever other sessions run.
THEOREM ArrivesOnceOutsideCodex ==
  Spec => [](\A p \in Commands : commands[p].to \notin Codex => copies[p] <= 1)
  <1>1. IInv => \A p \in Commands : commands[p].to \notin Codex => copies[p] <= 1
    BY DEF IInv, Keeps, ShownOnceSent
  <1> QED
    BY InitHolds, Inductive, <1>1, PTL DEF Spec

\* Where no session runs Codex, no prompt arrives twice.
THEOREM ArrivesOnce ==
  ASSUME Codex = {}
  PROVE  Spec => []TakenOnce
  <1>1. (\A p \in Commands : commands[p].to \notin Codex => copies[p] <= 1) => TakenOnce
    BY DEF TakenOnce
  <1> QED
    BY <1>1, ArrivesOnceOutsideCodex, PTL

\* One command at a time is between the start of its send and the end of its
\* watch, and a lock that is held is held by it: the lock is left behind neither
\* by a prompt that was given up nor by a process that was killed, so no command
\* waits for one that has ended (lock_exclusive).
LockIsItsHolders == \A p \in Commands : lock = p <=> Holding(p)

LEMMA HolderStays == IInv /\ LockIsItsHolders /\ [Next]_vars => LockIsItsHolders'
  <1> SUFFICES ASSUME IInv, LockIsItsHolders, [Next]_vars, NEW q \in Commands
               PROVE  lock' = q <=> Holding(q)'
    BY DEF LockIsItsHolders
  <1>1. /\ lock = q <=> Holding(q)
        /\ commands \in [Commands -> Command] /\ NoText \notin Commands
    BY DEF LockIsItsHolders, IInv, TypeOK
  <1>2. ASSUME NEW p \in Commands, p # q, commands' = [commands EXCEPT ![p] = commands'[p]],
               lock' = lock \/ (lock # q /\ lock' # q)
        PROVE  lock' = q <=> Holding(q)'
    <2>1. commands'[q] = commands[q]
      BY <1>1, <1>2
    <2> QED
      BY <1>1, <1>2, <2>1 DEF Holding, Sending, At
  <1>3. ASSUME NEW p \in Commands, TakeLock(p) \/ Progress(p) \/ Kill(p)
                 \/ \E s \in Sessions : Begin(p, s)
        PROVE  lock' = q <=> Holding(q)'
    <2>1. CASE p # q
      <3>1. commands' = [commands EXCEPT ![p] = commands'[p]]
        BY <1>1, <1>3 DEF TakeLock, Progress, ReadStatus, ReadOffset, Send, Taken, Resend, GiveUp,
          Leaves, Kill, Begin
      <3>2. lock' = lock \/ (lock # q /\ lock' # q)
        <4>1. Taken(p) \/ GiveUp(p) => lock = p
          BY DEF Taken, GiveUp, Unseen, IInv, Keeps, LockHeld, Holding
        <4> QED
          BY <1>1, <1>3, <2>1, <4>1 DEF TakeLock, Progress, ReadStatus, ReadOffset, Send, Taken,
            Resend, GiveUp, Leaves, Kill, Begin
      <3> QED
        BY <1>2, <2>1, <3>1, <3>2
    <2>2. CASE p = q
      <3>1. PICK c \in Command : c = commands[q]
        BY <1>1
      <3>2. CASE TakeLock(q)
        <4>1. commands'[q] = [c EXCEPT !.pc = "status", !.attempt = 1]
          BY <1>1, <3>1, <3>2 DEF TakeLock
        <4>2. commands'[q].pc = "status"
          BY <4>1 DEF Command
        <4> QED
          BY <3>2, <4>2 DEF TakeLock, Holding, Sending, At
      <3>3. CASE ReadStatus(q) \/ ReadOffset(q) \/ Send(q) \/ Resend(q)
        <4>1. PICK pc \in {"status", "offset", "send", "watch"} : \E x :
                \/ commands'[q] = [c EXCEPT !.pc = pc]
                \/ commands'[q] = [c EXCEPT !.pc = pc, !.idle = x]
                \/ commands'[q] = [c EXCEPT !.pc = pc, !.offset = x]
                \/ commands'[q] = [c EXCEPT !.pc = pc, !.attempt = x]
          BY <1>1, <3>1, <3>3 DEF ReadStatus, ReadOffset, Send, Resend
        <4>2. commands'[q].pc = pc
          BY <4>1 DEF Command
        <4>3. Holding(q) /\ lock' = lock
          BY <3>3 DEF ReadStatus, ReadOffset, Send, Resend, Unseen, Holding, Sending, At
        <4> QED
          BY <1>1, <4>2, <4>3 DEF Holding, Sending, At
      <3>4. CASE Taken(q) \/ GiveUp(q) \/ Kill(q) \/ \E s \in Sessions : Begin(q, s)
        <4>1. PICK pc \in {"done", "failed", "lock"} : \E s : commands'[q] = Standing(pc, s)
          BY <1>1, <3>4 DEF Taken, GiveUp, Leaves, Kill, Begin
        <4>2. ~Holding(q)'
          BY <4>1 DEF Standing, Holding, Sending, At
        <4>3. lock' # q
          BY <1>1, <3>4 DEF Taken, GiveUp, Leaves, Kill, Begin, Ended, Holding, Sending, At
        <4> QED
          BY <4>2, <4>3
      <3> QED
        BY <1>3, <2>2, <3>2, <3>3, <3>4 DEF Progress
    <2> QED
      BY <2>1, <2>2
  <1>4. CASE UNCHANGED <<lock, commands>>
    BY <1>1, <1>4 DEF Holding, Sending, At
  <1> QED
    BY <1>3, <1>4 DEF Next, Reply, EndTurn, Agent, vars

\* Whatever is killed, lost or given up: the lock that cmd_prompt takes is held by
\* the command that is sending and watching, and by nobody when none is.
THEOREM LockIsNeverLeft == Spec => []LockIsItsHolders
  <1>1. Init => LockIsItsHolders
    BY DEF Init, LockIsItsHolders, Holding, Sending, At, Standing
  <1> QED
    BY <1>1, InitHolds, Inductive, HolderStays, PTL DEF Spec

-----------------------------------------------------------------------------
(* The waits *)

\* An agent that is idle has nothing to take.
QueuesWork == \A s \in Sessions : agents[s].queue # <<>> => agents[s].busy

\* The text waits behind the turn the session is at.
Coming(p) == p \in ToSet(agents[commands[p].to].queue)

Watching(p) == At(p, "watch") \/ Waits(p)

Told(w) == w.owed \/ w.said

\* A wait follows its own prompt: it has yet to come, or its turn has begun; and
\* once that is over its last word is there or to come.
Follows(p) ==
  Watching(p) /\ ~waits[p].late /\ commands[p].to \notin Codex =>
    /\ waits[p].begun \/ Coming(p) \/ (At(p, "watch") /\ copies[p] = 0)
    /\ Told(waits[p]) => waits[p].begun
    /\ waits[p].begun /\ ~agents[commands[p].to].busy => Told(waits[p])
    /\ waits[p].pc = "wait" /\ ~waits[p].shown => Told(waits[p])
    /\ waits[p].pc = "settle" => Told(waits[p])

Own(p) == (Waits(p) => At(p, "done")) /\ Follows(p)

WaitInv ==
  /\ IInv /\ waits \in [Waiters -> Wait] /\ QueuesWork
  /\ \A p \in Waiters : Own(p)

USE WaitersAssumption

\* Nothing but the wait knows of it: a step of a wait is no step of the prompt's,
\* any other step is one.
LEMMA StepsOfPrompts == WaitNext => [Next]_vars
  <1> SUFFICES ASSUME WaitNext PROVE [Next]_vars
    OBVIOUS
  <1>1. ASSUME NEW p \in Commands, Prompts(p)
        PROVE  Progress(p)
    BY <1>1 DEF Prompts, PromptTaken, WaitSend, Progress
  <1>2. ASSUME NEW p \in Waiters, WaitProgress(p) \/ LastWord(p) \/ Notice(p) \/ KillWait(p)
        PROVE  UNCHANGED vars
    BY <1>2 DEF WaitProgress, SeenBusy, GraceOver, TurnOver, TimedOut, Settle, To, Prints,
      LastWord, Notice, KillWait
  <1> QED
    BY <1>1, <1>2 DEF WaitNext, WaitEndTurn, Next

\* A command's step, of another waiter or of none: nothing is seen of it but the
\* sends.
LEMMA OthersStand ==
  ASSUME NEW p \in Waiters, Own(p), waits'[p] = waits[p],
         commands'[p] = commands[p], copies'[p] = copies[p],
         agents'[commands[p].to].busy = agents[commands[p].to].busy,
         agents'[commands[p].to].queue = agents[commands[p].to].queue
  PROVE  Own(p)'
  BY DEF Own, Follows, Waits, Watching, At, Coming, Told

\* What the end of a turn leaves of busy and queue.
LEMMA EndTurnLeaves ==
  ASSUME IInv, NEW s \in Sessions, EndTurn(s)
  PROVE  /\ agents[s].busy /\ agents[s].queue \in Seq(Commands)
         /\ \A t \in Sessions \ {s} : agents'[t] = agents[t]
         /\ UNCHANGED <<lock, commands, copies>>
         /\ agents[s].queue = <<>> => ~agents'[s].busy /\ agents'[s].queue = <<>>
         /\ agents[s].queue # <<>> =>
              agents'[s].busy /\ agents'[s].queue = Tail(agents[s].queue)
  <1> DEFINE a == agents[s]
  <1>1. a \in AgentState /\ a.busy = TRUE /\ a.queue \in Seq(Commands) /\ a.lines \in Seq(Commands)
    BY AgentFields DEF IInv, EndTurn
  <1>2. PICK b : Agent(s, b)
    BY DEF EndTurn
  <1>3. agents' = [agents EXCEPT ![s] = b] /\ UNCHANGED <<lock, commands, copies>>
    BY <1>2 DEF Agent
  <1>4. \A t \in Sessions \ {s} : agents'[t] = agents[t]
    BY <1>3 DEF IInv, TypeOK
  <1>5. CASE a.queue = <<>> /\ Agent(s, [a EXCEPT !.busy = FALSE])
    <2>1. agents'[s] = [a EXCEPT !.busy = FALSE]
      BY <1>5 DEF Agent, IInv, TypeOK
    <2>2. agents'[s].busy = FALSE /\ agents'[s].queue = a.queue
      BY <1>1, <2>1 DEF AgentState
    <2> QED
      BY <1>1, <1>3, <1>4, <1>5, <2>2
  <1>6. CASE /\ a.queue # <<>>
             /\ Agent(s, [a EXCEPT
                  !.queue = Tail(@),
                  !.turn = IF EchoesOnTake(s) THEN NoText ELSE Head(a.queue),
                  !.lines = IF EchoesOnTake(s) THEN Append(@, Head(a.queue)) ELSE @])
    <2> DEFINE turn == IF EchoesOnTake(s) THEN NoText ELSE Head(a.queue)
               lines == IF EchoesOnTake(s) THEN Append(a.lines, Head(a.queue)) ELSE a.lines
    <2>1. agents'[s] = [a EXCEPT !.queue = Tail(a.queue), !.turn = turn, !.lines = lines]
      BY <1>6 DEF Agent, IInv, TypeOK
    <2> HIDE DEF turn, lines
    <2>2. agents'[s].busy = a.busy /\ agents'[s].queue = Tail(a.queue)
      BY <1>1, <2>1 DEF AgentState
    <2> QED
      BY <1>1, <1>3, <1>4, <1>6, <2>2
  <1> QED
    BY <1>5, <1>6 DEF EndTurn

LEMMA ReplyLeaves ==
  ASSUME IInv, NEW s \in Sessions, Reply(s)
  PROVE  /\ \A t \in Sessions : /\ agents'[t].busy = agents[t].busy
                                /\ agents'[t].queue = agents[t].queue
         /\ UNCHANGED <<lock, commands, copies>>
  <1> DEFINE lines == Append(agents[s].lines, agents[s].turn)
  <1>1. agents' = [agents EXCEPT ![s] = [agents[s] EXCEPT !.turn = NoText, !.lines = lines]]
        /\ UNCHANGED <<lock, commands, copies>>
    BY DEF Reply, Agent
  <1> HIDE DEF lines
  <1>2. \A t \in Sessions : agents[t] \in AgentState
    BY AgentFields DEF IInv
  <1>3. ASSUME NEW a \in AgentState
        PROVE  /\ [a EXCEPT !.turn = NoText, !.lines = lines].busy = a.busy
               /\ [a EXCEPT !.turn = NoText, !.lines = lines].queue = a.queue
    BY DEF AgentState
  <1> QED
    BY <1>1, <1>2, <1>3 DEF IInv, TypeOK

\* A send is lost, or the session is busy with it, at once or after another turn.
LEMMA SendLeaves ==
  ASSUME IInv, NEW p \in Commands, Send(p)
  PROVE  /\ At(p, "send") /\ At(p, "watch")' /\ commands'[p].to = commands[p].to
         /\ commands[p].to \in Sessions
         /\ \A q \in Commands \ {p} : commands'[q] = commands[q] /\ copies'[q] = copies[q]
         /\ \A t \in Sessions \ {commands[p].to} : agents'[t] = agents[t]
         /\ \/ UNCHANGED <<agents, copies>>
            \/ /\ agents'[commands[p].to].busy
               /\ agents'[commands[p].to].queue =
                    IF agents[commands[p].to].busy
                    THEN Append(agents[commands[p].to].queue, p)
                    ELSE agents[commands[p].to].queue
  <1> DEFINE s == commands[p].to
  <1>1. /\ At(p, "send") /\ commands' = [commands EXCEPT ![p].pc = "watch"]
        /\ commands[p] \in Command /\ s \in Sessions /\ agents[s] \in AgentState
    BY CommandFields, AgentFields DEF IInv, Send
  <1>2. commands'[p] = [commands[p] EXCEPT !.pc = "watch"]
    BY <1>1 DEF IInv, TypeOK
  <1>3. commands'[p].pc = "watch" /\ commands'[p].to = s
    BY <1>1, <1>2 DEF Command
  <1>4. \A q \in Commands \ {p} : commands'[q] = commands[q] /\ copies'[q] = copies[q]
    BY <1>1 DEF IInv, TypeOK, Send
  <1>5. CASE UNCHANGED <<agents, copies>>
    BY <1>1, <1>3, <1>4, <1>5 DEF At
  <1>6. CASE agents' = [agents EXCEPT ![s] = Receives(s, @, p)]
    <2>1. PICK a \in AgentState : a = agents[s]
      BY <1>1
    <2>2. /\ agents'[s] = Receives(s, a, p)
          /\ \A t \in Sessions \ {s} : agents'[t] = agents[t]
      BY <1>1, <1>6, <2>1 DEF IInv, TypeOK
    <2>3. Receives(s, a, p).busy = TRUE
      BY <1>1, ReceivesFields
    <2>4. Receives(s, a, p).queue = IF a.busy THEN Append(a.queue, p) ELSE a.queue
      BY DEF Receives, AgentState
    <2> QED
      BY <1>1, <1>3, <1>4, <2>1, <2>2, <2>3, <2>4 DEF At
  <1> QED
    BY <1>5, <1>6 DEF Send

LEMMA QueuesKeep == IInv /\ QueuesWork /\ [Next]_vars => QueuesWork'
  <1> SUFFICES ASSUME IInv, QueuesWork, [Next]_vars PROVE QueuesWork'
    OBVIOUS
  <1>1. CASE UNCHANGED agents
    BY <1>1 DEF QueuesWork
  <1>2. ASSUME NEW p \in Commands, Send(p)
        PROVE  QueuesWork'
    BY <1>2, SendLeaves DEF QueuesWork
  <1>3. ASSUME NEW s \in Sessions, EndTurn(s)
        PROVE  QueuesWork'
    BY <1>3, EndTurnLeaves DEF QueuesWork
  <1>4. ASSUME NEW s \in Sessions, Reply(s)
        PROVE  QueuesWork'
    BY <1>4, ReplyLeaves DEF QueuesWork
  <1>5. \/ UNCHANGED agents
        \/ \E p \in Commands : Send(p)
        \/ \E s \in Sessions : EndTurn(s) \/ Reply(s)
    BY DEF Next, Progress, vars, Begin, TakeLock, ReadStatus, ReadOffset, Taken, Leaves, Resend,
      GiveUp, Kill
  <1> QED
    BY <1>1, <1>2, <1>3, <1>4, <1>5

LEMMA NoWaitIs ==
  ASSUME NEW begun \in BOOLEAN
  PROVE  /\ [NoWait EXCEPT !.begun = begun] \in Wait
         /\ [NoWait EXCEPT !.begun = begun].pc = "none"
         /\ [NoWait EXCEPT !.begun = begun].begun = begun
         /\ ~Told([NoWait EXCEPT !.begun = begun])
         /\ NoWait \in Wait /\ NoWait.pc = "none"
  BY DEF NoWait, Wait, Told

\* What whoever waits makes of a turn that begins.
LEMMA TurnBegunIs ==
  ASSUME waits \in [Waiters -> Wait], NEW s \in Sessions
  PROVE  /\ TurnBegun(s) \in [Waiters -> Wait]
         /\ \A p \in Waiters :
              /\ TurnBegun(s)[p].pc = waits[p].pc /\ TurnBegun(s)[p].begun = waits[p].begun
              /\ TurnBegun(s)[p].late = waits[p].late /\ TurnBegun(s)[p].shown = waits[p].shown
              /\ Told(TurnBegun(s)[p]) <=> Told(waits[p])
  <1> SUFFICES ASSUME NEW p \in Waiters
               PROVE  /\ TurnBegun(s)[p] \in Wait
                      /\ TurnBegun(s)[p].pc = waits[p].pc
                      /\ TurnBegun(s)[p].begun = waits[p].begun
                      /\ TurnBegun(s)[p].late = waits[p].late
                      /\ TurnBegun(s)[p].shown = waits[p].shown
                      /\ Told(TurnBegun(s)[p]) <=> Told(waits[p])
    BY DEF TurnBegun
  <1>1. PICK w \in Wait : w = waits[p]
    OBVIOUS
  <1>2. PICK no \in BOOLEAN, said \in BOOLEAN : no = FALSE /\ said = (w.said \/ w.owed)
    OBVIOUS
  <1>3. TurnBegun(s)[p] = IF ~Watches(p, s) THEN w ELSE [w EXCEPT !.owed = no, !.said = said]
    BY <1>1, <1>2 DEF TurnBegun
  <1>4. CASE TurnBegun(s)[p] = w
    BY <1>1, <1>4
  <1>5. CASE TurnBegun(s)[p] = [w EXCEPT !.owed = no, !.said = said]
    <2>1. PICK v \in Wait : v = [w EXCEPT !.owed = no, !.said = said]
      BY DEF Wait
    <2>2. /\ v.owed = no /\ v.said = said /\ v.begun = w.begun /\ v.pc = w.pc
          /\ v.late = w.late /\ v.shown = w.shown
      BY <2>1 DEF Wait
    <2>3. Told(v) <=> Told(w)
      BY <1>2, <2>2 DEF Told
    <2> QED
      BY <1>1, <1>5, <2>1, <2>2, <2>3
  <1> QED
    BY <1>3, <1>4, <1>5

LEMMA WaitSendKeeps ==
  ASSUME WaitInv, NEW q \in Commands, WaitSend(q)
  PROVE  waits' \in [Waiters -> Wait] /\ \A p \in Waiters : Own(p)'
  <1> DEFINE s == commands[q].to
  <1>1. PICK begins \in BOOLEAN : begins = (agents'[s].busy /\ ~agents[s].busy)
    OBVIOUS
  <1>2. PICK others \in [Waiters -> Wait] :
          /\ others = IF begins THEN TurnBegun(s) ELSE waits
          /\ \A p \in Waiters :
               /\ others[p].pc = waits[p].pc /\ others[p].begun = waits[p].begun
               /\ others[p].late = waits[p].late /\ others[p].shown = waits[p].shown
               /\ Told(others[p]) <=> Told(waits[p])
    <2>1. waits \in [Waiters -> Wait] /\ s \in Sessions
      BY CommandFields DEF WaitInv, IInv
    <2>2. CASE begins
      BY <2>1, <2>2, TurnBegunIs
    <2>3. CASE ~begins
      BY <2>1, <2>3
    <2> QED
      BY <2>2, <2>3
  <1>3. Send(q) /\ waits' = IF q \in Waiters
                            THEN [others EXCEPT ![q] = [NoWait EXCEPT !.begun = begins]] ELSE others
    BY <1>1, <1>2 DEF WaitSend
  <1>4. /\ At(q, "send") /\ At(q, "watch")' /\ commands'[q].to = s /\ s \in Sessions
        /\ \A p \in Commands \ {q} : commands'[p] = commands[p] /\ copies'[p] = copies[p]
        /\ \A t \in Sessions \ {s} : agents'[t] = agents[t]
    BY <1>3, SendLeaves DEF WaitInv
  <1>5. \/ UNCHANGED <<agents, copies>>
        \/ /\ agents'[s].busy
           /\ agents'[s].queue = IF agents[s].busy THEN Append(agents[s].queue, q)
                                 ELSE agents[s].queue
    BY <1>3, SendLeaves DEF WaitInv
  <1>6. waits' \in [Waiters -> Wait]
    BY <1>2, <1>3, NoWaitIs
  <1>7. agents[s].queue \in Seq(Commands)
    BY <1>4, AgentFields DEF WaitInv, IInv
  <1>8. ASSUME NEW p \in Waiters, p # q
        PROVE  Own(p)'
    <2>1. waits'[p] = others[p] /\ commands'[p] = commands[p] /\ copies'[p] = copies[p]
      BY <1>2, <1>3, <1>4, <1>8
    <2>2. Coming(p) => Coming(p)'
      <3>1. CASE commands[p].to = s
        <4>1. ASSUME NEW r, r \in ToSet(agents[s].queue)
              PROVE  r \in ToSet(Append(agents[s].queue, q))
          BY <1>7, <4>1 DEF ToSet
        <4> QED
          BY <1>5, <2>1, <3>1, <4>1 DEF Coming
      <3>2. CASE commands[p].to # s
        BY <1>4, <2>1, <3>2, CommandFields DEF Coming, WaitInv, IInv
      <3> QED
        BY <3>1, <3>2
    <2>3. ~agents'[commands[p].to].busy => ~agents[commands[p].to].busy
      BY <1>4, <1>5, <2>1, CommandFields DEF WaitInv, IInv
    <2>4. Own(p) /\ (Waits(p)' <=> Waits(p)) /\ (Watching(p)' <=> Watching(p))
      BY <1>2, <2>1 DEF WaitInv, Waits, Watching, At
    <2> QED
      BY <1>2, <2>1, <2>2, <2>3, <2>4 DEF Own, Follows, At
  <1>9. ASSUME q \in Waiters
        PROVE  Own(q)'
    <2>1. waits'[q] = [NoWait EXCEPT !.begun = begins]
      BY <1>2, <1>3, <1>9
    <2>2. waits'[q].pc = "none" /\ waits'[q].begun = begins /\ ~Told(waits'[q])
      BY <2>1, NoWaitIs
    <2>3. s \notin Codex => copies[q] = 0
      BY <1>4 DEF WaitInv, IInv, Keeps, ShownOnceSent, Sending, At
    <2>4. CASE UNCHANGED <<agents, copies>>
      <3>1. begins = FALSE /\ (s \notin Codex => copies'[q] = 0)
        BY <1>1, <2>3, <2>4
      <3> QED
        BY <1>4, <2>2, <3>1 DEF Own, Follows, Waits, At
    <2>5. CASE /\ agents'[s].busy
               /\ agents'[s].queue = IF agents[s].busy THEN Append(agents[s].queue, q)
                                     ELSE agents[s].queue
      <3>1. q \in ToSet(Append(agents[s].queue, q))
        <4>1. PICK n \in Nat : n = Len(agents[s].queue) + 1
          BY <1>7
        <4>2. n \in DOMAIN Append(agents[s].queue, q) /\ Append(agents[s].queue, q)[n] = q
          BY <1>7, <4>1
        <4> QED
          BY <4>2 DEF ToSet
      <3>2. begins \/ Coming(q)'
        BY <1>1, <1>4, <2>5, <3>1 DEF Coming
      <3> QED
        BY <1>4, <2>2, <2>5, <3>2 DEF Own, Follows, Waits, At
    <2> QED
      BY <1>5, <2>4, <2>5
  <1> QED
    BY <1>6, <1>8, <1>9

LEMMA WaitEndTurnKeeps ==
  ASSUME WaitInv, NEW s \in Sessions, WaitEndTurn(s)
  PROVE  waits' \in [Waiters -> Wait] /\ \A p \in Waiters : Own(p)'
  <1>1. /\ agents[s].busy /\ agents[s].queue \in Seq(Commands)
        /\ \A t \in Sessions \ {s} : agents'[t] = agents[t]
        /\ UNCHANGED <<lock, commands, copies>>
        /\ agents[s].queue = <<>> => ~agents'[s].busy /\ agents'[s].queue = <<>>
        /\ agents[s].queue # <<>> => agents'[s].busy /\ agents'[s].queue = Tail(agents[s].queue)
    BY EndTurnLeaves DEF WaitInv, WaitEndTurn
  <1>2. waits \in [Waiters -> Wait]
    BY DEF WaitInv
  <1>3. ASSUME NEW p \in Waiters
        PROVE  waits'[p] \in Wait /\ Own(p)'
    <2>1. PICK w \in Wait : w = waits[p]
      BY <1>2
    <2>2. /\ w.owed \in BOOLEAN /\ w.said \in BOOLEAN /\ w.begun \in BOOLEAN
          /\ w.shown \in BOOLEAN /\ w.late \in BOOLEAN
      BY DEF Wait
    <2>3. Own(p) /\ commands'[p] = commands[p] /\ copies'[p] = copies[p]
          /\ commands[p].to \in Sessions
      BY <1>1, CommandFields DEF WaitInv, IInv
    <2>4. CASE ~Watches(p, s)
      <3>1. waits'[p] = w
        BY <2>1, <2>4 DEF WaitEndTurn, TurnEnded, TurnFollowed
      <3>2. CASE commands[p].to = s
        BY <2>1, <2>3, <2>4, <3>1, <3>2 DEF Own, Follows, Watching, Watches, Waits, At
      <3>3. CASE commands[p].to # s
        <4>1. agents'[commands[p].to] = agents[commands[p].to]
          BY <1>1, <2>3, <3>3
        <4> QED
          BY <2>1, <2>3, <3>1, <4>1, OthersStand
      <3> QED
        BY <3>2, <3>3, <3>1
    <2>5. CASE Watches(p, s) /\ agents[s].queue = <<>>
      <3>1. waits'[p] = [w EXCEPT !.owed = w.begun]
        BY <2>1, <2>5 DEF WaitEndTurn, TurnEnded
      <3>2. PICK begun \in BOOLEAN : begun = w.begun
        BY <2>2
      <3>3. PICK v \in Wait : v = [w EXCEPT !.owed = begun]
        BY DEF Wait
      <3>4. /\ v.owed = begun /\ v.said = w.said /\ v.begun = begun /\ v.pc = w.pc
            /\ v.late = w.late /\ v.shown = w.shown
        BY <3>2, <3>3 DEF Wait
      <3>5. waits'[p] = v
        BY <3>1, <3>2, <3>3
      <3>6. commands[p].to = s /\ ~Coming(p)
        BY <2>5 DEF Watches, Coming, ToSet
      <3> QED
        BY <2>1, <2>2, <2>3, <3>2, <3>4, <3>5, <3>6 DEF Own, Follows, Watching, Waits, At, Told
    <2>6. CASE Watches(p, s) /\ agents[s].queue # <<>>
      <3> DEFINE text == Head(agents[s].queue)
      <3>1. waits'[p] = [w EXCEPT !.said = w.begun, !.begun = w.begun \/ text = p]
        BY <2>1, <2>6 DEF WaitEndTurn, TurnFollowed
      <3>2. PICK old \in BOOLEAN, new \in BOOLEAN : old = w.begun /\ new = (w.begun \/ text = p)
        BY <2>2
      <3>3. PICK v \in Wait : v = [w EXCEPT !.said = old, !.begun = new]
        BY DEF Wait
      <3>4. /\ v.owed = w.owed /\ v.said = old /\ v.begun = new /\ v.pc = w.pc
            /\ v.late = w.late /\ v.shown = w.shown
        BY <3>3 DEF Wait
      <3>5. waits'[p] = v
        BY <3>1, <3>2, <3>3
      <3>6. commands[p].to = s
        BY <2>6 DEF Watches
      <3>7. Coming(p) => Coming(p)' \/ text = p
        <4> SUFFICES ASSUME Coming(p), text # p PROVE Coming(p)'
          OBVIOUS
        <4>1. PICK i \in 1..Len(agents[s].queue) : agents[s].queue[i] = p
          BY <1>1, <3>6 DEF Coming, ToSet
        <4>2. i # 1
          BY <1>1, <2>6, <4>1
        <4>3. PICK j \in Nat : j = i - 1
          BY <4>1, <4>2
        <4>4. j \in DOMAIN Tail(agents[s].queue) /\ Tail(agents[s].queue)[j] = p
          BY <1>1, <2>6, <4>1, <4>2, <4>3
        <4>5. p \in ToSet(Tail(agents[s].queue))
          BY <4>4 DEF ToSet
        <4>6. agents'[commands'[p].to].queue = Tail(agents[s].queue)
          BY <1>1, <2>3, <2>6, <3>6
        <4> QED
          BY <4>5, <4>6 DEF Coming
      <3>8. agents'[s].busy
        BY <1>1, <2>6
      <3> QED
        BY <2>1, <2>2, <2>3, <3>2, <3>4, <3>5, <3>6, <3>7, <3>8
        DEF Own, Follows, Watching, Waits, At, Told
    <2> QED
      BY <2>4, <2>5, <2>6
  <1>4. waits' = [p \in Waiters |-> waits'[p]]
    BY DEF WaitEndTurn, TurnEnded, TurnFollowed
  <1> QED
    BY <1>3, <1>4

\* A step of the wait itself, with nothing else.
LEMMA WaitStepKeeps ==
  ASSUME WaitInv, NEW p \in Waiters,
         WaitProgress(p) \/ LastWord(p) \/ Notice(p) \/ KillWait(p)
  PROVE  waits' \in [Waiters -> Wait] /\ \A q \in Waiters : Own(q)'
  <1>1. UNCHANGED vars /\ waits \in [Waiters -> Wait] /\ Own(p)
    BY DEF WaitInv, WaitProgress, SeenBusy, GraceOver, TurnOver, TimedOut, Settle, To, Prints,
      LastWord, Notice, KillWait
  <1>2. PICK w \in Wait : w = waits[p]
    BY <1>1
  <1>3. /\ w.owed \in BOOLEAN /\ w.said \in BOOLEAN /\ w.begun \in BOOLEAN
        /\ w.shown \in BOOLEAN /\ w.late \in BOOLEAN
    BY DEF Wait
  <1>4. PICK busy \in BOOLEAN : busy = agents[commands[p].to].busy
    BY CommandFields, AgentFields DEF WaitInv, IInv
  <1>5. ~busy => ~Coming(p)
    BY <1>4, CommandFields DEF WaitInv, IInv, QueuesWork, Coming, ToSet
  <1>6. ASSUME NEW v \in Wait, waits' = [waits EXCEPT ![p] = v], Own(p)'
        PROVE  waits' \in [Waiters -> Wait] /\ \A q \in Waiters : Own(q)'
    <2>1. \A q \in Waiters \ {p} : waits'[q] = waits[q]
      BY <1>1, <1>6
    <2> QED
      BY <1>1, <1>6, <2>1, OthersStand DEF WaitInv, vars
  <1>7. ASSUME NEW pc \in {"wait", "settle"}, waits' = [waits EXCEPT ![p].pc = pc],
               Waits(p), pc = "wait" => w.shown, pc = "settle" => w.pc = "wait" /\ ~w.shown
        PROVE  waits' \in [Waiters -> Wait] /\ \A q \in Waiters : Own(q)'
    <2>1. PICK v \in Wait : v = [w EXCEPT !.pc = pc]
      BY DEF Wait
    <2>2. /\ v.owed = w.owed /\ v.said = w.said /\ v.begun = w.begun /\ v.pc = pc
          /\ v.late = w.late /\ v.shown = w.shown
      BY <2>1 DEF Wait
    <2>3. waits' = [waits EXCEPT ![p] = v] /\ waits'[p] = v
      BY <1>1, <1>2, <1>7, <2>1
    <2>4. Own(p)'
      BY <1>1, <1>2, <1>7, <2>2, <2>3 DEF Own, Follows, Watching, Waits, At, Told, Coming, vars
    <2> QED
      BY <1>6, <2>3, <2>4
  <1>8. ASSUME NEW v \in Wait, waits' = [waits EXCEPT ![p] = v],
               v.pc \in {"none", "killed"} \/ v.late, Waits(p)
        PROVE  waits' \in [Waiters -> Wait] /\ \A q \in Waiters : Own(q)'
    <2>1. waits'[p] = v
      BY <1>1, <1>8
    <2>2. Own(p)'
      BY <1>1, <1>8, <2>1 DEF Own, Follows, Watching, Waits, At, vars
    <2> QED
      BY <1>6, <1>8, <2>2
  <1>9. CASE SeenBusy(p) \/ TurnOver(p)
    <2>1. PICK pc \in {"wait", "settle"} :
            /\ waits' = [waits EXCEPT ![p].pc = pc] /\ Waits(p)
            /\ pc = "wait" => w.shown
            /\ pc = "settle" => w.pc = "wait" /\ ~w.shown
      BY <1>2, <1>9 DEF SeenBusy, TurnOver, To, Activity, Waits
    <2> QED
      BY <1>7, <2>1
  <1>10. CASE GraceOver(p) \/ Settle(p)
    <2>1. waits' = [waits EXCEPT ![p] = NoWait] /\ Waits(p)
      BY <1>10 DEF GraceOver, Settle, Prints, Waits
    <2> QED
      BY <1>8, <2>1, NoWaitIs
  <1>11. CASE TimedOut(p)
    <2>1. PICK n \in Wait : n = NoWait
      BY NoWaitIs
    <2>2. PICK v \in Wait : v = [n EXCEPT !.pc = "settle", !.late = TRUE]
      BY DEF Wait
    <2>3. v.late
      BY <2>2 DEF Wait
    <2>4. waits' = [waits EXCEPT ![p] = v] /\ Waits(p)
      BY <1>11, <2>1, <2>2 DEF TimedOut, Waits
    <2> QED
      BY <1>8, <2>3, <2>4
  <1>12. CASE KillWait(p)
    <2>1. PICK n \in Wait : n = NoWait
      BY NoWaitIs
    <2>2. PICK v \in Wait : v = [n EXCEPT !.pc = "killed"]
      BY DEF Wait
    <2>3. v.pc = "killed"
      BY <2>2 DEF Wait
    <2>4. waits' = [waits EXCEPT ![p] = v] /\ Waits(p)
      BY <1>12, <2>1, <2>2 DEF KillWait
    <2> QED
      BY <1>8, <2>3, <2>4
  <1>13. CASE LastWord(p)
    <2>1. PICK no \in BOOLEAN, yes \in BOOLEAN : no = FALSE /\ yes = TRUE
      OBVIOUS
    <2>2. PICK v \in Wait : v = [w EXCEPT !.owed = no, !.said = yes]
      BY DEF Wait
    <2>3. /\ v.owed = no /\ v.said = yes /\ v.begun = w.begun /\ v.pc = w.pc
          /\ v.late = w.late /\ v.shown = w.shown
      BY <2>2 DEF Wait
    <2>4. waits' = [waits EXCEPT ![p] = v] /\ waits'[p] = v /\ w.owed
      BY <1>1, <1>2, <1>13, <2>1, <2>2 DEF LastWord, LatestText
    <2>5. Own(p)'
      BY <1>1, <1>2, <2>1, <2>3, <2>4 DEF Own, Follows, Watching, Waits, At, Told, Coming, vars
    <2> QED
      BY <1>6, <2>4, <2>5
  <1>14. CASE Notice(p)
    <2>1. PICK v \in Wait : v = [w EXCEPT !.shown = busy]
      BY DEF Wait
    <2>2. /\ v.owed = w.owed /\ v.said = w.said /\ v.begun = w.begun /\ v.pc = w.pc
          /\ v.late = w.late /\ v.shown = busy
      BY <2>1 DEF Wait
    <2>3. /\ waits' = [waits EXCEPT ![p] = v] /\ waits'[p] = v
          /\ w.pc \in {"probe", "wait"} /\ Waits(p)
      BY <1>1, <1>2, <1>4, <1>14, <2>1 DEF Notice, Waits
    <2>4. ~At(p, "watch") /\ Follows(p)
      BY <1>1, <2>3 DEF Own, At
    <2>5. ~busy /\ ~w.late /\ commands[p].to \notin Codex => Told(w)
      BY <1>2, <1>4, <1>5, <2>3, <2>4 DEF Follows, Watching
    <2>6. Own(p)'
      BY <1>1, <1>2, <2>2, <2>3, <2>5 DEF Own, Follows, Watching, Waits, At, Told, Coming, vars
    <2> QED
      BY <1>6, <2>3, <2>6
  <1> QED
    BY <1>9, <1>10, <1>11, <1>12, <1>13, <1>14 DEF WaitProgress

\* The steps of a command that touch its own wait, or none.
LEMMA CommandKeeps ==
  ASSUME WaitInv, NEW q \in Commands, UNCHANGED agents,
         waits' \in [Waiters -> Wait],
         \A p \in Commands \ {q} : commands'[p] = commands[p] /\ copies'[p] = copies[p],
         \A p \in Waiters \ {q} : waits'[p] = waits[p],
         q \in Waiters => Own(q)'
  PROVE  \A p \in Waiters : Own(p)'
  <1>1. ASSUME NEW p \in Waiters \ {q}
        PROVE  Own(p)'
    BY OthersStand DEF WaitInv
  <1> QED
    BY <1>1

LEMMA PromptTakenKeeps ==
  ASSUME WaitInv, NEW q \in Commands, PromptTaken(q)
  PROVE  waits' \in [Waiters -> Wait] /\ \A p \in Waiters : Own(p)'
  <1>1. /\ Taken(q) /\ At(q, "watch") /\ UNCHANGED <<agents, copies>>
        /\ commands' = [commands EXCEPT ![q] = Standing("done", @.to)]
        /\ waits \in [Waiters -> Wait] /\ IInv
    BY DEF PromptTaken, Taken, Leaves, WaitInv
  <1>2. /\ commands'[q].pc = "done" /\ commands'[q].to = commands[q].to
        /\ \A p \in Commands \ {q} : commands'[p] = commands[p]
    BY <1>1 DEF IInv, TypeOK, Standing
  <1>3. copies[q] > 0
    <2>1. CASE Shows(q)
      <3>1. copies[q] # 0 /\ copies[q] \in 0..3
        BY <1>1, <2>1, CommandFields DEF IInv, Keeps, NowhereYet, At
      <3> QED
        BY <3>1
    <2>2. CASE WentBusy(q)
      BY <1>1, <2>2 DEF IInv, Keeps, IdleUntilSent, WentBusy
    <2> QED
      BY <1>1, <2>1, <2>2 DEF Taken
  <1>4. CASE q \notin Waiters
    <2>1. waits' = waits
      BY <1>4 DEF PromptTaken
    <2> QED
      BY <1>1, <1>2, <1>4, <2>1, CommandKeeps
  <1>5. CASE q \in Waiters
    <2>1. PICK w \in Wait : w = waits[q]
      BY <1>1, <1>5
    <2>2. PICK shown \in BOOLEAN : waits' = [waits EXCEPT ![q].pc = "probe", ![q].shown = shown]
      BY <1>5 DEF PromptTaken
    <2>3. PICK v \in Wait : v = [w EXCEPT !.pc = "probe", !.shown = shown]
      BY DEF Wait
    <2>4. /\ v.owed = w.owed /\ v.said = w.said /\ v.begun = w.begun /\ v.pc = "probe"
          /\ v.late = w.late
      BY <2>3 DEF Wait
    <2>5. waits' = [waits EXCEPT ![q] = v]
      BY <1>1, <1>5, <2>1, <2>2, <2>3
    <2>6. /\ waits' \in [Waiters -> Wait] /\ waits'[q] = v
          /\ \A p \in Waiters \ {q} : waits'[p] = waits[p]
      BY <1>1, <1>5, <2>5
    <2>7. Follows(q) /\ Watching(q) /\ copies[q] # 0
      BY <1>1, <1>3, <1>5 DEF WaitInv, Own, Watching
    <2>8. Own(q)'
      BY <1>1, <1>2, <2>1, <2>4, <2>6, <2>7 DEF Own, Follows, Waits, At, Coming, Told
    <2> QED
      BY <1>1, <1>2, <2>6, <2>8, CommandKeeps
  <1> QED
    BY <1>4, <1>5

\* A command that lets go of what it knew of an earlier send, or of its wait.
LEMMA ForgetKeeps ==
  ASSUME WaitInv, NEW q \in Commands, Forget(q), UNCHANGED agents,
         \A p \in Commands \ {q} : commands'[p] = commands[p] /\ copies'[p] = copies[p],
         ~At(q, "watch")'
  PROVE  waits' \in [Waiters -> Wait] /\ \A p \in Waiters : Own(p)'
  <1>1. waits \in [Waiters -> Wait] /\ NoWait \in Wait /\ NoWait.pc = "none"
    BY NoWaitIs DEF WaitInv
  <1>2. /\ waits' \in [Waiters -> Wait]
        /\ \A p \in Waiters \ {q} : waits'[p] = waits[p]
        /\ q \in Waiters => waits'[q] = NoWait
    BY <1>1 DEF Forget
  <1>3. q \in Waiters => Own(q)'
    BY <1>1, <1>2 DEF Own, Follows, Watching, Waits
  <1> QED
    BY <1>2, <1>3, CommandKeeps

\* A step of a command on its way to its first or next send: it neither watches
\* nor waits.
LEMMA ApproachKeeps ==
  ASSUME WaitInv, NEW q \in Commands, UNCHANGED <<waits, agents, copies>>,
         \A p \in Commands \ {q} : commands'[p] = commands[p],
         ~At(q, "done"), ~At(q, "watch")'
  PROVE  waits' \in [Waiters -> Wait] /\ \A p \in Waiters : Own(p)'
  <1>1. q \in Waiters => Own(q)'
    BY DEF WaitInv, Own, Follows, Watching, Waits, At
  <1>2. waits' \in [Waiters -> Wait]
    BY DEF WaitInv
  <1> QED
    BY <1>1, <1>2, CommandKeeps

LEMMA WaitInitHolds == WaitInit => WaitInv
  <1> SUFFICES ASSUME WaitInit PROVE WaitInv
    OBVIOUS
  <1>1. IInv /\ waits = [p \in Waiters |-> NoWait]
    BY InitHolds DEF WaitInit
  <1>2. waits \in [Waiters -> Wait]
    BY <1>1, NoWaitIs
  <1>3. QueuesWork
    <2> SUFFICES ASSUME NEW s \in Sessions PROVE agents[s].queue = <<>>
      BY DEF QueuesWork
    <2>1. PICK busy \in BOOLEAN :
            agents[s] = [busy |-> busy, turn |-> NoText, queue |-> <<>>, lines |-> <<>>]
      BY DEF WaitInit, Init
    <2> QED
      BY <2>1
  <1>4. ASSUME NEW p \in Waiters
        PROVE  Own(p)
    <2>1. waits[p].pc = "none"
      BY <1>1, NoWaitIs
    <2>2. At(p, "ready")
      BY DEF WaitInit, Init, At, Standing
    <2> QED
      BY <2>1, <2>2 DEF Own, Follows, Watching, Waits, At
  <1> QED
    BY <1>1, <1>2, <1>3, <1>4 DEF WaitInv

LEMMA WaitInductive == WaitInv /\ [WaitNext]_waitVars => WaitInv'
  <1> SUFFICES ASSUME WaitInv, [WaitNext]_waitVars PROVE WaitInv'
    OBVIOUS
  <1>1. [Next]_vars
    BY StepsOfPrompts DEF waitVars
  <1>2. IInv' /\ QueuesWork'
    BY <1>1, Inductive, QueuesKeep DEF WaitInv
  <1>3. commands \in [Commands -> Command]
    BY DEF WaitInv, IInv, TypeOK
  <1> DEFINE Kept == waits' \in [Waiters -> Wait] /\ \A p \in Waiters : Own(p)'
  <1>4. ASSUME NEW q \in Commands, Prompts(q)
        PROVE  Kept
    <2>1. CASE PromptTaken(q) \/ WaitSend(q)
      BY <2>1, PromptTakenKeeps, WaitSendKeeps
    <2>2. CASE (ReadStatus(q) \/ ReadOffset(q)) /\ UNCHANGED waits
      <3>1. /\ UNCHANGED <<waits, agents, copies>> /\ ~At(q, "done")
            /\ \A p \in Commands \ {q} : commands'[p] = commands[p]
        BY <1>3, <2>2 DEF ReadStatus, ReadOffset, At
      <3>2. ~At(q, "watch")'
        BY <1>3, <2>2 DEF ReadStatus, ReadOffset, At, Command
      <3> QED
        BY <3>1, <3>2, ApproachKeeps
    <2>3. CASE (Resend(q) \/ GiveUp(q)) /\ Forget(q)
      <3>1. /\ UNCHANGED <<agents, copies>>
            /\ \A p \in Commands \ {q} : commands'[p] = commands[p]
        BY <1>3, <2>3 DEF Resend, GiveUp, Leaves
      <3>2. ~At(q, "watch")'
        BY <1>3, <2>3 DEF Resend, GiveUp, Leaves, At, Command, Standing
      <3> QED
        BY <2>3, <3>1, <3>2, ForgetKeeps
    <2> QED
      BY <1>4, <2>1, <2>2, <2>3 DEF Prompts
  <1>5. ASSUME NEW q \in Commands, TakeLock(q), UNCHANGED waits
        PROVE  Kept
    <2>1. /\ UNCHANGED <<waits, agents, copies>> /\ ~At(q, "done")
          /\ \A p \in Commands \ {q} : commands'[p] = commands[p]
      BY <1>3, <1>5 DEF TakeLock, At
    <2>2. ~At(q, "watch")'
      BY <1>3, <1>5 DEF TakeLock, At, Command
    <2> QED
      BY <2>1, <2>2, ApproachKeeps
  <1>6. ASSUME NEW q \in Commands, Kill(q) \/ (\E s \in Sessions : Begin(q, s)), Forget(q)
        PROVE  Kept
    <2>1. /\ UNCHANGED agents
          /\ \A p \in Commands \ {q} : commands'[p] = commands[p] /\ copies'[p] = copies[p]
      BY <1>3, <1>6 DEF Kill, Begin, WaitInv, IInv, TypeOK
    <2>2. ~At(q, "watch")'
      BY <1>3, <1>6 DEF Kill, Begin, At, Standing
    <2> QED
      BY <1>6, <2>1, <2>2, ForgetKeeps
  <1>7. ASSUME NEW s \in Sessions, WaitEndTurn(s)
        PROVE  Kept
    BY <1>7, WaitEndTurnKeeps
  <1>8. ASSUME NEW s \in Sessions, Reply(s), UNCHANGED waits
        PROVE  Kept
    <2>1. \A p \in Waiters : Own(p) /\ commands[p].to \in Sessions
      BY CommandFields DEF WaitInv, IInv
    <2> QED
      BY <1>8, <2>1, ReplyLeaves, OthersStand DEF WaitInv
  <1>9. ASSUME NEW p \in Waiters, WaitProgress(p) \/ LastWord(p) \/ Notice(p) \/ KillWait(p)
        PROVE  Kept
    BY <1>9, WaitStepKeeps
  <1>10. ASSUME UNCHANGED waitVars
         PROVE  Kept
    BY <1>10, OthersStand DEF waitVars, vars, WaitInv
  <1>11. Kept
    BY <1>4, <1>5, <1>6, <1>7, <1>8, <1>9, <1>10 DEF WaitNext
  <1> QED
    BY <1>2, <1>11 DEF WaitInv

\* `--wait` adds to a prompt, and changes nothing of it: what is proved of
\* PromptDelivery holds of commands that wait, end late or are killed waiting.
THEOREM ImplementsPromptDelivery == WaitSpec => Spec
  <1>1. WaitInit => Init
    BY DEF WaitInit
  <1>2. [WaitNext]_waitVars => [Next]_vars
    BY StepsOfPrompts DEF waitVars
  <1> QED
    BY <1>1, <1>2, PTL DEF WaitSpec, Spec

\* Nothing takes a wait's end from it but its own last steps.
LEMMA PrintsEnd ==
  ASSUME WaitInv, [WaitNext]_waitVars, NEW p \in Waiters, Waits(p), waits'[p].pc = "none"
  PROVE  GraceOver(p) \/ Settle(p)
  <1>1. /\ waits \in [Waiters -> Wait] /\ At(p, "done") /\ waits[p].pc # "none"
        /\ commands \in [Commands -> Command]
    BY DEF WaitInv, Own, Waits, IInv, TypeOK
  <1>2. ASSUME waits'[p].pc = waits[p].pc
        PROVE  FALSE
    BY <1>1, <1>2
  <1>3. ASSUME NEW q \in Commands, Forget(q), ~At(q, "done") \/ ~Waits(q)
        PROVE  FALSE
    <2>1. waits'[p] = waits[p]
      BY <1>1, <1>3 DEF Forget
    <2> QED
      BY <1>2, <2>1
  <1>4. ASSUME NEW q \in Commands, Prompts(q)
        PROVE  FALSE
    <2>1. CASE PromptTaken(q)
      <3>1. q # p
        BY <1>1, <2>1 DEF PromptTaken, Taken, At
      <3>2. waits'[p] = waits[p]
        BY <1>1, <2>1, <3>1 DEF PromptTaken
      <3> QED
        BY <1>2, <3>2
    <2>2. CASE WaitSend(q)
      <3>1. q # p /\ commands[q].to \in Sessions
        BY <1>1, <2>2, CommandFields DEF WaitSend, Send, At, WaitInv, IInv
      <3>2. PICK others \in {waits, TurnBegun(commands[q].to)} :
              waits' = IF q \in Waiters
                       THEN [others EXCEPT ![q] = [NoWait EXCEPT !.begun =
                               agents'[commands[q].to].busy /\ ~agents[commands[q].to].busy]]
                       ELSE others
        BY <2>2 DEF WaitSend
      <3>3. others[p].pc = waits[p].pc /\ others \in [Waiters -> Wait]
        BY <1>1, <3>1, TurnBegunIs
      <3>4. waits'[p] = others[p]
        BY <3>1, <3>2, <3>3
      <3> QED
        BY <1>2, <3>3, <3>4
    <2>3. CASE UNCHANGED waits
      BY <1>2, <2>3
    <2>4. CASE (Resend(q) \/ GiveUp(q)) /\ Forget(q)
      BY <1>3, <2>4 DEF Resend, GiveUp, Unseen, At
    <2> QED
      BY <1>4, <2>1, <2>2, <2>3, <2>4 DEF Prompts
  <1>5. ASSUME NEW q \in Commands, Kill(q), Forget(q)
        PROVE  FALSE
    BY <1>3, <1>5 DEF Kill, Ended, At
  <1>6. ASSUME NEW q \in Commands, ~Runs(q), Forget(q)
        PROVE  FALSE
    BY <1>3, <1>6 DEF Runs
  <1>7. ASSUME NEW s \in Sessions, WaitEndTurn(s)
        PROVE  FALSE
    <2>1. PICK w \in Wait : w = waits[p]
      BY <1>1
    <2>2. PICK begun \in BOOLEAN, new \in BOOLEAN :
            \/ waits'[p] = w
            \/ waits'[p] = [w EXCEPT !.owed = begun]
            \/ waits'[p] = [w EXCEPT !.said = begun, !.begun = new]
      <3>1. w.begun \in BOOLEAN
        BY DEF Wait
      <3>2. CASE TurnEnded(s)
        BY <2>1, <3>1, <3>2 DEF TurnEnded
      <3>3. CASE TurnFollowed(s, Head(agents[s].queue))
        BY <2>1, <3>1, <3>3 DEF TurnFollowed
      <3> QED
        BY <1>7, <3>2, <3>3 DEF WaitEndTurn
    <2>3. /\ [w EXCEPT !.owed = begun].pc = w.pc
          /\ [w EXCEPT !.said = begun, !.begun = new].pc = w.pc
      BY DEF Wait
    <2> QED
      BY <1>2, <2>1, <2>2, <2>3
  <1>8. CASE UNCHANGED waits
    BY <1>2, <1>8
  <1>9. ASSUME NEW q \in Waiters, WaitProgress(q) \/ LastWord(q) \/ Notice(q) \/ KillWait(q)
        PROVE  GraceOver(p) \/ Settle(p)
    <2>1. CASE q # p
      <3>1. waits'[p] = waits[p]
        BY <1>1, <1>9, <2>1 DEF WaitProgress, SeenBusy, GraceOver, TurnOver, TimedOut, Settle, To,
          Prints, LastWord, LatestText, Notice, KillWait
      <3> QED
        BY <1>2, <3>1
    <2>2. CASE q = p
      <3>1. PICK w \in Wait : w = waits[p]
        BY <1>1
      <3>2. CASE SeenBusy(p) \/ TurnOver(p)
        <4>1. PICK pc \in {"wait", "settle"} : waits'[p] = [w EXCEPT !.pc = pc]
          BY <1>1, <3>1, <3>2 DEF SeenBusy, TurnOver, To
        <4> QED
          BY <4>1 DEF Wait
      <3>3. CASE TimedOut(p) \/ KillWait(p)
        <4>1. PICK n \in Wait : n = NoWait
          BY NoWaitIs
        <4>2. \/ waits'[p] = [n EXCEPT !.pc = "settle", !.late = TRUE]
              \/ waits'[p] = [n EXCEPT !.pc = "killed"]
          BY <1>1, <3>3, <4>1 DEF TimedOut, KillWait
        <4> QED
          BY <4>2 DEF Wait
      <3>4. CASE LastWord(p)
        <4>1. waits'[p] = [w EXCEPT !.owed = FALSE, !.said = TRUE]
          BY <1>1, <3>1, <3>4 DEF LastWord, LatestText
        <4>2. waits'[p].pc = w.pc
          BY <4>1 DEF Wait
        <4> QED
          BY <1>2, <3>1, <4>2
      <3>5. CASE Notice(p)
        <4>1. PICK busy : waits'[p] = [w EXCEPT !.shown = busy]
          BY <1>1, <3>1, <3>5 DEF Notice
        <4>2. waits'[p].pc = w.pc
          BY <4>1 DEF Wait
        <4> QED
          BY <1>2, <3>1, <4>2
      <3> QED
        BY <1>9, <2>2, <3>2, <3>3, <3>4, <3>5 DEF WaitProgress
    <2> QED
      BY <2>1, <2>2
  <1>10. CASE WaitNext
    BY <1>4, <1>5, <1>6, <1>7, <1>8, <1>9, <1>10 DEF WaitNext
  <1> QED
    BY <1>8, <1>10 DEF waitVars

\* Prompts and waits keep their types, for any number of commands and waiters.
THEOREM WaitTypeCorrect == WaitSpec => []WaitTypeOK
  <1>1. WaitInv => WaitTypeOK
    BY DEF WaitInv, IInv, WaitTypeOK
  <1> QED
    BY WaitInitHolds, WaitInductive, <1>1, PTL DEF WaitSpec

\* Whatever a `prompt --wait` to a session that does not run Codex prints, unless
\* it was late, was said once its own prompt's turn was over, however many
\* commands prompt the session, however turns and waits overlap, and though Orca
\* may show what the session did before.
THEOREM AnswersFollowPromptsOutsideCodex ==
  WaitSpec =>
    [][\A p \in Waiters :
         Waits(p) /\ ~waits[p].late /\ waits'[p].pc = "none" /\ commands[p].to \notin Codex
           => waits[p].said]_waitVars
  <1>1. ASSUME WaitInv, [WaitNext]_waitVars, NEW p \in Waiters,
               Waits(p), ~waits[p].late, waits'[p].pc = "none", commands[p].to \notin Codex
        PROVE  waits[p].said
    <2>1. At(p, "done") /\ Follows(p) /\ waits[p] \in Wait /\ waits \in [Waiters -> Wait]
      BY <1>1 DEF WaitInv, Own
    <2>2. /\ ~At(p, "watch") /\ Watching(p)
          /\ Told(waits[p]) <=> (waits[p].owed \/ waits[p].said)
      BY <1>1, <2>1 DEF Watching, At, Told
    <2>3. CASE GraceOver(p)
      <3>1. ~agents[commands[p].to].busy /\ ~waits[p].owed
        BY <2>3 DEF GraceOver
      <3>2. ~Coming(p)
        BY <1>1, <3>1, CommandFields DEF WaitInv, IInv, QueuesWork, Coming, ToSet
      <3> QED
        BY <1>1, <2>1, <2>2, <3>1, <3>2 DEF Follows
    <2>4. CASE Settle(p)
      BY <1>1, <2>1, <2>2, <2>4 DEF Settle, Follows
    <2>5. GraceOver(p) \/ Settle(p)
      BY <1>1, PrintsEnd
    <2> QED
      BY <2>3, <2>4, <2>5
  <1>2. WaitInv /\ [WaitNext]_waitVars =>
          [\A p \in Waiters :
             Waits(p) /\ ~waits[p].late /\ waits'[p].pc = "none" /\ commands[p].to \notin Codex
               => waits[p].said]_waitVars
    BY <1>1
  <1>3. WaitInit => WaitInv
    BY WaitInitHolds
  <1>4. WaitInv /\ [WaitNext]_waitVars => WaitInv'
    BY WaitInductive
  <1> QED
    BY <1>2, <1>3, <1>4, PTL DEF WaitSpec

\* Where no session runs Codex, no wait prints the answer to another prompt.
THEOREM AnswersFollowPrompts ==
  ASSUME Codex = {}
  PROVE  WaitSpec => AnswersAreOwn
  <1>1. [\A p \in Waiters :
           Waits(p) /\ ~waits[p].late /\ waits'[p].pc = "none" /\ commands[p].to \notin Codex
             => waits[p].said]_waitVars
        => [\A p \in Waiters :
              Waits(p) /\ ~waits[p].late /\ waits'[p].pc = "none" => waits[p].said]_waitVars
    OBVIOUS
  <1> QED
    BY <1>1, AnswersFollowPromptsOutsideCodex, PTL DEF AnswersAreOwn
=============================================================================
