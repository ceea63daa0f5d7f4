------------------------------- MODULE Waiting -------------------------------
(***************************************************************************)
(* `prompt --wait` under Orca: PromptDelivery with what a command does     *)
(* once its prompt was taken (src/coordinator.rs prompt_taken, wait of     *)
(* src/infra/session_runtime/orca.rs, latest_assistant_text of             *)
(* src/infra/agent): it waits for the turn to end, having let go of the    *)
(* lock, and prints the last thing the agent said.                         *)
(*                                                                         *)
(* Orca notices that a turn began or ended a moment late, and the agent    *)
(* writes its last word a moment after the turn.  That a moment is shorter *)
(* than turn_start_grace and turn_end_settle is assumed (GraceOver,        *)
(* Settle); how turns and prompts interleave within them is not.  No       *)
(* terminal goes away.                                                     *)
(***************************************************************************)
EXTENDS PromptDelivery

CONSTANT Waiters \* the commands that are given --wait

ASSUME WaitersAssumption == Waiters \subseteq Commands

VARIABLE waits

waitVars == <<vars, waits>>

-----------------------------------------------------------------------------
\* shown: Orca has the session busy.  begun: the turn of the prompt has.
\* owed: it, or one after it, ended and its last word is not written.  said: the
\* last text in the transcript is the last word of it or of one after it.  late:
\* the wait ran into its timeout, and nothing is said of its answer.
Wait == [pc : {"none", "probe", "wait", "settle", "killed"}, shown : BOOLEAN,
         owed : BOOLEAN, begun : BOOLEAN, said : BOOLEAN, late : BOOLEAN]

WaitTypeOK == TypeOK /\ waits \in [Waiters -> Wait]

NoWait == [pc |-> "none", shown |-> FALSE, owed |-> FALSE, begun |-> FALSE,
           said |-> FALSE, late |-> FALSE]

WaitInit == Init /\ waits = [p \in Waiters |-> NoWait]

Waits(p) == p \in Waiters /\ waits[p].pc \notin {"none", "killed"}

\* The process has not ended: it prompts, or waits.
Runs(p) == ~Ended(p) \/ Waits(p)

\* It has sent its prompt to this session.
Watches(p, s) == commands[p].to = s /\ (At(p, "watch") \/ Waits(p))

Forget(p) == waits' = IF p \in Waiters THEN [waits EXCEPT ![p] = NoWait] ELSE waits

-----------------------------------------------------------------------------
(* What the agents do to the waits *)

\* Whoever waits sees a turn begin; what was owed of the one before is written.
TurnBegun(s) ==
  [p \in Waiters |->
    IF ~Watches(p, s) THEN waits[p]
    ELSE [waits[p] EXCEPT !.owed = FALSE, !.said = @ \/ waits[p].owed]]

\* The agent's turn ends, and its last word is to come.
TurnEnded(s) ==
  waits' = [p \in Waiters |->
    IF ~Watches(p, s) THEN waits[p]
    ELSE [waits[p] EXCEPT !.owed = waits[p].begun]]

\* Its last word comes as the next turn, the text's, begins.
TurnFollowed(s, text) ==
  waits' = [p \in Waiters |->
    IF ~Watches(p, s) THEN waits[p]
    ELSE [waits[p] EXCEPT !.said = waits[p].begun,
            !.begun = @ \/ text = p]]

\* latest_assistant_text, from here on, is what the agent said last in the turn.
LatestText(p) == [waits[p] EXCEPT !.owed = FALSE, !.said = TRUE]

LastWord(p) ==
  /\ waits[p].owed
  /\ waits' = [waits EXCEPT ![p] = LatestText(p)] /\ UNCHANGED vars

\* Orca comes to show what the session is doing.
Notice(p) ==
  /\ waits' = [waits EXCEPT ![p].shown = agents[commands[p].to].busy]
  /\ waits[p].pc \in {"probe", "wait"} /\ UNCHANGED vars

-----------------------------------------------------------------------------
(* The command *)

To(p, pc) == waits' = [waits EXCEPT ![p].pc = pc] /\ UNCHANGED vars

\* The command prints latest_assistant_text and ends.
Prints(p) == waits' = [waits EXCEPT ![p] = NoWait] /\ UNCHANGED vars

\* What a probe of the terminal tells.
Activity(p) == IF waits[p].shown THEN "busy" ELSE "idle"

\* wait: the session is probed until it is seen busy ...
SeenBusy(p) == waits[p].pc = "probe" /\ Activity(p) = "busy" /\ To(p, "wait")

\* Slip: one probe that finds the session idle will do.
GraceUnused(p) == waits[p].pc = "probe" /\ Activity(p) = "idle" /\ Prints(p)

\* ... or has been idle through the grace period, in which Orca notices what
\* turn there is and the agent writes what it owes.
GraceOver(p) ==
  /\ waits[p].pc = "probe" /\ Activity(p) = "idle"
  /\ ~agents[commands[p].to].busy /\ ~waits[p].owed
  /\ Prints(p)

\* Orca's own wait, for the TUI to be idle.
TurnOver(p) == waits[p].pc = "wait" /\ Activity(p) = "idle" /\ To(p, "settle")

TimedOut(p) ==
  /\ waits[p].pc = "wait"
  /\ waits' = [waits EXCEPT ![p] = [NoWait EXCEPT !.pc = "settle", !.late = TRUE]]
  /\ UNCHANGED vars

\* turn_end_settle, in which a turn that is over is written down.
Settle(p) ==
  waits[p].pc = "settle" /\ (waits[p].late \/ ~waits[p].owed) /\ Prints(p)

\* prompt_taken: the lock is let go before the wait.  Orca may not show yet what
\* the session is doing.
PromptTaken(p) ==
  /\ Taken(p)
  /\ IF p \in Waiters
     THEN \E shown \in BOOLEAN :
            waits' = [waits EXCEPT ![p].pc = "probe", ![p].shown = shown]
     ELSE UNCHANGED waits

\* The process may be killed while it waits.
KillWait(p) ==
  /\ Waits(p)
  /\ waits' = [waits EXCEPT ![p] = [NoWait EXCEPT !.pc = "killed"]] /\ UNCHANGED vars

-----------------------------------------------------------------------------
WaitSend(p) ==
  LET s == commands[p].to
      begins == agents'[s].busy /\ ~agents[s].busy
      others == IF begins THEN TurnBegun(s) ELSE waits IN
  /\ Send(p)
  /\ waits' = IF p \in Waiters
              THEN [others EXCEPT ![p] = [NoWait EXCEPT !.begun = begins]] ELSE others

WaitEndTurn(s) ==
  /\ EndTurn(s)
  /\ IF agents[s].queue = <<>> THEN TurnEnded(s) ELSE TurnFollowed(s, Head(agents[s].queue))

\* What the wait does until it ends.
WaitProgress(p) == SeenBusy(p) \/ GraceOver(p) \/ TurnOver(p) \/ TimedOut(p) \/ Settle(p)

\* What it does once it has the lock, until the prompt was taken or given up.
Prompts(p) ==
  \/ PromptTaken(p)
  \/ WaitSend(p)
  \/ (ReadStatus(p) \/ ReadOffset(p)) /\ UNCHANGED waits
  \/ (Resend(p) \/ GiveUp(p)) /\ Forget(p)

WaitNext ==
  \/ \E p \in Commands :
       \/ Prompts(p)
       \/ TakeLock(p) /\ UNCHANGED waits
       \/ Kill(p) /\ Forget(p)
       \/ ~Runs(p) /\ (\E s \in Sessions : Begin(p, s)) /\ Forget(p)
  \/ \E s \in Sessions : WaitEndTurn(s) \/ (Reply(s) /\ UNCHANGED waits)
  \/ \E p \in Waiters : WaitProgress(p) \/ LastWord(p) \/ Notice(p) \/ KillWait(p)

WaitSpec == WaitInit /\ [][WaitNext]_waitVars

\* A command runs on until it ends, the lock's waiters are let in in turn, and
\* the moments Orca and the agents take are over sometime.
WaitFairSpec ==
  /\ WaitSpec
  /\ \A p \in Commands :
       /\ WF_waitVars(Prompts(p))
       /\ SF_waitVars(TakeLock(p) /\ UNCHANGED waits)
  /\ \A p \in Waiters : WF_waitVars(WaitProgress(p)) /\ WF_waitVars(LastWord(p)) /\ WF_waitVars(Notice(p))
-----------------------------------------------------------------------------
(* Properties *)

\* "wait for the turn to end and print the last thing the agent said"
\* (src/coordinator.rs:532): the answer of a wait that was not late is the last
\* word of the turn its prompt began, or of a later one - though the prompt may
\* have waited behind another turn, other commands prompt meanwhile, and Orca
\* may still show what the session did before.
AnswersAreOwn ==
  [][\A p \in Waiters :
       Waits(p) /\ ~waits[p].late /\ waits'[p].pc = "none" => waits[p].said]_waitVars

\* A command comes to its end, though every other one waits for the same lock,
\* any holder may be killed and the session it waits for may be prompted again
\* and again.
CommandsEnd == \A p \in Commands : Runs(p) ~> ~Runs(p)
=============================================================================
