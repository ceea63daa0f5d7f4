----------------------------- MODULE Reconciling -----------------------------
(***************************************************************************)
(* The way back: ReviewLog with `resolutions` (src/coordinator.rs          *)
(* cmd_resolutions), from which the commentators learn what became of      *)
(* their findings.                                                         *)
(*                                                                         *)
(* A commentator closes its findings by their numbers, whoever registered  *)
(* them (skills/chainsaw-lead/references/commentator.md:48).  It may be    *)
(* compacted, or not live to read an answer, and forgets nothing it has    *)
(* closed.                                                                 *)
(***************************************************************************)
EXTENDS ReviewLog

\* [FindingId -> what a commentator has closed the finding with]
VARIABLE closed

reviewVars == <<vars, closed>>

-----------------------------------------------------------------------------
Unclosed == [verdict |-> "none", fix |-> 0]

\* What a listing says of a finding.
Resolution(f) == [verdict |-> findings[f].verdict, fix |-> findings[f].fix]

ReviewInit == Init /\ closed = [f \in FindingId |-> Unclosed]

\* Slip: only what became a task is listed.
ListedTasks == {f \in DOMAIN findings : findings[f].verdict = "task"}

\* finding::resolved
Listed == {f \in DOMAIN findings : findings[f].verdict # "none"}

\* cmd_resolutions, in one deferred transaction: what it lists is closed.
Reconcile ==
  /\ closed' = [f \in FindingId |-> IF f \in Listed THEN Resolution(f) ELSE closed[f]]
  /\ UNCHANGED vars

ReviewNext == Reconcile \/ (Next /\ UNCHANGED closed)

ReviewSpec == ReviewInit /\ [][ReviewNext]_reviewVars

\* What ReviewLog's fairness asks of the commands and the lead, and a
\* commentator that runs `resolutions` "regularly while watching".
ReviewFairSpec ==
  /\ ReviewSpec
  /\ \A w \in Writers : WF_reviewVars(CommitObserve(w) /\ UNCHANGED closed)
  /\ WF_reviewVars(EndResolve /\ UNCHANGED closed)
  /\ WF_reviewVars((LoseAnswer \/ \E scope \in Scope : Receive(scope)) /\ UNCHANGED closed)
  /\ SF_reviewVars(Poll(0) /\ UNCHANGED closed) /\ SF_reviewVars(Receive(0) /\ UNCHANGED closed)
  /\ WF_reviewVars(Reconcile)

-----------------------------------------------------------------------------
(* Properties *)

Resolved == DOMAIN findings \ Open

\* "Record its verdict, reason, and optional fix_task_id, then close it locally"
\* (commentator.md:51): what a commentator has closed needs no second look, as a
\* resolve the lead tries again never changes what was listed.
ClosedAsDecided ==
  \A f \in FindingId : closed[f] # Unclosed => f \in Resolved /\ closed[f] = Resolution(f)

\* "It returns all resolutions in the run" (commentator.md:48): every verdict
\* reaches the commentators as it was recorded, with its fix task, also when the
\* lead never read that its resolve went through and tried another.
VerdictsReachCommentators ==
  \A f \in FindingId : f \in Resolved ~> (f \in Resolved /\ closed[f] = Resolution(f))

\* What commentators write reaches the lead and what the lead decides reaches
\* them.
ReviewsComeAcross == ReviewsReachTheLead /\ VerdictsReachCommentators
=============================================================================
