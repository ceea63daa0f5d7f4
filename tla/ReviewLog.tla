------------------------------ MODULE ReviewLog ------------------------------
(***************************************************************************)
(* Observations and findings, the lead's poll of them and its verdicts     *)
(* (src/coordinator.rs cmd_observe, cmd_finding, cmd_poll, cmd_resolve;    *)
(* src/persistence/observation.rs and finding.rs).                         *)
(*                                                                         *)
(* Commentators write through commands of their own, several at a time.    *)
(* Each takes the writer's lock, is given an id, and is seen by readers    *)
(* once it commits; it may be killed before.  The lead polls the whole run *)
(* with the cursor the last answer gave it, and may follow one task with a *)
(* cursor of its own (--task).  It may not live to read an answer.         *)
(***************************************************************************)
EXTENDS Naturals, Sequences

CONSTANTS
  Writers,      \* the commentators' commands that may be running at one time
  Task,         \* the ids of the tasks there are
  MaxObservations, MaxFindings

ASSUME ConstantsAssumption ==
  /\ Task \subseteq Nat \ {0}
  /\ MaxObservations \in Nat /\ MaxFindings \in Nat

VARIABLES
  observations, \* the committed rows, in the order they committed
  findings,     \* the committed rows, by id
  writers,      \* [Writers -> the observation a command holds uncommitted]
  resolver,     \* the finding the lead's resolve has read, or 0
  answer,       \* what the lead's poll read and has not printed
  lead          \* what the lead retains

vars == <<observations, findings, writers, resolver, answer, lead>>

-----------------------------------------------------------------------------
ObservationId == 1..MaxObservations
FindingId == 1..MaxFindings

\* A task id, or 0 for a run-wide observation or a poll of the whole run.
Scope == Task \cup {0}

Observation == [id : ObservationId, task : Scope]

\* fix: the task of a "task" verdict.
Finding == [task : Task, verdict : {"none", "task", "dropped"}, fix : Scope]

NoObservation == [id |-> 0, task |-> 0]

\* By scope, where it polls from and what it was given; and its map of the
\* unresolved findings.
Lead == [cursor : [Scope -> 0..MaxObservations],
         delivered : [Scope -> SUBSET ObservationId], unresolved : SUBSET FindingId]

Answer == [cursor : 0..MaxObservations, observations : SUBSET ObservationId,
           findings : SUBSET FindingId]

NoAnswer == [cursor |-> 0, observations |-> {}, findings |-> {}]

TypeOK ==
  /\ observations \in Seq(Observation) /\ findings \in Seq(Finding)
  /\ writers \in [Writers -> Observation \cup {NoObservation}]
  /\ resolver \in FindingId \cup {0}
  /\ answer \in [pending : BOOLEAN, scope : Scope, read : Answer]
  /\ lead \in Lead

Nothing == [pending |-> FALSE, scope |-> 0, read |-> NoAnswer]

Init ==
  /\ observations = <<>> /\ findings = <<>>
  /\ writers = [w \in Writers |-> NoObservation]
  /\ resolver = 0 /\ answer = Nothing
  /\ lead = [cursor |-> [scope \in Scope |-> 0],
             delivered |-> [scope \in Scope |-> {}], unresolved |-> {}]

Writing(w) == writers[w] # NoObservation

\* Slip: a transaction that takes the lock only when it writes.
Deferred == resolver = 0

\* The writer's lock: begin immediate waits for whoever holds it.
Unlocked == resolver = 0 /\ \A w \in Writers : ~Writing(w)

Committed == {observations[i].id : i \in DOMAIN observations}

\* The id the table gives: one more than the largest it has given and kept.
IsNextId(id) ==
  LET given == Committed \cup {writers[w].id : w \in Writers} \cup {0}
  IN  id - 1 \in given /\ \A other \in given : other < id

-----------------------------------------------------------------------------
(* Commentators *)

\* cmd_observe up to its insert, on a task there is or run-wide.
Observe(w) ==
  /\ ~Writing(w) /\ Unlocked
  /\ \E id \in ObservationId, task \in Scope :
       IsNextId(id) /\ writers' = [writers EXCEPT ![w] = [id |-> id, task |-> task]]
  /\ UNCHANGED <<observations, findings, resolver, answer, lead>>

CommitObserve(w) ==
  /\ Writing(w)
  /\ observations' = Append(observations, writers[w])
  /\ writers' = [writers EXCEPT ![w] = NoObservation]
  /\ UNCHANGED <<findings, resolver, answer, lead>>

\* Killed before its commit: the insert and the id are rolled back.
KillWriter(w) ==
  /\ Writing(w)
  /\ writers' = [writers EXCEPT ![w] = NoObservation]
  /\ UNCHANGED <<observations, findings, resolver, answer, lead>>

\* cmd_finding, whose rows are read back whole on every poll.
Register ==
  /\ Unlocked /\ Len(findings) < MaxFindings
  /\ \E task \in Task :
       findings' = Append(findings, [task |-> task, verdict |-> "none", fix |-> 0])
  /\ UNCHANGED <<observations, writers, resolver, answer, lead>>

-----------------------------------------------------------------------------
(* The lead *)

InScope(task, scope) == scope = 0 \/ task = scope

\* A run-wide observation belongs to every scope.
Belongs(observation, scope) == observation.task = 0 \/ InScope(observation.task, scope)

\* Slip: the cursor's own observation is read again.
AfterOrAt(cursor, scope) ==
  {observations[i].id : i \in {j \in DOMAIN observations :
     /\ observations[j].id >= cursor
     /\ Belongs(observations[j], scope)}}

\* Slip: the last row is left out.
AfterAllButLast(cursor, scope) ==
  {observations[i].id : i \in {j \in 1..Len(observations) :
     /\ observations[j].id > cursor /\ j < Len(observations)
     /\ Belongs(observations[j], scope)}}

\* observation::after
After(cursor, scope) ==
  {observations[i].id : i \in {j \in DOMAIN observations :
     /\ observations[j].id > cursor
     /\ Belongs(observations[j], scope)}}

\* finding::unresolved
Unresolved(scope) ==
  {f \in DOMAIN findings : findings[f].verdict = "none" /\ InScope(findings[f].task, scope)}

\* The last of the observations by id, or where the poll began.
IsCursor(c, cursor, ids) == c \in ids \cup {cursor} /\ \A id \in ids \cup {cursor} : id <= c

\* cmd_poll: one deferred transaction, which sees what was committed.
Poll(scope) ==
  LET ids == After(lead.cursor[scope], scope) IN
  /\ ~answer.pending /\ resolver = 0
  /\ \E c \in 0..MaxObservations :
       /\ IsCursor(c, lead.cursor[scope], ids)
       /\ answer' = [pending |-> TRUE, scope |-> scope,
                     read |-> [cursor |-> c, observations |-> ids,
                               findings |-> Unresolved(scope)]]
  /\ UNCHANGED <<observations, findings, writers, resolver, lead>>

\* "replace OBSERVATION_CURSOR with the returned cursor exactly" and "add every
\* returned finding to the unresolved map" (skills/chainsaw-lead/SKILL.md:80).
Receive(scope) ==
  /\ answer.pending /\ answer.scope = scope /\ answer' = Nothing
  /\ lead' = [cursor |-> [lead.cursor EXCEPT ![scope] = answer.read.cursor],
              delivered |-> [lead.delivered EXCEPT ![scope] = @ \cup answer.read.observations],
              unresolved |-> lead.unresolved \cup answer.read.findings]
  /\ UNCHANGED <<observations, findings, writers, resolver>>

\* The poll is killed, or the lead compacted before it read the answer.
LoseAnswer ==
  /\ answer.pending /\ answer' = Nothing
  /\ UNCHANGED <<observations, findings, writers, resolver, lead>>

\* The lead is compacted, or another takes over: it carries the cursors and
\* may lose its map.
LoseMap ==
  /\ ~answer.pending /\ lead' = [lead EXCEPT !.unresolved = {}]
  /\ UNCHANGED <<observations, findings, writers, resolver, answer>>

\* cmd_resolve up to its update, under the writer's lock: the finding is there.
Resolve ==
  /\ ~answer.pending /\ Unlocked
  /\ \E f \in lead.unresolved : resolver' = f
  /\ UNCHANGED <<observations, findings, writers, answer, lead>>

\* Slip: the verdict last given stands.
OverwriteVerdict(f, verdict, fix) ==
  findings' = [findings EXCEPT ![f].verdict = verdict, ![f].fix = fix]

\* finding::resolve, refused for a finding that has its verdict.
WriteVerdict(f, verdict, fix) ==
  /\ findings[f].verdict = "none"
  /\ findings' = [findings EXCEPT ![f].verdict = verdict, ![f].fix = fix]

\* Finding::from_record: a fix task with a task verdict, and with no other;
\* require_task: it exists.
Consistent(verdict, fix) ==
  (verdict = "task" /\ fix \in Task) \/ (verdict = "dropped" /\ fix = 0)

\* The verdict is committed and, unless the answer is lost, the lead takes the
\* finding off its map; or the command is refused or killed.
EndResolve ==
  /\ resolver # 0 /\ resolver' = 0
  /\ \/ /\ \E verdict \in {"task", "dropped"}, fix \in Scope :
             Consistent(verdict, fix) /\ WriteVerdict(resolver, verdict, fix)
        /\ \/ lead' = [lead EXCEPT !.unresolved = @ \ {resolver}]
           \/ UNCHANGED lead
     \/ UNCHANGED <<findings, lead>>
  /\ UNCHANGED <<observations, writers, answer>>

-----------------------------------------------------------------------------
Next ==
  \/ \E w \in Writers : Observe(w) \/ CommitObserve(w) \/ KillWriter(w)
  \/ Register
  \/ \E scope \in Scope : Poll(scope) \/ Receive(scope)
  \/ LoseAnswer \/ LoseMap \/ Resolve \/ EndResolve

Spec == Init /\ [][Next]_vars

\* A command that was started ends.  The lead polls the run as long as it
\* lasts, and not every answer is lost.
FairSpec ==
  /\ Spec
  /\ \A w \in Writers : WF_vars(CommitObserve(w))
  /\ WF_vars(EndResolve) /\ WF_vars(LoseAnswer \/ \E scope \in Scope : Receive(scope))
  /\ SF_vars(Poll(0)) /\ SF_vars(Receive(0))

-----------------------------------------------------------------------------
(* Properties *)

\* "This advances past delivered observations" (SKILL.md:81), and past no
\* other: what the cursor has passed was delivered, also what was being
\* written while the lead polled.
NoneOmitted ==
  \A scope \in Scope, i \in DOMAIN observations :
    /\ observations[i].id <= lead.cursor[scope]
    /\ Belongs(observations[i], scope)
    => observations[i].id \in lead.delivered[scope]

\* ... "so they are not repeated": an answer the lead reads holds nothing it
\* has read before.
NoneRepeated ==
  answer.pending => answer.read.observations \cap lead.delivered[answer.scope] = {}

\* A verdict is final, and names a fix task exactly when there is one: a
\* resolve whose answer was lost and that is tried again changes nothing.
VerdictsAreFinal ==
  [][\A f \in DOMAIN findings :
       /\ findings[f].verdict # "none" => findings'[f] = findings[f]
       /\ findings'[f].verdict = "task" <=> findings'[f].fix \in Task]_vars

Open == {f \in DOMAIN findings : findings[f].verdict = "none"}

\* "findings are returned again on every poll while unresolved by design"
\* (SKILL.md:83): a finding reaches the lead's map however often answers and
\* maps are lost.
FindingsReachTheLead ==
  \A f \in FindingId : f \in Open ~> (f \in lead.unresolved \/ f \notin Open)

\* Every observation reaches a lead that keeps polling the run, however many
\* answers are lost.
ObservationsReachTheLead ==
  \A id \in ObservationId : id \in Committed ~> id \in lead.delivered[0]

\* What commentators write reaches the lead: findings into its map, observations
\* by the cursor.
ReviewsReachTheLead == FindingsReachTheLead /\ ObservationsReachTheLead
=============================================================================
