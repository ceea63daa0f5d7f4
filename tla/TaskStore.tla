------------------------------ MODULE TaskStore ------------------------------
(***************************************************************************)
(* One row of the tasks table with its event log, and the transitions the  *)
(* store allows on it: src/domain/task.rs says what a row may look like,   *)
(* src/persistence/task.rs is the only writer.                             *)
(*                                                                         *)
(* A transition is an operator from a row to the SET of rows it may leave: *)
(* one row when it succeeds, the empty set when the code returns an error  *)
(* and the caller's transaction is rolled back.                            *)
(*                                                                         *)
(* Ids and commits are naturals, 0 standing for SQL null.  The task text,  *)
(* its predicted size, its timestamps and its starting context size are    *)
(* data no transition looks at, and are left out.                          *)
(***************************************************************************)
EXTENDS Naturals, Sequences

CONSTANT Reasons            \* the texts a caller may pass as --reason

NoReason == "no reason"     \* a null reason column
GateReason == "checks passed"

ASSUME ReasonsAssumption == {NoReason, GateReason} \cap Reasons = {}

-----------------------------------------------------------------------------
(* The lifecycle: declaration order is progression order. *)

Rank == [drafted |-> 1, dispatched |-> 2, in_flight |-> 3,
         committed_unverified |-> 4, accepted |-> 5, aborted |-> 6]

TaskState == {"drafted", "dispatched", "in_flight",
              "committed_unverified", "accepted", "aborted"}

Terminal == {"accepted", "aborted"}

Flying == {"dispatched", "in_flight"}

\* requires_commit
Committed == {"committed_unverified", "accepted"}

\* Slip: a terminal state is left like any other.
CanMoveForward(from, to) == Rank[from] < Rank[to]

CanTransition(from, to) == from \notin Terminal /\ Rank[from] < Rank[to]

-----------------------------------------------------------------------------
Event == [state : TaskState, reason : Reasons \cup {NoReason, GateReason}]

\* offset: the transcript's length when the prompt was sent.
\* base: where HEAD stood then.
Row == [events : Seq(Event), session : Nat, commit : Nat, base : Nat,
        offset : Nat, retryOf : Nat, requested : BOOLEAN, delivered : BOOLEAN]

NoRow == [events |-> <<>>, session |-> 0, commit |-> 0, base |-> 0,
          offset |-> 0, retryOf |-> 0, requested |-> FALSE, delivered |-> FALSE]

Exists(row) == row.events # <<>>
StateOf(row) == row.events[Len(row.events)].state
ReasonOf(row) == row.events[Len(row.events)].reason

AwaitsCommentary(row) ==
  /\ Exists(row)
  /\ StateOf(row) \in Committed
  /\ row.commit # 0
  /\ ~row.delivered

ValidEvents(events) ==
  /\ events # <<>>
  /\ events[1].state = "drafted"
  /\ \A i \in 1..(Len(events) - 1) :
       CanTransition(events[i].state, events[i + 1].state)

\* What Task::new demands of the row with id t; a row that fails it cannot be
\* read back, and the write that made it is rolled back.
Valid(t, row) ==
  /\ row.retryOf # t
  /\ ValidEvents(row.events)
  /\ StateOf(row) \notin {"drafted", "aborted"} => row.session # 0
  /\ StateOf(row) \in Committed => row.commit # 0
  /\ row.requested \/ row.delivered => row.commit # 0

-----------------------------------------------------------------------------
Log(row, state, reason) ==
  [row EXCEPT !.events = Append(@, [state |-> state, reason |-> reason])]

\* create: an insert, the drafted event, and the read that validates both.
Create(t, retryOf) ==
  {row \in {Log([NoRow EXCEPT !.retryOf = retryOf], "drafted", NoReason)} :
     Valid(t, row)}

\* Advancing to the state the row is in already writes nothing, and is an
\* error unless the reason and the facts are those recorded.
Advance(t, row, next, reason, sameFacts, mutated) ==
  IF StateOf(row) = next
  THEN {same \in {row} : ReasonOf(row) = reason /\ sameFacts}
  ELSE {moved \in {Log(mutated, next, reason)} :
          CanTransition(StateOf(row), next) /\ Valid(t, moved)}

Dispatch(t, row, session, offset, base, reason) ==
  Advance(t, row, "dispatched", reason,
          row.session = session /\ row.offset = offset /\ row.base = base,
          [row EXCEPT !.session = session, !.offset = offset, !.base = base])

\* context_size_start is data: re-reading it before the same offset of an
\* append-only transcript gives the same value.
TakeFlight(t, row) == Advance(t, row, "in_flight", NoReason, TRUE, row)

\* Slip: recording the commit that is recorded already is an error.
RecordCommitOnce(t, row, commit, reason) ==
  Advance(t, row, "committed_unverified", reason, FALSE,
          [row EXCEPT !.commit = commit])

RecordCommit(t, row, commit, reason) ==
  Advance(t, row, "committed_unverified", reason, row.commit = commit,
          [row EXCEPT !.commit = commit])

Accept(t, row, reason) == Advance(t, row, "accepted", reason, TRUE, row)

Abort(t, row, reason) == Advance(t, row, "aborted", reason, TRUE, row)

\* The two commentary stamps are write-once: a second one leaves the row as it
\* is.  Neither may be put on a row without a commit.
ReadyForCommentary(row) == StateOf(row) \in Committed /\ row.commit # 0

\* Slip: the request is stamped in the delivery's column.
RequestAsDelivery(row) ==
  {stamped \in {[row EXCEPT !.delivered = TRUE]} : ReadyForCommentary(row)}

RecordRequest(row) ==
  {stamped \in {[row EXCEPT !.requested = TRUE]} : ReadyForCommentary(row)}

\* Slip: a second delivery is an error.
RecordDeliveryOnce(row) ==
  {stamped \in {[row EXCEPT !.delivered = TRUE]} : ReadyForCommentary(row) /\ ~row.delivered}

RecordDelivery(row) ==
  {stamped \in {[row EXCEPT !.delivered = TRUE]} : ReadyForCommentary(row)}
=============================================================================
