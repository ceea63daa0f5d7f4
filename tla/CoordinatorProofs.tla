-------------------------- MODULE CoordinatorProofs --------------------------
(***************************************************************************)
(* Theorems about Coordinator, for any number of commands, tasks, sessions *)
(* and commits, with and without crashes.                                  *)
(*                                                                         *)
(* IInv says what each process may still rely on of what it read earlier:  *)
(* the task it names exists, one it aborted stays aborted, a commit it is  *)
(* about to record is newer than the task's base, which no longer changes  *)
(* once the task left drafted, and a delivery it is about to stamp is of a *)
(* commit that was reviewed and can no longer be replaced.  None of the    *)
(* properties is inductive without it, since the writes come long after    *)
(* the reads that justify them.                                            *)
(***************************************************************************)
EXTENDS Coordinator, TLAPS

-----------------------------------------------------------------------------
(* What the transitions of TaskStore do to a row, for every row and every  *)
(* argument: which step of a task's life each is (Continues), that the row *)
(* it leaves can be read back, and when it cannot fail.                    *)

Reason == Reasons \cup {NoReason, GateReason}

\* Everything but the event log and the commentary stamps.
SameColumns(a, b) ==
  /\ a.session = b.session /\ a.commit = b.commit /\ a.base = b.base
  /\ a.offset = b.offset /\ a.retryOf = b.retryOf

\* Everything but the event log.
SameFacts(a, b) ==
  /\ SameColumns(a, b)
  /\ a.requested = b.requested /\ a.delivered = b.delivered

\* Everything but what a dispatch writes.
DispatchedOf(out, row) ==
  /\ out.session # 0 /\ out.base # 0
  /\ out.commit = row.commit /\ out.retryOf = row.retryOf
  /\ out.requested = row.requested /\ out.delivered = row.delivered

\* Everything but the commit.
CommittedOf(out, row) ==
  /\ out.session = row.session /\ out.base = row.base
  /\ out.offset = row.offset /\ out.retryOf = row.retryOf
  /\ out.requested = row.requested /\ out.delivered = row.delivered

\* Everything but one of the stamps.
StampedOf(out, row) ==
  /\ SameColumns(out, row) /\ out.events = row.events
  /\ \/ out.requested /\ out.delivered = row.delivered
     \/ out.delivered /\ out.requested = row.requested

\* The step of its life that takes a task's row to the next, if any.
Continues(row, out) ==
  /\ out \in Row /\ Exists(out)
  /\ \/ out = row
     \/ /\ StateOf(row) = "drafted" /\ StateOf(out) = "dispatched"
        /\ DispatchedOf(out, row)
     \/ /\ StateOf(row) = "dispatched" /\ StateOf(out) = "in_flight"
        /\ SameFacts(out, row)
     \/ /\ StateOf(row) \in Flying /\ StateOf(out) \in Committed
        /\ CommittedOf(out, row)
     \/ /\ StateOf(out) \in Terminal /\ CanTransition(StateOf(row), StateOf(out))
        /\ StateOf(out) = "accepted" => row.commit # 0
        /\ SameFacts(out, row)
     \/ StateOf(row) \in Committed /\ StampedOf(out, row)

-----------------------------------------------------------------------------
LEMMA StateOfExisting ==
  ASSUME NEW row \in Row, Exists(row)
  PROVE  StateOf(row) \in TaskState /\ Len(row.events) \in Nat \ {0}
  <1>1. row.events \in Seq(Event) /\ row.events # <<>>
    BY DEF Row, Exists
  <1>2. row.events[Len(row.events)] \in Event /\ Len(row.events) \in Nat \ {0}
    BY <1>1
  <1> QED
    BY <1>2 DEF StateOf, Event

\* One more event makes a row of a row, in the state and for the reason of the
\* event, and nothing else is touched.
LEMMA LogIsRow ==
  ASSUME NEW row \in Row, NEW state \in TaskState, NEW reason \in Reason
  PROVE  /\ Log(row, state, reason) \in Row
         /\ Exists(Log(row, state, reason))
         /\ StateOf(Log(row, state, reason)) = state
         /\ ReasonOf(Log(row, state, reason)) = reason
         /\ SameFacts(Log(row, state, reason), row)
  <1> DEFINE e == [state |-> state, reason |-> reason]
  <1>1. e \in Event
    BY DEF Event, Reason
  <1>2. row.events \in Seq(Event)
    BY DEF Row
  <1>3. /\ Append(row.events, e) \in Seq(Event)
        /\ Append(row.events, e) # <<>>
        /\ Len(Append(row.events, e)) = Len(row.events) + 1
        /\ Append(row.events, e)[Len(row.events) + 1] = e
    BY <1>1, <1>2
  <1>4. Log(row, state, reason).events = Append(row.events, e)
    BY DEF Log, Row
  <1>5. Log(row, state, reason) \in Row
    BY <1>3 DEF Log, Row
  <1> QED
    BY <1>3, <1>4, <1>5 DEF Log, Row, Exists, StateOf, ReasonOf, SameColumns, SameFacts

\* A valid log stays valid with one more event that may follow.
LEMMA LogIsValid ==
  ASSUME NEW row \in Row, NEW state \in TaskState, NEW reason \in Reason,
         ValidEvents(row.events), CanTransition(StateOf(row), state)
  PROVE  ValidEvents(Log(row, state, reason).events)
  <1> DEFINE e == [state |-> state, reason |-> reason]
             old == row.events
             new == Append(old, e)
  <1>1. e \in Event /\ e.state = state
    BY DEF Event, Reason
  <1>2. old \in Seq(Event) /\ old # <<>> /\ old[1].state = "drafted"
    BY DEF Row, ValidEvents
  <1>3. Log(row, state, reason).events = new
    BY DEF Log, Row
  <1>4. \A i \in 1..(Len(old) - 1) : CanTransition(old[i].state, old[i + 1].state)
    BY DEF ValidEvents
  <1>5. CanTransition(old[Len(old)].state, state)
    BY DEF StateOf
  <1> HIDE DEF e
  <1>6. /\ new # <<>> /\ Len(new) = Len(old) + 1 /\ Len(old) \in Nat \ {0}
        /\ \A i \in 1..Len(old) : new[i] = old[i]
        /\ new[Len(old) + 1] = e
    BY <1>1, <1>2
  <1> HIDE DEF old, new
  <1>7. ASSUME NEW i \in 1..(Len(new) - 1)
        PROVE  CanTransition(new[i].state, new[i + 1].state)
    <2>1. CASE i < Len(old)
      <3>1. i \in 1..(Len(old) - 1) /\ i \in 1..Len(old) /\ i + 1 \in 1..Len(old)
        BY <1>6, <2>1
      <3> QED
        BY <1>4, <1>6, <3>1
    <2>2. CASE i = Len(old)
      <3>1. i \in 1..Len(old)
        BY <1>6, <2>2
      <3> QED
        BY <1>1, <1>5, <1>6, <2>2, <3>1
    <2> QED
      BY <1>6, <2>1, <2>2
  <1>8. new[1].state = "drafted"
    <2>1. 1 \in 1..Len(old)
      BY <1>6
    <2> QED
      BY <1>2, <1>6, <2>1
  <1> QED
    BY <1>3, <1>6, <1>7, <1>8 DEF ValidEvents

\* An advance leaves the row alone that is in the state already, or moves it
\* there with the facts of the mutated row.
LEMMA AdvanceIsRow ==
  ASSUME NEW t, NEW row \in Row, NEW mutated \in Row, NEW next \in TaskState,
         NEW reason \in Reason, NEW sameFacts,
         NEW out \in Advance(t, row, next, reason, sameFacts, mutated)
  PROVE  /\ out \in Row
         /\ StateOf(out) = next /\ ReasonOf(out) = reason
         /\ \/ out = row
            \/ /\ Exists(out) /\ Valid(t, out)
               /\ CanTransition(StateOf(row), next)
               /\ SameFacts(out, mutated)
  BY LogIsRow DEF Advance

\* A readable row that may go there with those facts is readable once it did, so
\* the advance cannot fail.
LEMMA MovesOn ==
  ASSUME NEW t, NEW row \in Row, NEW mutated \in Row, NEW next \in TaskState,
         NEW reason \in Reason, Exists(row), Valid(t, row),
         mutated.events = row.events, mutated.retryOf = row.retryOf,
         CanTransition(StateOf(row), next),
         next \notin {"drafted", "aborted"} => mutated.session # 0,
         next \in Committed \/ mutated.requested \/ mutated.delivered => mutated.commit # 0
  PROVE  StateOf(row) # next /\ Valid(t, Log(mutated, next, reason))
  <1> DEFINE moved == Log(mutated, next, reason)
  <1>1. /\ moved \in Row /\ StateOf(moved) = next /\ SameFacts(moved, mutated)
    BY LogIsRow
  <1>2. StateOf(mutated) = StateOf(row) /\ ValidEvents(mutated.events)
    BY DEF StateOf, Valid
  <1>3. ValidEvents(moved.events)
    BY <1>2, LogIsValid
  <1> HIDE DEF moved
  <1>4. Valid(t, moved)
    BY <1>1, <1>3 DEF Valid, SameFacts, SameColumns
  <1>5. StateOf(row) # next
    BY StateOfExisting DEF CanTransition, TaskState, Rank
  <1> QED
    BY <1>4, <1>5 DEF moved

-----------------------------------------------------------------------------
(* What a reader may rely on, whichever step was taken. *)

LEMMA ContinuesKeeps ==
  ASSUME NEW row \in Row, NEW out, Exists(row), Continues(row, out)
  PROVE  /\ out.retryOf = row.retryOf
         /\ StateOf(row) \in Terminal => StateOf(out) = StateOf(row)
         /\ StateOf(row) # "drafted" =>
              StateOf(out) # "drafted" /\ out.base = row.base /\ out.session = row.session
         /\ StateOf(row) \notin {"drafted"} \cup Flying =>
              StateOf(out) \notin {"drafted"} \cup Flying /\ out.commit = row.commit
         /\ StateOf(out) = "drafted" => out = row
         /\ StateOf(out) \in Flying => out.commit = row.commit
         /\ out.delivered => row.delivered \/ StateOf(row) \in Committed
  <1>1. StateOf(row) \in TaskState
    BY StateOfExisting
  <1>2. CASE StampedOf(out, row) /\ StateOf(row) \in Committed
    <2>1. StateOf(out) = StateOf(row)
      BY <1>2 DEF StampedOf, StateOf
    <2> QED
      BY <1>2, <2>1 DEF StampedOf, SameColumns, Committed, Terminal, Flying
  <1>3. CASE /\ StateOf(out) \in Terminal /\ CanTransition(StateOf(row), StateOf(out))
             /\ SameFacts(out, row)
    BY <1>3 DEF CanTransition, SameFacts, SameColumns, Terminal, Flying
  <1>4. CASE /\ StateOf(row) \in Flying /\ StateOf(out) \in Committed
             /\ CommittedOf(out, row)
    BY <1>4 DEF CommittedOf, Terminal, Flying, Committed
  <1>5. CASE /\ StateOf(row) = "dispatched" /\ StateOf(out) = "in_flight"
             /\ SameFacts(out, row)
    BY <1>5 DEF SameFacts, SameColumns, Terminal, Flying
  <1>6. CASE /\ StateOf(row) = "drafted" /\ StateOf(out) = "dispatched"
             /\ DispatchedOf(out, row)
    BY <1>6 DEF DispatchedOf, Terminal, Flying
  <1>7. CASE out = row
    BY <1>7 DEF Committed
  <1> QED
    BY <1>2, <1>3, <1>4, <1>5, <1>6, <1>7 DEF Continues

-----------------------------------------------------------------------------
(* The transitions one by one. *)

LEMMA NoRowIsRow == NoRow \in Row /\ ~Exists(NoRow)
  <1>1. <<>> \in Seq(Event)
    OBVIOUS
  <1> QED
    BY <1>1 DEF NoRow, Row, Exists

LEMMA CreateIsRow ==
  ASSUME NEW t, NEW retryOf \in Nat, NEW out \in Create(t, retryOf)
  PROVE  /\ out \in Row /\ Exists(out) /\ StateOf(out) = "drafted" /\ Valid(t, out)
         /\ out.retryOf = retryOf /\ out.session = 0 /\ out.commit = 0 /\ out.base = 0
         /\ ~out.requested /\ ~out.delivered
  <1> DEFINE blank == [NoRow EXCEPT !.retryOf = retryOf]
  <1>1. /\ blank \in Row /\ blank.retryOf = retryOf /\ blank.session = 0
        /\ blank.commit = 0 /\ blank.base = 0 /\ ~blank.requested /\ ~blank.delivered
    BY NoRowIsRow DEF NoRow, Row
  <1>2. out = Log(blank, "drafted", NoReason) /\ Valid(t, out)
    BY DEF Create
  <1>3. "drafted" \in TaskState /\ NoReason \in Reason
    BY DEF TaskState, Reason
  <1> HIDE DEF blank
  <1> QED
    BY <1>1, <1>2, <1>3, LogIsRow DEF SameFacts, SameColumns

LEMMA DispatchContinues ==
  ASSUME NEW t, NEW row \in Row, NEW session \in Nat, NEW offset \in Nat,
         NEW base \in Nat \ {0}, NEW reason \in Reason, Exists(row),
         NEW out \in Dispatch(t, row, session, offset, base, reason)
  PROVE  /\ Continues(row, out)
         /\ \/ out = row
            \/ /\ StateOf(row) = "drafted" /\ Valid(t, out)
               /\ out.session = session /\ out.offset = offset /\ out.base = base
         /\ StateOf(out) = "dispatched"
  <1> DEFINE given == [row EXCEPT !.session = session, !.offset = offset, !.base = base]
  <1>1. /\ given \in Row /\ given.retryOf = row.retryOf /\ given.commit = row.commit
        /\ given.session = session /\ given.base = base /\ given.offset = offset
        /\ given.requested = row.requested /\ given.delivered = row.delivered
    BY DEF Row
  <1>2. "dispatched" \in TaskState
    BY DEF TaskState
  <1>3. /\ out \in Row /\ StateOf(out) = "dispatched"
        /\ \/ out = row
           \/ /\ Exists(out) /\ Valid(t, out) /\ CanTransition(StateOf(row), "dispatched")
              /\ SameFacts(out, given)
    <2> HIDE DEF given
    <2>1. out \in Advance(t, row, "dispatched", reason,
            row.session = session /\ row.offset = offset /\ row.base = base, given)
      BY DEF Dispatch, given
    <2> QED
      BY <1>1, <1>2, <2>1, AdvanceIsRow
  <1>4. CanTransition(StateOf(row), "dispatched") => StateOf(row) = "drafted"
    BY StateOfExisting DEF CanTransition, TaskState, Terminal, Rank
  <1>5. Valid(t, out) => out.session # 0
    BY <1>3 DEF Valid
  <1> HIDE DEF given
  <1> QED
    BY <1>1, <1>3, <1>4, <1>5 DEF Continues, DispatchedOf, SameFacts, SameColumns

\* Recording moves a flying task only, or leaves it as it was recorded already.
LEMMA RecordCommitContinues ==
  ASSUME NEW t, NEW row \in Row, NEW commit \in Nat, NEW reason \in Reason, Exists(row),
         StateOf(row) # "drafted", NEW out \in RecordCommit(t, row, commit, reason)
  PROVE  /\ Continues(row, out)
         /\ StateOf(out) = "committed_unverified" /\ ReasonOf(out) = reason
         /\ \/ out = row
            \/ /\ StateOf(row) \in Flying /\ Valid(t, out) /\ CommittedOf(out, row)
               /\ out.commit = commit
  <1> DEFINE given == [row EXCEPT !.commit = commit]
  <1>1. /\ given \in Row /\ given.retryOf = row.retryOf /\ given.base = row.base
        /\ given.commit = commit /\ given.session = row.session
        /\ given.offset = row.offset
        /\ given.requested = row.requested /\ given.delivered = row.delivered
    BY DEF Row
  <1>2. "committed_unverified" \in TaskState
    BY DEF TaskState
  <1>3. /\ out \in Row /\ StateOf(out) = "committed_unverified" /\ ReasonOf(out) = reason
        /\ \/ out = row
           \/ /\ Exists(out) /\ Valid(t, out)
              /\ CanTransition(StateOf(row), "committed_unverified")
              /\ SameFacts(out, given)
    <2> HIDE DEF given
    <2>1. out \in Advance(t, row, "committed_unverified", reason,
                          row.commit = commit, given)
      BY DEF RecordCommit, given
    <2> QED
      BY <1>1, <1>2, <2>1, AdvanceIsRow
  <1>4. CanTransition(StateOf(row), "committed_unverified") => StateOf(row) \in Flying
    BY StateOfExisting DEF CanTransition, TaskState, Terminal, Rank, Flying
  <1> HIDE DEF given
  <1> QED
    BY <1>1, <1>3, <1>4 DEF Continues, CommittedOf, SameFacts, SameColumns, Committed

LEMMA TakeFlightContinues ==
  ASSUME NEW t, NEW row \in Row, Exists(row), StateOf(row) # "drafted",
         NEW out \in TakeFlight(t, row)
  PROVE  /\ Continues(row, out) /\ SameFacts(out, row)
         /\ StateOf(out) = "in_flight" /\ ReasonOf(out) = NoReason
         /\ out = row \/ Valid(t, out)
  <1>1. out \in Advance(t, row, "in_flight", NoReason, TRUE, row)
    BY DEF TakeFlight
  <1>2. "in_flight" \in TaskState /\ NoReason \in Reason
    BY DEF TaskState, Reason
  <1>3. CanTransition(StateOf(row), "in_flight") => StateOf(row) = "dispatched"
    BY StateOfExisting DEF CanTransition, TaskState, Terminal, Rank
  <1>4. /\ out \in Row /\ StateOf(out) = "in_flight" /\ ReasonOf(out) = NoReason
        /\ \/ out = row
           \/ /\ Exists(out) /\ Valid(t, out) /\ CanTransition(StateOf(row), "in_flight")
              /\ SameFacts(out, row)
    BY <1>1, <1>2, LogIsRow DEF Advance
  <1> QED
    BY <1>3, <1>4 DEF Continues, SameFacts, SameColumns

\* Both verdicts.
LEMMA JudgeContinues ==
  ASSUME NEW t, NEW row \in Row, NEW verdict \in Terminal, NEW reason \in Reason, Exists(row),
         NEW out \in Advance(t, row, verdict, reason, TRUE, row)
  PROVE  /\ Continues(row, out) /\ SameFacts(out, row)
         /\ StateOf(out) = verdict
         /\ out = row \/ Valid(t, out)
  <1>1. verdict \in TaskState
    BY DEF TaskState, Terminal
  <1>2. /\ out \in Row /\ StateOf(out) = verdict
        /\ \/ out = row
           \/ /\ Exists(out) /\ Valid(t, out) /\ CanTransition(StateOf(row), verdict)
              /\ SameFacts(out, row)
    BY <1>1, LogIsRow DEF Advance
  <1>3. Valid(t, out) /\ StateOf(out) = "accepted" => out.commit # 0
    BY DEF Valid, Committed
  <1> QED
    BY <1>2, <1>3 DEF Continues, SameFacts, SameColumns

\* A commit recorded and judged good in one transaction.
LEMMA RecordAndAcceptContinues ==
  ASSUME NEW t, NEW row \in Row, NEW commit \in Nat, Exists(row), StateOf(row) # "drafted",
         NEW recorded \in RecordCommit(t, row, commit, NoReason),
         NEW out \in Accept(t, recorded, GateReason)
  PROVE  /\ Continues(row, out)
         /\ StateOf(out) = "accepted" /\ Valid(t, out)
         /\ SameFacts(out, recorded)
         /\ \/ recorded = row
            \/ StateOf(row) \in Flying /\ CommittedOf(out, row) /\ out.commit = commit
  <1>1. NoReason \in Reason /\ GateReason \in Reason /\ "accepted" \in Terminal
    BY DEF Reason, Terminal
  <1>2. /\ recorded \in Row /\ Exists(recorded) /\ StateOf(recorded) = "committed_unverified"
        /\ \/ recorded = row
           \/ /\ StateOf(row) \in Flying /\ CommittedOf(recorded, row)
              /\ recorded.commit = commit
    BY <1>1, RecordCommitContinues DEF Continues
  <1>3. /\ Continues(recorded, out) /\ SameFacts(out, recorded) /\ StateOf(out) = "accepted"
        /\ out = recorded \/ Valid(t, out)
    BY <1>1, <1>2, JudgeContinues DEF Accept
  <1>4. Valid(t, out)
    BY <1>2, <1>3
  <1> QED
    BY <1>2, <1>3, <1>4 DEF Continues, CommittedOf, SameFacts, SameColumns, Committed

LEMMA StampContinues ==
  ASSUME NEW row \in Row, Exists(row), NEW out \in RecordRequest(row) \cup RecordDelivery(row)
  PROVE  /\ Continues(row, out) /\ SameColumns(out, row)
         /\ StateOf(out) = StateOf(row) /\ ReasonOf(out) = ReasonOf(row)
         /\ \A t : Valid(t, row) => Valid(t, out)
         /\ out \in RecordDelivery(row) \/ out.delivered = row.delivered
  <1>1. /\ out \in Row /\ out.events = row.events
        /\ StampedOf(out, row) /\ SameColumns(out, row)
        /\ StateOf(row) \in Committed /\ row.commit # 0
        /\ out \in RecordDelivery(row) \/ out.delivered = row.delivered
    BY DEF RecordRequest, RecordDelivery, Row, ReadyForCommentary, SameColumns, StampedOf
  <1>2. Exists(out) /\ StateOf(out) = StateOf(row) /\ ReasonOf(out) = ReasonOf(row)
    BY <1>1 DEF Exists, StateOf, ReasonOf
  <1> QED
    BY <1>1, <1>2 DEF Continues, SameColumns, Valid, Committed

-----------------------------------------------------------------------------
(* When a transition cannot fail. *)

LEMMA TakeFlightSucceeds ==
  ASSUME NEW t, NEW row \in Row, Exists(row), Valid(t, row), StateOf(row) = "dispatched"
  PROVE  TakeFlight(t, row) # {}
  <1>1. /\ "in_flight" \in TaskState \ Committed /\ NoReason \in Reason
        /\ CanTransition(StateOf(row), "in_flight")
    BY DEF TaskState, Committed, Reason, CanTransition, Terminal, Rank
  <1>2. row.session # 0 /\ (row.requested \/ row.delivered => row.commit # 0)
    BY DEF Valid
  <1>3. StateOf(row) # "in_flight" /\ Valid(t, Log(row, "in_flight", NoReason))
    BY <1>1, <1>2, MovesOn
  <1> QED
    BY <1>1, <1>3 DEF TakeFlight, Advance

LEMMA RecordCommitSucceeds ==
  ASSUME NEW t, NEW row \in Row, NEW commit \in Nat \ {0}, Exists(row), Valid(t, row),
         \/ StateOf(row) \in Flying
         \/ /\ StateOf(row) = "committed_unverified" /\ ReasonOf(row) = NoReason
            /\ row.commit = commit
  PROVE  RecordCommit(t, row, commit, NoReason) # {}
  <1> DEFINE given == [row EXCEPT !.commit = commit]
  <1>1. CASE StateOf(row) \in Flying
    <2>1. /\ "committed_unverified" \in TaskState /\ NoReason \in Reason
          /\ CanTransition(StateOf(row), "committed_unverified")
      BY <1>1 DEF TaskState, Reason, CanTransition, Terminal, Rank, Flying
    <2>2. row.session # 0
      BY <1>1 DEF Valid, Flying
    <2>3. /\ given \in Row /\ given.events = row.events /\ given.retryOf = row.retryOf
          /\ given.session # 0 /\ given.commit # 0
      BY <2>2 DEF Row
    <2>4. /\ StateOf(row) # "committed_unverified"
          /\ Valid(t, Log(given, "committed_unverified", NoReason))
      <3> HIDE DEF given
      <3> QED
        BY <2>1, <2>3, MovesOn
    <2> QED
      BY <2>1, <2>4 DEF RecordCommit, Advance
  <1>2. CASE /\ StateOf(row) = "committed_unverified" /\ ReasonOf(row) = NoReason
             /\ row.commit = commit
    BY <1>2 DEF RecordCommit, Advance
  <1> QED
    BY <1>1, <1>2

LEMMA AcceptSucceeds ==
  ASSUME NEW t, NEW row \in Row, NEW reason \in Reason, Exists(row), Valid(t, row),
         StateOf(row) = "committed_unverified"
  PROVE  Accept(t, row, reason) # {}
  <1>1. /\ "accepted" \in TaskState /\ CanTransition(StateOf(row), "accepted")
    BY DEF TaskState, CanTransition, Terminal, Rank
  <1>2. row.session # 0 /\ row.commit # 0
    BY DEF Valid, Committed
  <1>3. StateOf(row) # "accepted" /\ Valid(t, Log(row, "accepted", reason))
    BY <1>1, <1>2, MovesOn
  <1> QED
    BY <1>1, <1>3 DEF Accept, Advance

LEMMA StampsSucceed ==
  ASSUME NEW t, NEW row \in Row, Exists(row), Valid(t, row), StateOf(row) \in Committed
  PROVE  RecordRequest(row) # {} /\ RecordDelivery(row) # {}
  BY DEF Valid, RecordRequest, RecordDelivery, ReadyForCommentary

-----------------------------------------------------------------------------
(* The inductive invariant *)

\* sha may be recorded as the commit of row, now and at any later time.
Beyond(sha, row) == StateOf(row) # "drafted" /\ sha > row.base

RowBound(row) ==
  /\ row.session \in SessionId \cup {0}
  /\ row.commit \in Commit \cup {0}
  /\ row.base \in Commit \cup {0}
  /\ row.commit # 0 => Beyond(row.commit, row) /\ StateOf(row) \notin Flying
  /\ row.session # 0 \/ row.base # 0 => StateOf(row) # "drafted"

\* Only record-commit --force leaves a reason on a task that is not yet judged.
ReasonBound(row) ==
  /\ StateOf(row) = "in_flight" => ReasonOf(row) = NoReason
  /\ "record-commit" \notin Commands /\ StateOf(row) = "committed_unverified" =>
       ReasonOf(row) = NoReason

\* Only record-commentary --force takes anyone's word.
DeliveryBound(row) ==
  "record-commentary" \notin Commands /\ row.delivered => row.commit \in mentioned

\* A row with a name is of an agent the runtime started, as is whatever
\* answers to the name.
SessionsBound ==
  \A s \in SessionId :
    /\ sessions[s].live => sessions[s].name \in Names
    /\ sessions[s].name \in Names =>
         sessions[s].agent \in Agent /\ runtime[sessions[s].name] \in Agent

Placed(c) ==
  /\ c.pc = "launching" =>
       /\ c.agent \in Agent /\ agents[c.agent].name \in Names
       /\ runtime[agents[c.agent].name] \in Agent
  /\ c.pc \notin {"idle", "launching"} => c.task \in TaskId /\ Exists(tasks[c.task])
  /\ c.pc \in {"check prior", "read offset", "read base", "prompt", "write dispatch"} =>
       c.session \in SessionId /\ sessions[c.session].name \in Names
  /\ c.pc \in {"prompt", "write dispatch"} => c.base \in Commit
  /\ c.pc = "interrupt" => c.session \in SessionId
  /\ c.pc \in {"gate", "write accept"} => Beyond(c.sha, tasks[c.task])
  /\ c.pc = "write forced commit" =>
       /\ "record-commit" \in Commands
       /\ StateOf(tasks[c.task]) # "drafted" /\ c.base = tasks[c.task].base
  /\ c.pc = "write forced commentary" => "record-commentary" \in Commands

CommandBound(c) ==
  /\ Placed(c)
  /\ c.pc \in {"interrupt", "create"} => StateOf(tasks[c.task]) = "aborted"

\* Where a task stays that was ever up for review.
Reviewable == Committed \cup {"aborted"}

\* Without record-commit --force nobody but the daemon itself moves a task it is
\* about to move, unless to a verdict.
DaemonBound(d) ==
  /\ d.pc \in {"write flight", "write commit"} =>
       d.task \in TaskId /\ Exists(tasks[d.task]) /\ StateOf(tasks[d.task]) # "drafted"
  /\ d.pc = "write flight" /\ "record-commit" \notin Commands =>
       StateOf(tasks[d.task]) \in {"dispatched"} \cup Terminal
  /\ d.pc = "write commit" => d.sha \in Commit /\ Beyond(d.sha, tasks[d.task])
  /\ d.pc = "write commit" /\ "record-commit" \notin Commands =>
       StateOf(tasks[d.task]) \in {"in_flight"} \cup Terminal
  /\ d.pc \in {"write delivery", "write request"} =>
       d.task \in TaskId /\ Exists(tasks[d.task]) /\ StateOf(tasks[d.task]) \in Reviewable
  /\ d.pc = "write delivery" => tasks[d.task].commit \in mentioned
  /\ \A t \in d.pending : Exists(tasks[t]) /\ StateOf(tasks[t]) \in Reviewable

\* Every row of the table can be read back.
RowsAreValid ==
  \A t \in TaskId : Exists(tasks[t]) => Valid(t, tasks[t]) /\ ReasonBound(tasks[t])

IInv ==
  /\ TypeOK
  /\ \A t \in TaskId : RowBound(tasks[t]) /\ DeliveryBound(tasks[t])
  /\ RowsAreValid
  /\ RetryOfAborted
  /\ SessionsBound
  /\ \A p \in Procs : CommandBound(cli[p])
  /\ DaemonBound(daemon)

-----------------------------------------------------------------------------
(* The three ways a step changes what IInv speaks of. *)

\* A row as task new inserts it.
Drafted(row) ==
  /\ row \in Row /\ Exists(row) /\ StateOf(row) = "drafted"
  /\ row.session = 0 /\ row.commit = 0 /\ row.base = 0
  /\ ~row.requested /\ ~row.delivered
  /\ row.retryOf # 0 => row.retryOf \in TaskId /\ InState(row.retryOf, {"aborted"})

\* A row that may take the place of the one at t.
Succeeds(t, row) ==
  /\ RowBound(row) /\ DeliveryBound(row) /\ Valid(t, row) /\ ReasonBound(row)
  /\ IF Exists(tasks[t]) THEN Continues(tasks[t], row) ELSE Drafted(row)

\* One task's row is replaced, or none is.
TasksStep ==
  \/ UNCHANGED tasks
  \/ \E t \in TaskId : \E row \in Row : Succeeds(t, row) /\ SetTask(t, row)

LEMMA SucceedsIsRow ==
  ASSUME NEW t \in TaskId, NEW row, Succeeds(t, row)
  PROVE  row \in Row /\ Exists(row)
  BY DEF Succeeds, Continues, Drafted

\* What a row keeps of its predecessor.
LEMMA SuccessorKeeps ==
  ASSUME IInv, NEW t \in TaskId, Exists(tasks[t]), NEW row, Continues(tasks[t], row)
  PROVE  /\ row.retryOf = tasks[t].retryOf
         /\ StateOf(tasks[t]) = "aborted" => StateOf(row) = "aborted"
         /\ StateOf(tasks[t]) \in Terminal => StateOf(row) \in Terminal
         /\ StateOf(tasks[t]) # "drafted" =>
              /\ StateOf(row) # "drafted"
              /\ row.base = tasks[t].base /\ row.session = tasks[t].session
         /\ StateOf(tasks[t]) \in Reviewable =>
              StateOf(row) \in Reviewable /\ row.commit = tasks[t].commit
  <1>1. tasks[t] \in Row
    BY DEF IInv, TypeOK
  <1>2. row \in Row /\ Exists(row)
    BY DEF Continues
  <1>3. StateOf(row) \in TaskState
    BY <1>2, StateOfExisting
  <1> QED
    BY <1>1, <1>3, ContinuesKeeps
    DEF Terminal, Reviewable, Committed, Flying, TaskState

\* What was true of a task the processes rely on stays true.
LEMMA TasksStepKeeps ==
  ASSUME IInv, TasksStep
  PROVE  /\ tasks' \in [TaskId -> Row]
         /\ \A t \in TaskId : RowBound(tasks'[t])
         /\ UNCHANGED mentioned => \A t \in TaskId : DeliveryBound(tasks[t])'
         /\ RowsAreValid'
         /\ \A t \in TaskId : Exists(tasks[t]) =>
              /\ Exists(tasks'[t])
              /\ StateOf(tasks[t]) = "aborted" => StateOf(tasks'[t]) = "aborted"
              /\ StateOf(tasks[t]) \in Terminal => StateOf(tasks'[t]) \in Terminal
              /\ StateOf(tasks[t]) # "drafted" =>
                   StateOf(tasks'[t]) # "drafted" /\ tasks'[t].base = tasks[t].base
              /\ StateOf(tasks[t]) \in Reviewable =>
                   /\ StateOf(tasks'[t]) \in Reviewable
                   /\ tasks'[t].commit = tasks[t].commit
         /\ RetryOfAborted'
  <1>0. tasks \in [TaskId -> Row] /\ RetryOfAborted /\ RowsAreValid
    BY DEF IInv, TypeOK
  <1>1. CASE UNCHANGED tasks
    <2>1. RetryOfAborted' /\ RowsAreValid'
      BY <1>0, <1>1 DEF RetryOfAborted, InState, RowsAreValid
    <2>2. UNCHANGED mentioned => \A t \in TaskId : DeliveryBound(tasks[t])'
      BY <1>1 DEF IInv, DeliveryBound
    <2> QED
      BY <1>0, <1>1, <2>1, <2>2 DEF IInv
  <1>2. CASE \E t \in TaskId : \E row \in Row : Succeeds(t, row) /\ SetTask(t, row)
    <2>1. PICK t \in TaskId, row \in Row : Succeeds(t, row) /\ SetTask(t, row)
      BY <1>2
    <2>2. /\ tasks'[t] = row
          /\ \A u \in TaskId \ {t} : tasks'[u] = tasks[u]
          /\ tasks' \in [TaskId -> Row]
      BY <1>0, <2>1 DEF SetTask
    <2>3. \A u \in TaskId : RowBound(tasks'[u])
      BY <2>1, <2>2 DEF IInv, Succeeds
    <2>4. UNCHANGED mentioned => \A u \in TaskId : DeliveryBound(tasks[u])'
      BY <2>1, <2>2 DEF IInv, Succeeds, DeliveryBound
    <2>5. RowsAreValid'
      BY <1>0, <2>1, <2>2 DEF Succeeds, RowsAreValid
    <2>6. Exists(row) /\ (Exists(tasks[t]) => Continues(tasks[t], row))
      BY <2>1, SucceedsIsRow DEF Succeeds
    <2>7. Exists(tasks[t]) =>
            /\ row.retryOf = tasks[t].retryOf
            /\ StateOf(tasks[t]) = "aborted" => StateOf(row) = "aborted"
            /\ StateOf(tasks[t]) \in Terminal => StateOf(row) \in Terminal
            /\ StateOf(tasks[t]) # "drafted" =>
                 StateOf(row) # "drafted" /\ row.base = tasks[t].base
            /\ StateOf(tasks[t]) \in Reviewable =>
                 StateOf(row) \in Reviewable /\ row.commit = tasks[t].commit
      BY <2>6, SuccessorKeeps
    <2>8. ASSUME NEW u \in TaskId, tasks'[u].retryOf # 0
          PROVE  /\ tasks'[u].retryOf \in TaskId
                 /\ Exists(tasks'[tasks'[u].retryOf])
                 /\ StateOf(tasks'[tasks'[u].retryOf]) = "aborted"
      <3>1. PICK v \in TaskId : /\ tasks'[u].retryOf = v
                               /\ Exists(tasks[v]) /\ StateOf(tasks[v]) = "aborted"
        BY <1>0, <2>1, <2>2, <2>7, <2>8 DEF RetryOfAborted, Succeeds, Drafted, InState
      <3>2. Exists(tasks'[v]) /\ StateOf(tasks'[v]) = "aborted"
        BY <2>2, <2>6, <2>7, <3>1
      <3> QED
        BY <3>1, <3>2
    <2>9. RetryOfAborted'
      BY <2>8 DEF RetryOfAborted, InState
    <2> QED
      BY <2>2, <2>3, <2>4, <2>5, <2>6, <2>7, <2>9
  <1> QED
    BY <1>1, <1>2 DEF TasksStep

\* The lead's commands leave taking flight and recording a commit to the daemon,
\* all but record-commit --force.
LeadWrites(t, row) ==
  StateOf(row) \in {"in_flight", "committed_unverified"} =>
    StateOf(row) = StateOf(tasks[t]) \/ "record-commit" \in Commands

LeavesFlight == \A t \in TaskId : Exists(tasks[t]) => LeadWrites(t, tasks'[t])

LEMMA LeavesFlightOf ==
  ASSUME IInv, NEW t \in TaskId, NEW row, LeadWrites(t, row), SetTask(t, row)
  PROVE  LeavesFlight
  <1>1. \A u \in TaskId : tasks'[u] = IF u = t THEN row ELSE tasks[u]
    BY DEF IInv, TypeOK, SetTask
  <1> QED
    BY <1>1 DEF LeavesFlight, LeadWrites

\* A command moves from one place to the next, perhaps writing a row.
LEMMA CommandStep ==
  ASSUME IInv, NEW p \in Procs, NEW c \in Command, Placed(c), Goto(p, c),
         c.pc \in {"interrupt", "create"} => StateOf(tasks'[c.task]) = "aborted",
         TasksStep, LeavesFlight, runlog' \subseteq TaskId,
         UNCHANGED <<sessions, world, daemon>>
  PROVE  IInv'
  <1> USE DEF world
  <1>1. TypeOK'
    BY TasksStepKeeps DEF IInv, TypeOK, Goto
  <1>2. SessionsBound'
    BY DEF IInv, SessionsBound
  <1>3. ASSUME NEW q \in Procs PROVE CommandBound(cli[q])'
    <2>1. Placed(cli'[q])
      BY DEF IInv, TypeOK, Goto, CommandBound
    <2>2. Placed(cli[q])'
      BY <2>1, TasksStepKeeps DEF Placed, Beyond
    <2>3. cli'[q].pc \in {"interrupt", "create"} => StateOf(tasks'[cli'[q].task]) = "aborted"
      <3>1. CASE q = p
        BY <3>1 DEF IInv, TypeOK, Goto
      <3>2. CASE q # p
        <4>1. cli'[q] = cli[q] /\ CommandBound(cli[q])
          BY <3>2 DEF IInv, TypeOK, Goto
        <4> QED
          BY <4>1, TasksStepKeeps DEF CommandBound, Placed
      <3> QED
        BY <3>1, <3>2
    <2> QED
      BY <2>2, <2>3 DEF CommandBound
  <1>4. DaemonBound(daemon)'
    <2>1. daemon.pending \subseteq TaskId /\ DaemonBound(daemon) /\ daemon' = daemon
      BY DEF IInv, TypeOK, Daemon
    <2>2. \A t \in TaskId : Exists(tasks[t]) /\ "record-commit" \notin Commands =>
            /\ StateOf(tasks[t]) = "dispatched" => StateOf(tasks'[t]) \in {"dispatched"} \cup Terminal
            /\ StateOf(tasks[t]) = "in_flight" => StateOf(tasks'[t]) \in {"in_flight"} \cup Terminal
      <3>1. SUFFICES ASSUME NEW t \in TaskId, Exists(tasks[t]), "record-commit" \notin Commands,
                            StateOf(tasks[t]) \in Flying
                     PROVE  StateOf(tasks'[t]) \in {StateOf(tasks[t])} \cup Terminal
        BY DEF Flying
      <3>2. Exists(tasks'[t]) /\ tasks'[t] \in Row
        BY <3>1, TasksStepKeeps
      <3>3. StateOf(tasks'[t]) \in TaskState \ {"drafted"}
        BY <3>1, <3>2, StateOfExisting, TasksStepKeeps DEF Flying
      <3>4. StateOf(tasks'[t]) = "dispatched" => StateOf(tasks[t]) = "dispatched"
        <4>1. ASSUME NEW row \in Row, Continues(tasks[t], row), StateOf(row) = "dispatched"
              PROVE  StateOf(tasks[t]) = "dispatched"
          BY <3>1, <4>1 DEF Continues, Flying, Committed, Terminal
        <4>2. tasks'[t] = tasks[t] \/ Continues(tasks[t], tasks'[t])
          BY <3>1 DEF TasksStep, Succeeds, SetTask, IInv, TypeOK
        <4> QED
          BY <3>2, <4>1, <4>2
      <3> QED
        BY <3>1, <3>3, <3>4 DEF LeavesFlight, LeadWrites, TaskState, Terminal
    <2> QED
      BY <2>1, <2>2, TasksStepKeeps DEF DaemonBound, Beyond
  <1> QED
    BY <1>1, <1>2, <1>3, <1>4, TasksStepKeeps DEF IInv

\* The daemon does, and has no write ahead of it once it wrote.
LEMMA DaemonStepKeeps ==
  ASSUME IInv, NEW d \in Daemon, DaemonBound(d), daemon' = d, TasksStep,
         UNCHANGED tasks \/ d.pc \in {"visit", "commentary"},
         UNCHANGED <<sessions, runlog, world, cli>>
  PROVE  IInv' /\ TasksStep
  <1> USE DEF world
  <1>1. TypeOK'
    BY TasksStepKeeps DEF IInv, TypeOK
  <1>2. SessionsBound'
    BY DEF IInv, SessionsBound
  <1>3. ASSUME NEW q \in Procs PROVE CommandBound(cli[q])'
    <2>1. CommandBound(cli[q])
      BY DEF IInv
    <2> QED
      BY <2>1, TasksStepKeeps DEF CommandBound, Placed, Beyond
  <1>4. DaemonBound(daemon)'
    <2>1. d.pending \subseteq TaskId
      BY DEF Daemon
    <2>2. CASE UNCHANGED tasks
      BY <2>2 DEF DaemonBound
    <2>3. CASE d.pc \in {"visit", "commentary"}
      BY <2>1, <2>3, TasksStepKeeps DEF DaemonBound
    <2> QED
      BY <2>2, <2>3
  <1> QED
    BY <1>1, <1>2, <1>3, <1>4, TasksStepKeeps DEF IInv

\* The world outside moves on: agents keep their names, reviews are not taken back.
LEMMA WorldStep ==
  ASSUME IInv, UNCHANGED <<database, runtime, cli, daemon>>,
         agents' \in [Agent -> AgentState],
         \A e \in Agent : agents'[e].name = agents[e].name,
         git' \in Git, late' \subseteq Agent \X TaskId,
         mentioned \subseteq mentioned', mentioned' \subseteq Commit
  PROVE  IInv' /\ TasksStep
  <1> USE DEF database
  <1>1. TypeOK'
    BY DEF IInv, TypeOK
  <1>2. SessionsBound' /\ RetryOfAborted' /\ RowsAreValid'
    BY DEF IInv, SessionsBound, RetryOfAborted, InState, RowsAreValid
  <1>3. ASSUME NEW q \in Procs PROVE CommandBound(cli[q])'
    BY DEF IInv, CommandBound, Placed
  <1>4. DaemonBound(daemon)'
    BY DEF IInv, DaemonBound
  <1>5. \A t \in TaskId : RowBound(tasks[t])' /\ DeliveryBound(tasks[t])'
    BY DEF IInv, DeliveryBound
  <1> QED
    BY <1>1, <1>2, <1>3, <1>4, <1>5 DEF IInv, TasksStep

-----------------------------------------------------------------------------
LEMMA IdleBound == Idle \in Command /\ CommandBound(Idle) /\ Placed(Idle) /\ Idle.pc = "idle"
  BY DEF Idle, Command, CommandBound, Placed

LEMMA ReadsOnKeeps ==
  ASSUME IInv, NEW p \in Procs, NEW c \in Command, CommandBound(c), ReadsOn(p, c)
  PROVE  IInv' /\ TasksStep
  <1>1. TasksStep /\ runlog' \subseteq TaskId /\ Goto(p, c)
        /\ UNCHANGED <<sessions, world, daemon>>
    BY DEF IInv, TypeOK, ReadsOn, TasksStep, database
  <1>2. Placed(c) /\ (c.pc \in {"interrupt", "create"} => StateOf(tasks'[c.task]) = "aborted")
    BY DEF CommandBound, ReadsOn, database
  <1>3. LeavesFlight
    BY DEF LeavesFlight, LeadWrites, ReadsOn, database
  <1> QED
    BY <1>1, <1>2, <1>3, CommandStep

LEMMA RefusedKeeps ==
  ASSUME IInv, NEW p \in Procs, Refused(p)
  PROVE  IInv' /\ TasksStep
  BY ReadsOnKeeps, IdleBound DEF Refused, ReadsOn, Done

\* One row written by a command.
LEMMA WritesOne ==
  ASSUME IInv, NEW t \in TaskId, NEW row, Succeeds(t, row), LeadWrites(t, row), SetTask(t, row)
  PROVE  TasksStep /\ LeavesFlight
  <1>1. row \in Row
    BY SucceedsIsRow
  <1> QED
    BY <1>1, LeavesFlightOf DEF TasksStep

LEMMA TransactsKeeps ==
  ASSUME IInv, NEW p \in Procs, NEW t \in TaskId, NEW outcomes,
         \A row \in outcomes : Succeeds(t, row) /\ LeadWrites(t, row),
         Transacts(p, t, outcomes)
  PROVE  IInv' /\ TasksStep
  <1>1. CASE Refused(p)
    BY <1>1, RefusedKeeps
  <1>2. CASE /\ \E row \in outcomes : SetTask(t, row)
             /\ Done(p)
             /\ UNCHANGED <<sessions, runlog, world, daemon>>
    <2>1. TasksStep /\ LeavesFlight
      BY <1>2, WritesOne
    <2>2. runlog' \subseteq TaskId
      BY <1>2 DEF IInv, TypeOK
    <2> QED
      BY <1>2, <2>1, <2>2, CommandStep, IdleBound DEF Done
  <1> QED
    BY <1>1, <1>2 DEF Transacts

LEMMA ObservesKeeps ==
  ASSUME IInv, NEW d \in Daemon, DaemonBound(d), Observes(d)
  PROVE  IInv' /\ TasksStep
  BY DaemonStepKeeps DEF Observes, TasksStep, database

LEMMA DiesKeeps ==
  ASSUME IInv, Dies
  PROVE  IInv' /\ TasksStep
  <1> DEFINE dead == [Watching EXCEPT !.pc = "dead"]
  <1>1. dead \in Daemon /\ DaemonBound(dead)
    BY DEF Watching, Daemon, DaemonBound
  <1> QED
    BY <1>1, ObservesKeeps DEF Dies

LEMMA DaemonTransactsKeeps ==
  ASSUME IInv, daemon.task \in TaskId, NEW outcomes, NEW next \in Daemon,
         DaemonBound(next), next.pc \in {"visit", "commentary"},
         \A row \in outcomes : Succeeds(daemon.task, row),
         DaemonTransacts(outcomes, next)
  PROVE  IInv' /\ TasksStep
  <1>1. CASE Dies
    BY <1>1, DiesKeeps
  <1>2. CASE /\ \E row \in outcomes : SetTask(daemon.task, row)
             /\ daemon' = next
             /\ UNCHANGED <<sessions, runlog, world, cli>>
    <2>1. TasksStep
      BY <1>2, SucceedsIsRow DEF TasksStep
    <2> QED
      BY <1>2, <2>1, DaemonStepKeeps
  <1> QED
    BY <1>1, <1>2 DEF DaemonTransacts

-----------------------------------------------------------------------------
(* The rows that may take the place of a row, transition by transition. *)

LEMMA RowNow ==
  ASSUME IInv, NEW t \in TaskId, Exists(tasks[t])
  PROVE  /\ tasks[t] \in Row /\ RowBound(tasks[t]) /\ DeliveryBound(tasks[t])
         /\ Valid(t, tasks[t]) /\ ReasonBound(tasks[t])
         /\ StateOf(tasks[t]) \in TaskState
  <1>1. tasks[t] \in Row
    BY DEF IInv, TypeOK
  <1> QED
    BY <1>1, StateOfExisting DEF IInv, RowsAreValid

LEMMA SameRowSucceeds ==
  ASSUME IInv, NEW t \in TaskId, Exists(tasks[t])
  PROVE  Succeeds(t, tasks[t]) /\ LeadWrites(t, tasks[t])
  BY RowNow DEF Succeeds, Continues, LeadWrites

\* A row moved to a verdict or into flight, its facts as they were.
LEMMA MovedSucceeds ==
  ASSUME IInv, NEW t \in TaskId, Exists(tasks[t]), NEW row,
         Continues(tasks[t], row), SameFacts(row, tasks[t]),
         row = tasks[t] \/ Valid(t, row),
         \/ StateOf(row) \in Terminal
         \/ StateOf(row) = "in_flight" /\ ReasonOf(row) = NoReason
  PROVE  Succeeds(t, row)
  <1>1. /\ tasks[t] \in Row /\ RowBound(tasks[t]) /\ DeliveryBound(tasks[t])
        /\ Valid(t, tasks[t]) /\ StateOf(tasks[t]) \in TaskState
    BY RowNow
  <1>2. StateOf(tasks[t]) \notin {"drafted"} \cup Flying =>
          StateOf(row) \notin {"drafted"} \cup Flying
    BY <1>1, ContinuesKeeps
  <1>3. StateOf(row) \notin {"drafted", "committed_unverified"}
    BY DEF Terminal
  <1>4. RowBound(row)
    BY <1>1, <1>2, <1>3 DEF RowBound, Beyond, SameFacts, SameColumns
  <1>5. DeliveryBound(row)
    BY <1>1 DEF DeliveryBound, SameFacts, SameColumns
  <1>6. ReasonBound(row)
    BY <1>3 DEF ReasonBound, Terminal
  <1> QED
    BY <1>1, <1>4, <1>5, <1>6 DEF Succeeds

LEMMA VerdictSucceeds ==
  ASSUME IInv, NEW t \in TaskId, Exists(tasks[t]), NEW verdict \in Terminal,
         NEW reason \in Reason,
         NEW row \in Advance(t, tasks[t], verdict, reason, TRUE, tasks[t])
  PROVE  Succeeds(t, row) /\ LeadWrites(t, row) /\ StateOf(row) = verdict
  <1>1. /\ Continues(tasks[t], row) /\ SameFacts(row, tasks[t]) /\ StateOf(row) = verdict
        /\ row = tasks[t] \/ Valid(t, row)
    BY RowNow, JudgeContinues
  <1> QED
    BY <1>1, MovedSucceeds DEF LeadWrites, Terminal

\* A flying task has no commit, so nothing of it was delivered.
LEMMA FlyingIsBare ==
  ASSUME IInv, NEW t \in TaskId, Exists(tasks[t]), StateOf(tasks[t]) \in Flying
  PROVE  tasks[t].commit = 0 /\ ~tasks[t].delivered /\ ~tasks[t].requested
  BY RowNow DEF RowBound, Valid

\* A row with a commit that may be recorded.
LEMMA CommittedSucceeds ==
  ASSUME IInv, NEW t \in TaskId, Exists(tasks[t]), StateOf(tasks[t]) \in Flying,
         NEW row, Continues(tasks[t], row), CommittedOf(row, tasks[t]), Valid(t, row),
         row.commit \in Commit, Beyond(row.commit, tasks[t]),
         StateOf(row) \in Committed,
         \/ StateOf(row) = "accepted" \/ ReasonOf(row) = NoReason
         \/ "record-commit" \in Commands
  PROVE  Succeeds(t, row)
  <1>1. RowBound(tasks[t]) /\ ~tasks[t].delivered
    BY RowNow, FlyingIsBare
  <1>2. RowBound(row)
    BY <1>1 DEF RowBound, Beyond, CommittedOf, Committed, Flying
  <1>3. DeliveryBound(row) /\ ReasonBound(row)
    BY <1>1 DEF DeliveryBound, ReasonBound, CommittedOf, Committed
  <1> QED
    BY <1>2, <1>3 DEF Succeeds

LEMMA CommitSucceeds ==
  ASSUME IInv, NEW t \in TaskId, Exists(tasks[t]), NEW sha \in Commit \cup {0},
         Beyond(sha, tasks[t]), NEW reason \in Reason,
         reason = NoReason \/ "record-commit" \in Commands,
         NEW row \in RecordCommit(t, tasks[t], sha, reason)
  PROVE  Succeeds(t, row)
  <1>1. /\ RowBound(tasks[t]) /\ tasks[t] \in Row /\ sha \in Nat
        /\ StateOf(tasks[t]) # "drafted"
    BY RowNow DEF Commit, Beyond
  <1>2. sha \in Commit
    BY <1>1 DEF Beyond, RowBound, Commit
  <1>3. /\ Continues(tasks[t], row)
        /\ StateOf(row) = "committed_unverified" /\ ReasonOf(row) = reason
        /\ \/ row = tasks[t]
           \/ /\ StateOf(tasks[t]) \in Flying /\ Valid(t, row) /\ CommittedOf(row, tasks[t])
              /\ row.commit = sha
    BY <1>1, RecordCommitContinues
  <1> QED
    BY <1>2, <1>3, SameRowSucceeds, CommittedSucceeds DEF Committed

\* What the gate leaves: the commit recorded and the task accepted.
LEMMA GateSucceeds ==
  ASSUME IInv, NEW t \in TaskId, Exists(tasks[t]), NEW sha \in Commit \cup {0},
         Beyond(sha, tasks[t]), NEW row \in GateOutcome(t, tasks[t], sha)
  PROVE  Succeeds(t, row) /\ LeadWrites(t, row) /\ StateOf(row) = "accepted"
  <1>1. /\ RowBound(tasks[t]) /\ tasks[t] \in Row /\ sha \in Nat
        /\ StateOf(tasks[t]) # "drafted"
    BY RowNow DEF Commit, Beyond
  <1>2. sha \in Commit
    BY <1>1 DEF Beyond, RowBound, Commit
  <1>3. PICK recorded \in RecordCommit(t, tasks[t], sha, NoReason) :
          row \in Accept(t, recorded, GateReason)
    BY DEF GateOutcome
  <1>4. /\ Continues(tasks[t], row) /\ StateOf(row) = "accepted" /\ Valid(t, row)
        /\ SameFacts(row, recorded)
        /\ \/ recorded = tasks[t]
           \/ StateOf(tasks[t]) \in Flying /\ CommittedOf(row, tasks[t]) /\ row.commit = sha
    BY <1>1, <1>3, RecordAndAcceptContinues
  <1> QED
    BY <1>2, <1>4, MovedSucceeds, CommittedSucceeds DEF Committed, Terminal, LeadWrites

\* A stamp, of a delivery that was seen or is the lead's word.
LEMMA StampSucceeds ==
  ASSUME IInv, NEW t \in TaskId, Exists(tasks[t]),
         NEW row \in RecordRequest(tasks[t]) \cup RecordDelivery(tasks[t]),
         \/ row \in RecordRequest(tasks[t]) \/ "record-commentary" \in Commands
         \/ tasks[t].commit \in mentioned
  PROVE  Succeeds(t, row) /\ LeadWrites(t, row)
  <1>1. /\ tasks[t] \in Row /\ RowBound(tasks[t]) /\ DeliveryBound(tasks[t])
        /\ Valid(t, tasks[t]) /\ ReasonBound(tasks[t])
    BY RowNow
  <1>2. /\ Continues(tasks[t], row) /\ SameColumns(row, tasks[t])
        /\ StateOf(row) = StateOf(tasks[t]) /\ ReasonOf(row) = ReasonOf(tasks[t])
        /\ Valid(t, row)
    BY <1>1, StampContinues
  <1>3. row \in RecordRequest(tasks[t]) => row.delivered = tasks[t].delivered
    BY <1>1 DEF RecordRequest, Row
  <1>4. RowBound(row) /\ ReasonBound(row)
    BY <1>1, <1>2 DEF RowBound, Beyond, ReasonBound, SameColumns
  <1>5. DeliveryBound(row)
    BY <1>1, <1>2, <1>3 DEF DeliveryBound, SameColumns
  <1> QED
    BY <1>2, <1>4, <1>5 DEF Succeeds, LeadWrites

LEMMA DraftSucceeds ==
  ASSUME IInv, NEW t \in TaskId, ~Exists(tasks[t]), NEW retryOf \in TaskId \cup {0},
         retryOf # 0 => InState(retryOf, {"aborted"}), NEW row \in Create(t, retryOf)
  PROVE  Succeeds(t, row) /\ LeadWrites(t, row)
  <1>1. /\ row \in Row /\ Exists(row) /\ StateOf(row) = "drafted" /\ Valid(t, row)
        /\ row.retryOf = retryOf /\ row.session = 0 /\ row.commit = 0 /\ row.base = 0
        /\ ~row.requested /\ ~row.delivered
    BY CreateIsRow DEF TaskId
  <1>2. RowBound(row) /\ DeliveryBound(row) /\ ReasonBound(row)
    BY <1>1 DEF RowBound, DeliveryBound, ReasonBound
  <1> QED
    BY <1>1, <1>2 DEF Succeeds, Drafted, LeadWrites

LEMMA DispatchSucceeds ==
  ASSUME IInv, NEW t \in TaskId, Exists(tasks[t]), NEW s \in SessionId, NEW offset \in Nat,
         NEW base \in Commit, NEW reason \in Reason,
         NEW row \in Dispatch(t, tasks[t], s, offset, base, reason)
  PROVE  Succeeds(t, row) /\ LeadWrites(t, row)
  <1>1. s \in Nat /\ base \in Nat \ {0} /\ tasks[t] \in Row
    BY RowNow DEF SessionId, Commit
  <1>2. /\ Continues(tasks[t], row) /\ StateOf(row) = "dispatched"
        /\ \/ row = tasks[t]
           \/ /\ StateOf(tasks[t]) = "drafted" /\ Valid(t, row)
              /\ row.session = s /\ row.base = base
    BY <1>1, DispatchContinues
  <1>3. CASE row = tasks[t]
    BY <1>3, SameRowSucceeds
  <1>4. CASE row # tasks[t]
    <2>1. RowBound(tasks[t]) /\ StateOf(tasks[t]) = "drafted" /\ Valid(t, tasks[t])
      BY <1>2, <1>4, RowNow
    <2>2. tasks[t].commit = 0 /\ ~tasks[t].delivered
      BY <2>1 DEF RowBound, Beyond, Valid
    <2>3. row.commit = 0 /\ ~row.delivered
      BY <1>2, <1>4, <2>1, <2>2 DEF Continues, DispatchedOf, StampedOf, Committed, Flying, Terminal
    <2> QED
      BY <1>2, <1>4, <2>3
      DEF Succeeds, RowBound, DeliveryBound, ReasonBound, LeadWrites
  <1> QED
    BY <1>3, <1>4

LEMMA NewCommitBeyond ==
  ASSUME IInv, NEW t \in TaskId, NEW sha, IsNewCommit(sha, tasks[t])
  PROVE  Beyond(sha, tasks[t])
  BY DEF IInv, RowBound, IsNewCommit, Beyond

-----------------------------------------------------------------------------
(* Init, and the actions one by one. *)

LEMMA InitIInv == Init => IInv
  <1> SUFFICES ASSUME Init PROVE IInv
    OBVIOUS
  <1>1. TypeOK
    <2>1. 1 \in Commit
      <3>1. MaxCommits \in Nat \ {0}
        BY ConstantsAssumption DEF ConstantsAssumption
      <3> QED
        BY <3>1 DEF Commit
    <2>2. <<>> \in Seq(Line)
      OBVIOUS
    <2>3. NoAgent \in AgentState /\ NoSession \in SessionRow
      BY <2>2 DEF NoAgent, AgentState, NoSession, SessionRow
    <2>4. Watching \in Daemon /\ [head |-> 1, dirty |-> FALSE, trailers |-> {}] \in Git
      BY <2>1 DEF Watching, Daemon, Git
    <2> QED
      BY <2>3, <2>4, NoRowIsRow, IdleBound DEF Init, TypeOK
  <1>2. /\ \A t \in TaskId : RowBound(tasks[t]) /\ DeliveryBound(tasks[t])
        /\ RowsAreValid
    BY DEF Init, NoRow, RowBound, DeliveryBound, RowsAreValid, Exists
  <1>3. RetryOfAborted
    BY DEF Init, NoRow, RetryOfAborted
  <1>4. SessionsBound
    BY ConstantsAssumption DEF ConstantsAssumption, Init, SessionsBound, NoSession
  <1>5. \A p \in Procs : CommandBound(cli[p])
    BY IdleBound DEF Init
  <1>6. DaemonBound(daemon)
    BY DEF Init, Watching, DaemonBound
  <1> QED
    BY <1>1, <1>2, <1>3, <1>4, <1>5, <1>6 DEF IInv

LEMMA StartAgentKeeps ==
  ASSUME IInv, NEW p \in Procs, NEW n \in Names, StartAgent(p, n)
  PROVE  IInv' /\ TasksStep
  <1>1. PICK e \in Agent :
          /\ agents[e].name = "no session"
          /\ agents' = [agents EXCEPT ![e].name = n]
          /\ runtime' = [runtime EXCEPT ![n] = e]
          /\ Goto(p, [Idle EXCEPT !.pc = "launching", !.agent = e])
    BY DEF StartAgent
  <1>2. UNCHANGED <<tasks, sessions, runlog, git, late, mentioned, daemon>>
    BY DEF StartAgent, database
  <1> DEFINE c == [Idle EXCEPT !.pc = "launching", !.agent = e]
  <1>3. /\ c \in Command /\ c.pc = "launching" /\ c.agent = e
        /\ cli' = [cli EXCEPT ![p] = c]
    BY <1>1 DEF Idle, Command, Goto
  <1> HIDE DEF c
  <1>4. /\ agents \in [Agent -> AgentState] /\ runtime \in [Names -> Agent \cup {0}]
        /\ cli \in [Procs -> Command] /\ sessions \in [SessionId -> SessionRow]
    BY DEF IInv, TypeOK
  <1>5. /\ agents' \in [Agent -> AgentState]
        /\ agents'[e].name = n
        /\ \A d \in Agent \ {e} : agents'[d] = agents[d]
    BY <1>1, <1>4 DEF AgentState
  <1>6. /\ runtime' \in [Names -> Agent \cup {0}]
        /\ runtime'[n] \in Agent
        /\ \A m \in Names : runtime[m] \in Agent => runtime'[m] \in Agent
    BY <1>1, <1>4
  <1>7. TypeOK'
    BY <1>2, <1>3, <1>4, <1>5, <1>6 DEF IInv, TypeOK
  <1>8. SessionsBound'
    BY <1>2, <1>6 DEF IInv, SessionsBound
  <1>9. ASSUME NEW q \in Procs PROVE CommandBound(cli[q])'
    <2>1. CASE q = p
      <3>1. cli'[q] = c
        BY <1>3, <1>4, <2>1
      <3> QED
        BY <1>3, <1>5, <1>6, <3>1 DEF CommandBound, Placed
    <2>2. CASE q # p
      <3>1. cli'[q] = cli[q] /\ CommandBound(cli[q])
        BY <1>3, <1>4, <2>2 DEF IInv
      <3>2. "no session" \notin Names
        BY ConstantsAssumption DEF ConstantsAssumption
      <3>3. cli[q].pc = "launching" =>
              /\ cli[q].agent \in Agent \ {e}
              /\ agents'[cli[q].agent].name = agents[cli[q].agent].name
              /\ runtime'[agents[cli[q].agent].name] \in Agent
        <4>1. SUFFICES ASSUME cli[q].pc = "launching"
                       PROVE  /\ cli[q].agent \in Agent \ {e}
                              /\ agents'[cli[q].agent].name = agents[cli[q].agent].name
                              /\ runtime'[agents[cli[q].agent].name] \in Agent
          OBVIOUS
        <4>2. /\ cli[q].agent \in Agent /\ agents[cli[q].agent].name \in Names
              /\ runtime[agents[cli[q].agent].name] \in Agent
          BY <3>1, <4>1 DEF CommandBound, Placed
        <4>3. cli[q].agent # e
          BY <1>1, <3>2, <4>2
        <4> QED
          BY <1>5, <1>6, <4>2, <4>3
      <3> QED
        BY <1>2, <3>1, <3>3 DEF CommandBound, Placed
    <2> QED
      BY <2>1, <2>2
  <1> QED
    BY <1>2, <1>7, <1>8, <1>9
    DEF IInv, RetryOfAborted, RowsAreValid, DeliveryBound, InState, DaemonBound, TasksStep

LEMMA WriteLaunchKeeps ==
  ASSUME IInv, NEW p \in Procs, WriteLaunch(p)
  PROVE  IInv' /\ TasksStep
  <1> DEFINE a == cli[p].agent
             name == agents[a].name
             row == [name |-> name, agent |-> a, live |-> TRUE]
  <1>1. PICK s \in SessionId :
          sessions' = [r \in SessionId |->
            IF r = s THEN row
            ELSE [sessions[r] EXCEPT !.live = @ /\ sessions[r].name # name]]
    BY DEF WriteLaunch
  <1>2. /\ UNCHANGED <<tasks, runlog, runtime, agents, git, late, mentioned, daemon>>
        /\ cli' = [cli EXCEPT ![p] = Idle]
    BY DEF WriteLaunch, world, Done, Goto
  <1>3. a \in Agent /\ name \in Names /\ runtime[name] \in Agent
    BY DEF IInv, CommandBound, Placed, WriteLaunch
  <1>4. /\ sessions \in [SessionId -> SessionRow]
        /\ cli \in [Procs -> Command]
    BY DEF IInv, TypeOK
  <1> HIDE DEF a, name
  <1>5. \A r \in SessionId \ {s} :
          /\ sessions'[r] \in SessionRow
          /\ sessions'[r].name = sessions[r].name
          /\ sessions'[r].agent = sessions[r].agent
          /\ sessions'[r].live => sessions[r].live
    BY <1>1, <1>4 DEF SessionRow
  <1>6. /\ sessions'[s] \in SessionRow
        /\ sessions'[s].name = name /\ sessions'[s].agent = a
    BY <1>1, <1>3 DEF SessionRow
  <1>7. sessions' \in [SessionId -> SessionRow]
    BY <1>1, <1>5, <1>6
  <1>8. TypeOK'
    BY <1>2, <1>4, <1>7, IdleBound DEF IInv, TypeOK
  <1>9. SessionsBound'
    BY <1>2, <1>3, <1>5, <1>6 DEF IInv, SessionsBound
  <1>10. ASSUME NEW q \in Procs PROVE CommandBound(cli[q])'
    <2>1. CommandBound(cli'[q])
      BY <1>2, <1>4, IdleBound DEF IInv
    <2> QED
      BY <1>2, <1>3, <1>5, <1>6, <2>1 DEF CommandBound, Placed
  <1> QED
    BY <1>2, <1>8, <1>9, <1>10
    DEF IInv, RetryOfAborted, RowsAreValid, DeliveryBound, InState, DaemonBound, TasksStep

LEMMA CommandNow ==
  ASSUME IInv, NEW p \in Procs
  PROVE  cli[p] \in Command /\ CommandBound(cli[p])
  BY DEF IInv, TypeOK

\* task new
LEMMA NewKeeps ==
  ASSUME IInv, NEW p \in Procs, New(p)
  PROVE  IInv' /\ TasksStep
  <1>0. PICK t \in TaskId : IsFree(t) /\ \E row \in Create(t, 0) : SetTask(t, row)
    BY DEF New
  <1>1. PICK row \in Create(t, 0) : IsFree(t) /\ SetTask(t, row)
    BY <1>0
  <1>2. TasksStep /\ LeavesFlight
    BY <1>1, DraftSucceeds, WritesOne DEF IsFree
  <1>3. PICK c \in Command : c = cli[p] /\ c.pc = "idle"
    BY CommandNow DEF New, Starts
  <1>4. Goto(p, c) /\ Placed(c)
    BY <1>3, CommandNow DEF New, Goto, IInv, TypeOK, CommandBound
  <1>5. runlog' \subseteq TaskId /\ UNCHANGED <<sessions, world, daemon>>
    BY DEF New, IInv, TypeOK
  <1> QED
    BY <1>2, <1>3, <1>4, <1>5, CommandStep

LEMMA RetryKeeps ==
  ASSUME IInv, NEW p \in Procs, NEW t \in TaskId, Retry(p, t)
  PROVE  IInv' /\ TasksStep
  <1> DEFINE Going(pc) == [Idle EXCEPT !.pc = pc, !.task = t, !.superseding = TRUE]
  <1>1. ASSUME NEW pc \in {"abort", "create"}, Exists(tasks[t]),
               pc = "create" => StateOf(tasks[t]) = "aborted", ReadsOn(p, Going(pc))
        PROVE  IInv' /\ TasksStep
    <2>1. /\ Going(pc) \in Command /\ Going(pc).pc = pc /\ Going(pc).task = t
      BY DEF Idle, Command
    <2> HIDE DEF Going
    <2>2. CommandBound(Going(pc))
      BY <1>1, <2>1 DEF CommandBound, Placed
    <2> QED
      BY <1>1, <2>1, <2>2, ReadsOnKeeps
  <1>2. CASE InState(t, Flying) /\ ReadsOn(p, Going("abort"))
    BY <1>1, <1>2 DEF InState
  <1>3. CASE InState(t, {"aborted"}) /\ ReadsOn(p, Going("create"))
    BY <1>1, <1>3 DEF InState
  <1> QED
    BY <1>2, <1>3 DEF Retry

LEMMA CreateRetryKeeps ==
  ASSUME IInv, NEW p \in Procs, CreateRetry(p)
  PROVE  IInv' /\ TasksStep
  <1>1. CASE Refused(p)
    BY <1>1, RefusedKeeps
  <1>2. ASSUME NEW t \in TaskId, NEW row \in Create(t, cli[p].task),
               IsFree(t), SetTask(t, row), Done(p), UNCHANGED <<sessions, runlog, world, daemon>>
        PROVE  IInv' /\ TasksStep
    <2>1. /\ cli[p].task \in TaskId /\ Exists(tasks[cli[p].task])
          /\ StateOf(tasks[cli[p].task]) = "aborted"
      BY CommandNow DEF CreateRetry, CommandBound, Placed
    <2>2. TasksStep /\ LeavesFlight
      BY <1>2, <2>1, DraftSucceeds, WritesOne DEF IsFree, InState
    <2>3. runlog' \subseteq TaskId
      BY <1>2 DEF IInv, TypeOK
    <2> QED
      BY <1>2, <2>2, <2>3, IdleBound, CommandStep DEF Done
  <1> QED
    BY <1>1, <1>2 DEF CreateRetry

-----------------------------------------------------------------------------
\* abort
LEMMA AbortSnapshotKeeps ==
  ASSUME IInv, NEW p \in Procs, NEW t \in TaskId, NEW superseding \in BOOLEAN,
         AbortSnapshot(p, t, superseding)
  PROVE  IInv' /\ TasksStep
  <1> DEFINE s == SessionToTell(t)
             c == [Idle EXCEPT !.pc = "write abort", !.task = t,
                               !.session = s, !.superseding = superseding]
  <1>1. s \in SessionId \cup {0}
    BY DEF IInv, RowBound, SessionToTell
  <1>2. ReadsOn(p, c) /\ Exists(tasks[t])
    BY DEF AbortSnapshot, InState
  <1> HIDE DEF s
  <1>3. c \in Command /\ c.pc = "write abort" /\ c.task = t
    BY <1>1 DEF Idle, Command
  <1> HIDE DEF c
  <1>4. CommandBound(c)
    BY <1>2, <1>3 DEF CommandBound, Placed
  <1> QED
    BY <1>2, <1>3, <1>4, ReadsOnKeeps

LEMMA SupersedeKeeps ==
  ASSUME IInv, NEW p \in Procs, Supersede(p)
  PROVE  IInv' /\ TasksStep
  <1>1. cli[p].task \in TaskId
    BY CommandNow DEF Supersede, CommandBound, Placed
  <1> QED
    BY <1>1, AbortSnapshotKeeps, RefusedKeeps DEF Supersede

\* What AfterAbort makes of a command whose task is aborted.
LEMMA AfterAbortBound ==
  ASSUME IInv, NEW p \in Procs, NEW t \in TaskId, cli[p].task = t, AfterAbort(p)
  PROVE  \E c \in Command :
           /\ Goto(p, c) /\ c.pc \in {"idle", "create"}
           /\ c.pc = "create" => c.task = t
  <1> DEFINE created == [Idle EXCEPT !.pc = "create", !.task = t, !.superseding = TRUE]
  <1>1. created \in Command /\ created.pc = "create" /\ created.task = t
    BY DEF Idle, Command
  <1>2. Idle \in Command /\ Idle.pc = "idle"
    BY DEF Idle, Command
  <1>3. Goto(p, created) \/ Goto(p, Idle)
    BY DEF AfterAbort
  <1> HIDE DEF created
  <1> QED
    BY <1>1, <1>2, <1>3

LEMMA WriteAbortKeeps ==
  ASSUME IInv, NEW p \in Procs, WriteAbort(p)
  PROVE  IInv' /\ TasksStep
  <1> DEFINE t == cli[p].task
  <1>0. t \in TaskId /\ Exists(tasks[t]) /\ tasks[t] \in Row /\ cli[p] \in Command
    BY CommandNow DEF WriteAbort, CommandBound, Placed, IInv, TypeOK
  <1>1. PICK reason \in Reasons :
          \/ /\ \E row \in Abort(t, tasks[t], reason) : SetTask(t, row)
             /\ IF cli[p].session # 0
                THEN Goto(p, [cli[p] EXCEPT !.pc = "interrupt"])
                ELSE AfterAbort(p)
             /\ UNCHANGED <<sessions, runlog, world, daemon>>
          \/ Refused(p)
    BY DEF WriteAbort
  <1>2. CASE Refused(p)
    BY <1>2, RefusedKeeps
  <1>3. ASSUME NEW row \in Abort(t, tasks[t], reason), SetTask(t, row),
               IF cli[p].session # 0
               THEN Goto(p, [cli[p] EXCEPT !.pc = "interrupt"])
               ELSE AfterAbort(p),
               UNCHANGED <<sessions, runlog, world, daemon>>
        PROVE  IInv' /\ TasksStep
    <2>1. reason \in Reason
      BY DEF Reason
    <2>2. Succeeds(t, row) /\ LeadWrites(t, row) /\ StateOf(row) = "aborted"
      BY <1>0, <2>1, VerdictSucceeds DEF Abort, Terminal
    <2>3. TasksStep /\ LeavesFlight
      BY <1>0, <1>3, <2>2, WritesOne
    <2>4. runlog' \subseteq TaskId
      BY <1>3 DEF IInv, TypeOK
    <2>5. StateOf(tasks'[t]) = "aborted"
      BY <1>0, <1>3, <2>2 DEF SetTask, IInv, TypeOK
    <2>6. PICK c \in Command :
            /\ Goto(p, c) /\ c.pc \in {"idle", "interrupt", "create"}
            /\ c.pc # "idle" => c.task = t
            /\ c.pc = "interrupt" => c.session \in SessionId
      <3>1. CASE cli[p].session # 0
        <4> DEFINE d == [cli[p] EXCEPT !.pc = "interrupt"]
        <4>1. d \in Command /\ d.pc = "interrupt" /\ d.task = t /\ d.session \in SessionId
          BY <1>0, <3>1 DEF Command
        <4>2. Goto(p, d)
          BY <1>3, <3>1
        <4> HIDE DEF d
        <4> QED
          BY <4>1, <4>2
      <3>2. CASE cli[p].session = 0
        BY <1>0, <1>3, <3>2, AfterAbortBound
      <3> QED
        BY <3>1, <3>2
    <2>7. Placed(c) /\ (c.pc \in {"interrupt", "create"} => StateOf(tasks'[c.task]) = "aborted")
      BY <1>0, <2>5, <2>6 DEF Placed
    <2> QED
      BY <1>3, <2>3, <2>4, <2>6, <2>7, CommandStep
  <1> QED
    BY <1>1, <1>2, <1>3

LEMMA InterruptKeeps ==
  ASSUME IInv, NEW p \in Procs, Interrupt(p)
  PROVE  IInv' /\ TasksStep
  <1> DEFINE t == cli[p].task
             s == cli[p].session
             e == runtime[sessions[s].name]
  <1>1. /\ t \in TaskId /\ Exists(tasks[t]) /\ StateOf(tasks[t]) = "aborted"
        /\ s \in SessionId
    BY CommandNow DEF Interrupt, CommandBound, Placed
  <1>2. PICK c \in Command :
          /\ Goto(p, c) /\ c.pc \in {"idle", "create"}
          /\ c.pc = "create" => c.task = t
    BY <1>1, AfterAbortBound DEF Interrupt
  <1>3. sessions[s].live => e \in Agent
    BY <1>1 DEF IInv, SessionsBound
  <1>4. /\ UNCHANGED <<tasks, sessions, runtime, git, late, mentioned, daemon>>
        /\ runlog' \subseteq TaskId
    BY <1>1 DEF Interrupt, IInv, TypeOK
  <1>5. /\ agents' \in [Agent -> AgentState]
        /\ \A d \in Agent : agents'[d].name = agents[d].name
    <2>1. agents \in [Agent -> AgentState]
      BY DEF IInv, TypeOK
    <2>2. CASE UNCHANGED agents
      BY <2>1, <2>2
    <2>3. CASE /\ e \in Agent
               /\ agents' = [agents EXCEPT ![e].work = 0, ![e].lines = Append(@, TextLine)]
      <3>1. agents[e] \in AgentState /\ agents[e].lines \in Seq(Line) /\ TextLine \in Line
        BY <2>1, <2>3 DEF AgentState, Line, TextLine
      <3>2. Append(agents[e].lines, TextLine) \in Seq(Line)
        BY <3>1
      <3> QED
        BY <2>1, <2>3, <3>1, <3>2 DEF AgentState
    <2>4. CASE /\ e \in Agent
               /\ \E work \in {0, agents[e].work} : agents' = [agents EXCEPT ![e].work = work]
      <3>1. PICK work \in {0, agents[e].work} : agents' = [agents EXCEPT ![e].work = work]
        BY <2>4
      <3>2. agents[e] \in AgentState /\ work \in TaskId \cup {0}
        BY <2>1, <2>4, <3>1 DEF AgentState
      <3>3. [agents[e] EXCEPT !.work = work] \in AgentState
        BY <3>2 DEF AgentState
      <3>4. [agents[e] EXCEPT !.work = work].name = agents[e].name
        BY <3>2 DEF AgentState
      <3> QED
        BY <2>1, <2>4, <3>1, <3>3, <3>4
    <2> QED
      BY <1>3, <2>2, <2>3, <2>4 DEF Interrupt
  <1> HIDE DEF t, s, e
  <1>7. TypeOK'
    BY <1>2, <1>4, <1>5 DEF IInv, TypeOK, Goto
  <1>8. /\ SessionsBound' /\ RetryOfAborted' /\ RowsAreValid'
      /\ \A u \in TaskId : RowBound(tasks[u])' /\ DeliveryBound(tasks[u])'
    BY <1>4
    DEF IInv, SessionsBound, RetryOfAborted, RowsAreValid, DeliveryBound, InState
  <1>9. ASSUME NEW q \in Procs PROVE CommandBound(cli[q])'
    <2>1. CommandBound(cli'[q])
      BY <1>1, <1>2 DEF IInv, TypeOK, Goto, CommandBound, Placed
    <2> QED
      BY <1>4, <1>5, <2>1 DEF CommandBound, Placed
  <1> QED
    BY <1>4, <1>7, <1>8, <1>9 DEF IInv, DaemonBound, TasksStep

-----------------------------------------------------------------------------
\* dispatch
LEMMA DispatchTaskKeeps ==
  ASSUME IInv, NEW p \in Procs, NEW t \in TaskId, DispatchTask(p, t)
  PROVE  IInv' /\ TasksStep
  <1> DEFINE c == [Idle EXCEPT !.pc = "check flying", !.task = t]
  <1>1. c \in Command /\ c.pc = "check flying" /\ c.task = t
    BY DEF Idle, Command
  <1>2. ReadsOn(p, c) /\ Exists(tasks[t])
    BY DEF DispatchTask, InState
  <1> HIDE DEF c
  <1>3. CommandBound(c)
    BY <1>1, <1>2 DEF CommandBound, Placed
  <1> QED
    BY <1>1, <1>2, <1>3, ReadsOnKeeps

LEMMA CheckFlyingKeeps ==
  ASSUME IInv, NEW p \in Procs, CheckFlying(p)
  PROVE  IInv' /\ TasksStep
  <1> DEFINE c == [cli[p] EXCEPT !.pc = "find session"]
  <1>1. c \in Command /\ c.pc = "find session" /\ c.task = cli[p].task
    BY CommandNow DEF Command
  <1>2. ReadsOn(p, c) \/ Refused(p)
    BY DEF CheckFlying
  <1> HIDE DEF c
  <1>3. CommandBound(c)
    BY <1>1, CommandNow DEF CheckFlying, CommandBound, Placed
  <1> QED
    BY <1>1, <1>2, <1>3, ReadsOnKeeps, RefusedKeeps

LEMMA FindSessionKeeps ==
  ASSUME IInv, NEW p \in Procs, NEW n \in Names, FindSession(p, n)
  PROVE  IInv' /\ TasksStep
  <1>1. CASE Refused(p)
    BY <1>1, RefusedKeeps
  <1>2. ASSUME NEW s \in SessionId, sessions[s].name = n,
               ReadsOn(p, [cli[p] EXCEPT !.pc = "check prior", !.session = s])
        PROVE  IInv' /\ TasksStep
    <2> DEFINE c == [cli[p] EXCEPT !.pc = "check prior", !.session = s]
    <2>1. c \in Command /\ c.pc = "check prior" /\ c.task = cli[p].task /\ c.session = s
      BY CommandNow DEF Command
    <2>2. ReadsOn(p, c)
      BY <1>2
    <2> HIDE DEF c
    <2>3. CommandBound(c)
      BY <1>2, <2>1, CommandNow DEF FindSession, CommandBound, Placed
    <2> QED
      BY <2>1, <2>2, <2>3, ReadsOnKeeps
  <1> QED
    BY <1>1, <1>2 DEF FindSession, IsLatest, Incarnations

\* The length a command reads of a known session's transcript.
LEMMA TranscriptLength ==
  ASSUME IInv, NEW s \in SessionId, sessions[s].name \in Names
  PROVE  Len(Transcript(s)) \in Nat
  <1>1. sessions[s].agent \in Agent
    BY DEF IInv, SessionsBound
  <1>2. agents[sessions[s].agent].lines \in Seq(Line)
    BY <1>1 DEF IInv, TypeOK, AgentState
  <1> DEFINE lines == agents[sessions[s].agent].lines
  <1>3. Transcript(s) = lines /\ lines \in Seq(Line)
    BY <1>2 DEF Transcript
  <1> HIDE DEF lines
  <1>4. Len(lines) \in Nat
    BY <1>3
  <1> QED
    BY <1>3, <1>4

\* The steps of a dispatch between finding the session and the prompt.
LEMMA SendingKeeps ==
  ASSUME IInv, NEW p \in Procs, CheckPrior(p) \/ ReadOffset(p) \/ ReadBase(p)
  PROVE  IInv' /\ TasksStep
  <1>0. /\ cli[p] \in Command /\ cli[p].task \in TaskId /\ Exists(tasks[cli[p].task])
        /\ cli[p].session \in SessionId /\ sessions[cli[p].session].name \in Names
    BY CommandNow DEF CheckPrior, ReadOffset, ReadBase, CommandBound, Placed
  <1>1. ASSUME NEW c \in Command, ReadsOn(p, c), c.task = cli[p].task,
               c.session = cli[p].session, c.pc \in {"read offset", "read base", "prompt"},
               c.pc = "prompt" => c.base \in Commit
        PROVE  IInv' /\ TasksStep
    <2>1. CommandBound(c)
      BY <1>0, <1>1 DEF CommandBound, Placed
    <2> QED
      BY <1>1, <2>1, ReadsOnKeeps
  <1>2. CASE CheckPrior(p)
    <2> DEFINE c == [cli[p] EXCEPT !.pc = "read offset"]
    <2>1. /\ c \in Command /\ c.pc = "read offset" /\ c.task = cli[p].task
          /\ c.session = cli[p].session
      BY <1>0 DEF Command
    <2>2. ReadsOn(p, c) \/ Refused(p)
      BY <1>2 DEF CheckPrior
    <2> HIDE DEF c
    <2> QED
      BY <1>1, <2>1, <2>2, RefusedKeeps
  <1>3. CASE ReadOffset(p)
    <2> DEFINE offset == Len(Transcript(cli[p].session))
               c == [cli[p] EXCEPT !.pc = "read base", !.offset = offset]
    <2>1. offset \in Nat
      BY <1>0, TranscriptLength
    <2>2. ReadsOn(p, c)
      BY <1>3 DEF ReadOffset
    <2> HIDE DEF offset
    <2>3. /\ c \in Command /\ c.pc = "read base" /\ c.task = cli[p].task
          /\ c.session = cli[p].session
      BY <1>0, <2>1 DEF Command
    <2> HIDE DEF c
    <2> QED
      BY <1>1, <2>2, <2>3
  <1>4. CASE ReadBase(p)
    <2> DEFINE c == [cli[p] EXCEPT !.pc = "prompt", !.base = git.head]
    <2>1. git.head \in Commit
      BY DEF IInv, TypeOK, Git
    <2>2. /\ c \in Command /\ c.pc = "prompt" /\ c.task = cli[p].task
          /\ c.session = cli[p].session /\ c.base = git.head
      BY <1>0, <2>1 DEF Command
    <2>3. ReadsOn(p, c)
      BY <1>4 DEF ReadBase
    <2> HIDE DEF c
    <2>4. c.base \in Commit
      BY <2>1, <2>2
    <2> QED
      BY <1>1, <2>2, <2>3, <2>4
  <1> QED
    BY <1>2, <1>3, <1>4

LEMMA PromptKeeps ==
  ASSUME IInv, NEW p \in Procs, Prompt(p)
  PROVE  IInv' /\ TasksStep
  <1> DEFINE t == cli[p].task
             n == sessions[cli[p].session].name
             e == runtime[n]
             sent == [cli[p] EXCEPT !.pc = "write dispatch"]
             lines == IF n \in HeadOnly THEN agents[e].lines
                      ELSE Append(agents[e].lines, PromptLine(t))
  <1>0. /\ cli[p] \in Command /\ t \in TaskId /\ Exists(tasks[t])
        /\ cli[p].session \in SessionId /\ n \in Names /\ cli[p].base \in Commit
    BY CommandNow DEF Prompt, CommandBound, Placed
  <1>1. e \in Agent
    BY <1>0 DEF IInv, SessionsBound
  <1>2. UNCHANGED <<tasks, sessions, runlog, runtime, git, mentioned, daemon>>
    BY DEF Prompt, database
  <1>3. late' \subseteq Agent \X TaskId
    <2>1. late \subseteq Agent \X TaskId
      BY DEF IInv, TypeOK
    <2>2. late' = late \/ late' = late \cup {<<e, t>>}
      BY DEF Prompt
    <2> QED
      BY <1>0, <1>1, <2>1, <2>2
  <1>4. agents \in [Agent -> AgentState] /\ agents[e] \in AgentState
    BY <1>1 DEF IInv, TypeOK
  <1>5. /\ agents' \in [Agent -> AgentState]
        /\ \A d \in Agent : agents'[d].name = agents[d].name
    <2>1. CASE UNCHANGED agents
      BY <1>4, <2>1
    <2>2. CASE agents' = [agents EXCEPT ![e].work = t, ![e].lines = lines]
      <3>1. lines \in Seq(Line)
        <4>1. PromptLine(t) \in Line
          BY <1>0 DEF PromptLine, Line
        <4>2. agents[e].lines \in Seq(Line)
          BY <1>4 DEF AgentState
        <4>3. Append(agents[e].lines, PromptLine(t)) \in Seq(Line)
          BY <4>1, <4>2
        <4> QED
          BY <4>2, <4>3
      <3> HIDE DEF lines, e, t
      <3> QED
        BY <1>0, <1>1, <1>4, <2>2, <3>1 DEF AgentState
    <2> QED
      BY <2>1, <2>2 DEF Prompt
  <1>6. /\ sent \in Command /\ sent.pc = "write dispatch" /\ sent.task = t
        /\ sent.session = cli[p].session /\ sent.base = cli[p].base
    BY <1>0 DEF Command
  <1>7. PICK c \in {sent, Idle} : Goto(p, c)
    BY DEF Prompt, Done
  <1> HIDE DEF sent
  <1>8. c \in Command /\ CommandBound(c)
    BY <1>0, <1>6, <1>7, IdleBound DEF CommandBound, Placed
  <1> HIDE DEF t, n, e
  <1>9. TypeOK'
    BY <1>2, <1>3, <1>5, <1>7, <1>8 DEF IInv, TypeOK, Goto
  <1>10. /\ SessionsBound' /\ RetryOfAborted' /\ RowsAreValid'
       /\ \A u \in TaskId : RowBound(tasks[u])' /\ DeliveryBound(tasks[u])'
    BY <1>2
    DEF IInv, SessionsBound, RetryOfAborted, RowsAreValid, DeliveryBound, InState
  <1>11. ASSUME NEW q \in Procs PROVE CommandBound(cli[q])'
    <2>1. CommandBound(cli'[q])
      BY <1>7, <1>8 DEF IInv, TypeOK, Goto
    <2> QED
      BY <1>2, <1>5, <2>1 DEF CommandBound, Placed
  <1> QED
    BY <1>2, <1>9, <1>10, <1>11 DEF IInv, DaemonBound, TasksStep

LEMMA WriteDispatchKeeps ==
  ASSUME IInv, NEW p \in Procs, WriteDispatch(p)
  PROVE  IInv' /\ TasksStep
  <1> DEFINE t == cli[p].task
             s == cli[p].session
  <1>0. /\ t \in TaskId /\ Exists(tasks[t]) /\ s \in SessionId
        /\ cli[p].offset \in Nat /\ cli[p].base \in Commit
    BY CommandNow DEF WriteDispatch, CommandBound, Placed, Command
  <1> SUFFICES ASSUME NEW reason \in Reasons \cup {NoReason},
                      Transacts(p, t, Dispatch(t, tasks[t], s, cli[p].offset, cli[p].base, reason))
               PROVE  IInv' /\ TasksStep
    BY RefusedKeeps DEF WriteDispatch
  <1>1. reason \in Reason
    BY DEF Reason
  <1>2. ASSUME NEW row \in Dispatch(t, tasks[t], s, cli[p].offset, cli[p].base, reason)
        PROVE  Succeeds(t, row) /\ LeadWrites(t, row)
    BY <1>0, <1>1, DispatchSucceeds
  <1> QED
    BY <1>0, <1>2, TransactsKeeps

-----------------------------------------------------------------------------
\* accept, and the remedies

\* Going on to a place where nothing but the task and its commit is relied on.
LEMMA JudgingKeeps ==
  ASSUME IInv, NEW p \in Procs, NEW c \in Command, ReadsOn(p, c),
         c.pc \in {"gate", "look again", "write accept", "write forced accept",
                   "write forced commentary"},
         c.task \in TaskId, Exists(tasks[c.task]),
         c.pc \in {"gate", "write accept"} => Beyond(c.sha, tasks[c.task]),
         c.pc = "write forced commentary" => "record-commentary" \in Commands
  PROVE  IInv' /\ TasksStep
  <1>1. CommandBound(c)
    BY DEF CommandBound, Placed
  <1> QED
    BY <1>1, ReadsOnKeeps

LEMMA AcceptTaskKeeps ==
  ASSUME IInv, NEW p \in Procs, NEW t \in TaskId, AcceptTask(p, t)
  PROVE  IInv' /\ TasksStep
  <1>1. Exists(tasks[t]) /\ RowBound(tasks[t])
    BY DEF AcceptTask, IInv
  <1>2. ASSUME NEW sha \in Commit, Beyond(sha, tasks[t]),
               ReadsOn(p, [Idle EXCEPT !.pc = "gate", !.task = t, !.sha = sha])
        PROVE  IInv' /\ TasksStep
    <2> DEFINE c == [Idle EXCEPT !.pc = "gate", !.task = t, !.sha = sha]
    <2>1. c \in Command /\ c.pc = "gate" /\ c.task = t /\ c.sha = sha
      BY DEF Idle, Command
    <2>2. ReadsOn(p, c)
      BY <1>2
    <2> HIDE DEF c
    <2> QED
      BY <1>1, <1>2, <2>1, <2>2, JudgingKeeps
  <1>3. ASSUME ReadsOn(p, [Idle EXCEPT !.pc = "look again", !.task = t])
        PROVE  IInv' /\ TasksStep
    <2> DEFINE c == [Idle EXCEPT !.pc = "look again", !.task = t]
    <2>1. c \in Command /\ c.pc = "look again" /\ c.task = t
      BY DEF Idle, Command
    <2>2. ReadsOn(p, c)
      BY <1>3
    <2> HIDE DEF c
    <2> QED
      BY <1>1, <2>1, <2>2, JudgingKeeps
  <1>4. tasks[t].commit # 0 => tasks[t].commit \in Commit /\ Beyond(tasks[t].commit, tasks[t])
    BY <1>1 DEF RowBound
  <1>5. \A sha \in Commit : IsNewCommit(sha, tasks[t]) => Beyond(sha, tasks[t])
    BY NewCommitBeyond
  <1> QED
    BY <1>2, <1>3, <1>4, <1>5 DEF AcceptTask

LEMMA LookAgainKeeps ==
  ASSUME IInv, NEW p \in Procs, LookAgain(p)
  PROVE  IInv' /\ TasksStep
  <1> DEFINE t == cli[p].task
  <1>0. cli[p] \in Command /\ t \in TaskId /\ Exists(tasks[t])
    BY CommandNow DEF LookAgain, CommandBound, Placed
  <1>1. CASE Refused(p)
    BY <1>1, RefusedKeeps
  <1>2. ASSUME NEW sha \in Commit, IsNewCommit(sha, tasks[t]),
               ReadsOn(p, [cli[p] EXCEPT !.pc = "gate", !.sha = sha])
        PROVE  IInv' /\ TasksStep
    <2> DEFINE c == [cli[p] EXCEPT !.pc = "gate", !.sha = sha]
    <2>1. c \in Command /\ c.pc = "gate" /\ c.task = t /\ c.sha = sha
      BY <1>0 DEF Command
    <2>2. ReadsOn(p, c) /\ Beyond(sha, tasks[t])
      BY <1>0, <1>2, NewCommitBeyond
    <2> HIDE DEF c
    <2> QED
      BY <1>0, <2>1, <2>2, JudgingKeeps
  <1> QED
    BY <1>1, <1>2 DEF LookAgain

LEMMA GateKeeps ==
  ASSUME IInv, NEW p \in Procs, Gate(p)
  PROVE  IInv' /\ TasksStep
  <1> DEFINE c == [cli[p] EXCEPT !.pc = "write accept"]
  <1>0. /\ cli[p] \in Command /\ cli[p].task \in TaskId /\ Exists(tasks[cli[p].task])
        /\ Beyond(cli[p].sha, tasks[cli[p].task])
    BY CommandNow DEF Gate, CommandBound, Placed
  <1>1. c \in Command /\ c.pc = "write accept" /\ c.task = cli[p].task /\ c.sha = cli[p].sha
    BY <1>0 DEF Command
  <1>2. ReadsOn(p, c) \/ Refused(p)
    BY DEF Gate
  <1> HIDE DEF c
  <1> QED
    BY <1>0, <1>1, <1>2, JudgingKeeps, RefusedKeeps

LEMMA WriteAcceptKeeps ==
  ASSUME IInv, NEW p \in Procs, WriteAccept(p)
  PROVE  IInv' /\ TasksStep
  <1> DEFINE t == cli[p].task
             sha == cli[p].sha
  <1>0. /\ t \in TaskId /\ Exists(tasks[t]) /\ tasks[t] \in Row
        /\ Beyond(sha, tasks[t]) /\ sha \in Commit \cup {0}
    BY CommandNow DEF WriteAccept, CommandBound, Placed, IInv, TypeOK, Command
  <1>1. Transacts(p, t, GateOutcome(t, tasks[t], sha))
    BY DEF WriteAccept
  <1> QED
    BY <1>0, <1>1, GateSucceeds, TransactsKeeps

LEMMA ForceAcceptKeeps ==
  ASSUME IInv, NEW p \in Procs, NEW t \in TaskId, ForceAccept(p, t)
  PROVE  IInv' /\ TasksStep
  <1> DEFINE c == [Idle EXCEPT !.pc = "write forced accept", !.task = t]
  <1>1. c \in Command /\ c.pc = "write forced accept" /\ c.task = t
    BY DEF Idle, Command
  <1>2. ReadsOn(p, c) /\ Exists(tasks[t])
    BY DEF ForceAccept, InState
  <1> HIDE DEF c
  <1> QED
    BY <1>1, <1>2, JudgingKeeps

LEMMA WriteForcedAcceptKeeps ==
  ASSUME IInv, NEW p \in Procs, WriteForcedAccept(p)
  PROVE  IInv' /\ TasksStep
  <1> DEFINE t == cli[p].task
  <1>0. t \in TaskId /\ Exists(tasks[t]) /\ tasks[t] \in Row
    BY CommandNow DEF WriteForcedAccept, CommandBound, Placed, IInv, TypeOK
  <1>1. PICK reason \in Reasons : Transacts(p, t, Accept(t, tasks[t], reason))
    BY DEF WriteForcedAccept
  <1>2. reason \in Reason /\ "accepted" \in Terminal
    BY DEF Reason, Terminal
  <1>3. ASSUME NEW row \in Accept(t, tasks[t], reason)
        PROVE  Succeeds(t, row) /\ LeadWrites(t, row)
    BY <1>0, <1>2, <1>3, VerdictSucceeds DEF Accept
  <1> QED
    BY <1>0, <1>1, <1>3, TransactsKeeps

LEMMA ForceCommitKeeps ==
  ASSUME IInv, NEW p \in Procs, NEW t \in TaskId, NEW sha \in Commit, ForceCommit(p, t, sha)
  PROVE  IInv' /\ TasksStep
  <1> DEFINE c == [Idle EXCEPT !.pc = "write forced commit", !.task = t,
                               !.base = tasks[t].base, !.sha = sha]
  <1>0. tasks[t].base \in Commit \cup {0}
    BY DEF IInv, RowBound
  <1>1. c \in Command /\ c.pc = "write forced commit" /\ c.task = t /\ c.base = tasks[t].base
    BY <1>0 DEF Idle, Command
  <1>2. /\ ReadsOn(p, c) /\ Exists(tasks[t]) /\ StateOf(tasks[t]) # "drafted"
        /\ "record-commit" \in Commands
    BY DEF ForceCommit, InState, Flying, Starts
  <1> HIDE DEF c
  <1>3. CommandBound(c)
    BY <1>1, <1>2 DEF CommandBound, Placed
  <1> QED
    BY <1>1, <1>2, <1>3, ReadsOnKeeps

LEMMA WriteForcedCommitKeeps ==
  ASSUME IInv, NEW p \in Procs, WriteForcedCommit(p)
  PROVE  IInv' /\ TasksStep
  <1> DEFINE t == cli[p].task
             sha == cli[p].sha
  <1>0. /\ t \in TaskId /\ Exists(tasks[t]) /\ sha \in Commit \cup {0}
        /\ StateOf(tasks[t]) # "drafted" /\ cli[p].base = tasks[t].base
        /\ "record-commit" \in Commands
    BY CommandNow DEF WriteForcedCommit, CommandBound, Placed, Command
  <1>1. PICK reason \in Reasons :
          Transacts(p, t, {row \in RecordCommit(t, tasks[t], sha, reason) :
                             MayRecord(t, sha, cli[p].base)})
    BY DEF WriteForcedCommit
  <1>2. ASSUME NEW row \in RecordCommit(t, tasks[t], sha, reason), MayRecord(t, sha, cli[p].base)
        PROVE  Succeeds(t, row) /\ LeadWrites(t, row)
    <2>1. reason \in Reason
      BY DEF Reason
    <2>2. Beyond(sha, tasks[t])
      BY <1>0, <1>2 DEF MayRecord, Beyond
    <2> QED
      BY <1>0, <1>2, <2>1, <2>2, CommitSucceeds DEF LeadWrites
  <1> QED
    BY <1>0, <1>1, <1>2, TransactsKeeps

LEMMA ForceCommentaryKeeps ==
  ASSUME IInv, NEW p \in Procs, NEW t \in TaskId, ForceCommentary(p, t)
  PROVE  IInv' /\ TasksStep
  <1> DEFINE c == [Idle EXCEPT !.pc = "write forced commentary", !.task = t]
  <1>1. c \in Command /\ c.pc = "write forced commentary" /\ c.task = t
    BY DEF Idle, Command
  <1>2. ReadsOn(p, c) /\ Exists(tasks[t]) /\ "record-commentary" \in Commands
    BY DEF ForceCommentary, Starts
  <1> HIDE DEF c
  <1> QED
    BY <1>1, <1>2, JudgingKeeps

LEMMA WriteForcedCommentaryKeeps ==
  ASSUME IInv, NEW p \in Procs, WriteForcedCommentary(p)
  PROVE  IInv' /\ TasksStep
  <1> DEFINE t == cli[p].task
  <1>0. t \in TaskId /\ Exists(tasks[t]) /\ "record-commentary" \in Commands
    BY CommandNow DEF WriteForcedCommentary, CommandBound, Placed
  <1>1. Transacts(p, t, {row \in RecordDelivery(tasks[t]) : ~tasks[t].delivered})
    BY DEF WriteForcedCommentary
  <1>2. ASSUME NEW row \in RecordDelivery(tasks[t])
        PROVE  Succeeds(t, row) /\ LeadWrites(t, row)
    BY <1>0, StampSucceeds
  <1> QED
    BY <1>0, <1>1, <1>2, TransactsKeeps

-----------------------------------------------------------------------------
\* The daemon
LEMMA WatchingBound == Watching \in Daemon /\ DaemonBound(Watching)
  BY DEF Watching, Daemon, DaemonBound

LEMMA VisitingBound ==
  ASSUME IInv
  PROVE  Visiting \in Daemon /\ DaemonBound(Visiting) /\ Visiting.pc = "visit"
  <1>1. daemon \in Daemon
    BY DEF IInv, TypeOK
  <1>2. Visiting \in Daemon /\ Visiting.pc = "visit" /\ Visiting.pending = {}
    BY <1>1 DEF Visiting, Daemon
  <1> QED
    BY <1>2 DEF DaemonBound

LEMMA ReviewingBound ==
  ASSUME IInv
  PROVE  Reviewing \in Daemon /\ DaemonBound(Reviewing) /\ Reviewing.pc = "commentary"
  <1>1. daemon \in Daemon /\ DaemonBound(daemon)
    BY DEF IInv, TypeOK
  <1>2. /\ Reviewing \in Daemon /\ Reviewing.pc = "commentary"
        /\ Reviewing.pending = daemon.pending
    BY <1>1 DEF Reviewing, Daemon
  <1> QED
    BY <1>1, <1>2 DEF DaemonBound

LEMMA DaemonPollKeeps ==
  ASSUME IInv, DaemonPoll
  PROVE  IInv' /\ TasksStep
  <1> DEFINE queue == {s \in SessionId : sessions[s].live}
                      \cup (IF Commentator THEN {0} ELSE {})
             d == [Watching EXCEPT !.queue = queue]
  <1>1. queue \in SUBSET (SessionId \cup {0})
    OBVIOUS
  <1>2. Observes(d)
    BY DEF DaemonPoll
  <1> HIDE DEF queue
  <1>3. d \in Daemon /\ d.pc = "visit" /\ d.pending = {}
    BY <1>1 DEF Watching, Daemon
  <1> HIDE DEF d
  <1>4. DaemonBound(d)
    BY <1>3 DEF DaemonBound
  <1> QED
    BY <1>2, <1>3, <1>4, ObservesKeeps

LEMMA DaemonVisitKeeps ==
  ASSUME IInv, NEW s \in SessionId, DaemonVisit(s)
  PROVE  IInv' /\ TasksStep
  <1> DEFINE queue == daemon.queue \ {s}
             rest == [daemon EXCEPT !.queue = queue]
  <1>0. /\ daemon \in Daemon /\ daemon.pc = "visit"
        /\ \A t \in daemon.pending : Exists(tasks[t]) /\ StateOf(tasks[t]) \in Reviewable
    BY DEF IInv, TypeOK, DaemonBound, DaemonVisit
  <1>1. queue \in SUBSET (SessionId \cup {0})
    BY <1>0 DEF Daemon
  <1>2. \/ Observes(rest)
        \/ \E t \in TaskId :
             /\ t \in TasksOf(s)
             /\ \/ /\ StateOf(tasks[t]) = "dispatched"
                   /\ Observes([rest EXCEPT !.pc = "write flight", !.task = t])
                \/ \E sha \in Commit :
                     /\ StateOf(tasks[t]) = "in_flight"
                     /\ IsNewCommit(sha, tasks[t])
                     /\ Observes([rest EXCEPT !.pc = "write commit", !.task = t, !.sha = sha])
    BY DEF DaemonVisit
  <1> HIDE DEF queue
  <1>3. /\ rest \in Daemon /\ rest.pc = "visit" /\ rest.pending = daemon.pending
    BY <1>0, <1>1 DEF Daemon
  <1> HIDE DEF rest
  <1>4. CASE Observes(rest)
    <2>1. DaemonBound(rest)
      BY <1>0, <1>3 DEF DaemonBound
    <2> QED
      BY <1>3, <1>4, <2>1, ObservesKeeps
  <1>5. ASSUME NEW t \in TaskId, Exists(tasks[t]), StateOf(tasks[t]) = "dispatched",
               Observes([rest EXCEPT !.pc = "write flight", !.task = t])
        PROVE  IInv' /\ TasksStep
    <2> DEFINE d == [rest EXCEPT !.pc = "write flight", !.task = t]
    <2>1. d \in Daemon /\ d.pc = "write flight" /\ d.task = t /\ d.pending = daemon.pending
      BY <1>3 DEF Daemon
    <2>2. Observes(d)
      BY <1>5
    <2> HIDE DEF d
    <2>3. DaemonBound(d)
      BY <1>0, <1>5, <2>1 DEF DaemonBound
    <2> QED
      BY <2>1, <2>2, <2>3, ObservesKeeps
  <1>6. ASSUME NEW t \in TaskId, Exists(tasks[t]), NEW sha \in Commit,
               StateOf(tasks[t]) = "in_flight", IsNewCommit(sha, tasks[t]),
               Observes([rest EXCEPT !.pc = "write commit", !.task = t, !.sha = sha])
        PROVE  IInv' /\ TasksStep
    <2> DEFINE d == [rest EXCEPT !.pc = "write commit", !.task = t, !.sha = sha]
    <2>1. /\ d \in Daemon /\ d.pc = "write commit" /\ d.task = t /\ d.sha = sha
          /\ d.pending = daemon.pending
      BY <1>3 DEF Daemon
    <2>2. Observes(d) /\ Beyond(sha, tasks[t])
      BY <1>6, NewCommitBeyond
    <2> HIDE DEF d
    <2>3. DaemonBound(d)
      BY <1>0, <1>6, <2>1, <2>2 DEF DaemonBound
    <2> QED
      BY <2>1, <2>2, <2>3, ObservesKeeps
  <1> QED
    BY <1>2, <1>4, <1>5, <1>6 DEF TasksOf

LEMMA DaemonTaskNow ==
  ASSUME IInv, daemon.pc \in {"write flight", "write commit", "write delivery", "write request"}
  PROVE  /\ daemon.task \in TaskId /\ Exists(tasks[daemon.task])
         /\ tasks[daemon.task] \in Row
  BY DEF IInv, TypeOK, DaemonBound

LEMMA DaemonWriteFlightKeeps ==
  ASSUME IInv, DaemonWriteFlight
  PROVE  IInv' /\ TasksStep
  <1> DEFINE t == daemon.task
  <1>0. t \in TaskId /\ Exists(tasks[t]) /\ tasks[t] \in Row /\ StateOf(tasks[t]) # "drafted"
    BY DaemonTaskNow DEF DaemonWriteFlight, IInv, DaemonBound
  <1>1. ASSUME NEW row \in TakeFlight(t, tasks[t]) PROVE Succeeds(t, row)
    BY <1>0, TakeFlightContinues, MovedSucceeds
  <1> QED
    BY <1>0, <1>1, VisitingBound, DaemonTransactsKeeps DEF DaemonWriteFlight

LEMMA DaemonWriteCommitKeeps ==
  ASSUME IInv, DaemonWriteCommit
  PROVE  IInv' /\ TasksStep
  <1> DEFINE t == daemon.task
  <1>0. t \in TaskId /\ Exists(tasks[t]) /\ tasks[t] \in Row
    BY DaemonTaskNow DEF DaemonWriteCommit
  <1>1. daemon.sha \in Commit /\ Beyond(daemon.sha, tasks[t])
    BY DEF DaemonWriteCommit, IInv, DaemonBound
  <1>2. ASSUME NEW row \in RecordCommit(t, tasks[t], daemon.sha, NoReason)
        PROVE  Succeeds(t, row)
    <2>1. NoReason \in Reason
      BY DEF Reason
    <2> QED
      BY <1>0, <1>1, <2>1, CommitSucceeds
  <1> QED
    BY <1>0, <1>2, VisitingBound, DaemonTransactsKeeps DEF DaemonWriteCommit

LEMMA DaemonVisitCommentatorKeeps ==
  ASSUME IInv, DaemonVisitCommentator
  PROVE  IInv' /\ TasksStep
  <1> DEFINE waiting == {t \in TaskId : AwaitsCommentary(tasks[t])}
             queue == daemon.queue \ {0}
             asked == {t \in waiting : tasks[t].requested}
             d == [daemon EXCEPT !.queue = queue, !.pc = "commentary",
                                 !.pending = waiting, !.asked = asked]
  <1>0. daemon \in Daemon
    BY DEF IInv, TypeOK
  <1>1. /\ queue \in SUBSET (SessionId \cup {0}) /\ waiting \in SUBSET TaskId
        /\ asked \in SUBSET TaskId
    BY <1>0 DEF Daemon
  <1>2. \A t \in waiting : Exists(tasks[t]) /\ StateOf(tasks[t]) \in Reviewable
    BY DEF AwaitsCommentary, Reviewable
  <1>3. Observes(d)
    BY DEF DaemonVisitCommentator
  <1> HIDE DEF waiting, queue, asked
  <1>4. d \in Daemon /\ d.pc = "commentary" /\ d.pending = waiting
    BY <1>0, <1>1 DEF Daemon
  <1> HIDE DEF d
  <1>5. DaemonBound(d)
    BY <1>2, <1>4 DEF DaemonBound
  <1> QED
    BY <1>3, <1>4, <1>5, ObservesKeeps

LEMMA DaemonReviewKeeps ==
  ASSUME IInv, NEW t \in TaskId, DaemonReview(t)
  PROVE  IInv' /\ TasksStep
  <1> DEFINE pending == daemon.pending \ {t}
             rest == [daemon EXCEPT !.pending = pending]
  <1>0. /\ daemon \in Daemon /\ daemon.pc = "commentary"
        /\ \A u \in daemon.pending : Exists(tasks[u]) /\ StateOf(tasks[u]) \in Reviewable
        /\ t \in daemon.pending
    BY DEF IInv, TypeOK, DaemonBound, DaemonReview
  <1>1. /\ pending \in SUBSET TaskId
        /\ \A u \in pending : Exists(tasks[u]) /\ StateOf(tasks[u]) \in Reviewable
    BY <1>0 DEF Daemon
  <1>2. \/ Observes(rest)
        \/ /\ tasks[t].commit \in mentioned
           /\ Observes([rest EXCEPT !.pc = "write delivery", !.task = t])
        \/ Observes([rest EXCEPT !.pc = "write request", !.task = t])
    BY DEF DaemonReview
  <1> HIDE DEF pending
  <1>3. rest \in Daemon /\ rest.pc = "commentary" /\ rest.pending = pending
    BY <1>0, <1>1 DEF Daemon
  <1> HIDE DEF rest
  <1>4. CASE Observes(rest)
    <2>1. DaemonBound(rest)
      BY <1>1, <1>3 DEF DaemonBound
    <2> QED
      BY <1>3, <1>4, <2>1, ObservesKeeps
  <1>5. ASSUME NEW pc \in {"write delivery", "write request"},
               pc = "write delivery" => tasks[t].commit \in mentioned,
               Observes([rest EXCEPT !.pc = pc, !.task = t])
        PROVE  IInv' /\ TasksStep
    <2> DEFINE d == [rest EXCEPT !.pc = pc, !.task = t]
    <2>1. d \in Daemon /\ d.pc = pc /\ d.task = t /\ d.pending = pending
      BY <1>3 DEF Daemon
    <2>2. Observes(d)
      BY <1>5
    <2> HIDE DEF d
    <2>3. /\ pc = "write delivery" => tasks[t].commit \in mentioned
          /\ Exists(tasks[t]) /\ StateOf(tasks[t]) \in Reviewable
      BY <1>0, <1>5
    <2>4. DaemonBound(d)
      BY <1>1, <2>1, <2>3 DEF DaemonBound
    <2> QED
      BY <2>1, <2>2, <2>4, ObservesKeeps
  <1> QED
    BY <1>2, <1>4, <1>5

LEMMA DaemonStampKeeps ==
  ASSUME IInv, DaemonWriteDelivery \/ DaemonWriteRequest
  PROVE  IInv' /\ TasksStep
  <1> DEFINE t == daemon.task
  <1>0. /\ t \in TaskId /\ Exists(tasks[t])
        /\ daemon.pc = "write delivery" => tasks[t].commit \in mentioned
    BY DaemonTaskNow DEF DaemonWriteDelivery, DaemonWriteRequest, IInv, DaemonBound
  <1>1. ASSUME NEW row \in RecordRequest(tasks[t]) \cup RecordDelivery(tasks[t]),
               row \in RecordRequest(tasks[t]) \/ daemon.pc = "write delivery"
        PROVE  Succeeds(t, row)
    BY <1>0, <1>1, StampSucceeds
  <1> QED
    BY <1>0, <1>1, ReviewingBound, DaemonTransactsKeeps DEF DaemonWriteDelivery, DaemonWriteRequest

-----------------------------------------------------------------------------
\* The implementers, the commentator and whoever else commits

LEMMA WorldNow ==
  ASSUME IInv
  PROVE  /\ agents \in [Agent -> AgentState] /\ git \in Git
         /\ late \subseteq Agent \X TaskId /\ mentioned \subseteq Commit
  BY DEF IInv, TypeOK

\* One agent's line, debt or work changes.
LEMMA AgentStep ==
  ASSUME IInv, NEW e \in Agent, NEW a \in AgentState, a.name = agents[e].name,
         agents' = [agents EXCEPT ![e] = a],
         git' \in Git, late' \subseteq late, UNCHANGED mentioned, Alone
  PROVE  IInv' /\ TasksStep
  <1>1. /\ agents' \in [Agent -> AgentState]
        /\ \A d \in Agent : agents'[d].name = agents[d].name
    BY WorldNow
  <1>2. late' \subseteq Agent \X TaskId /\ mentioned' \subseteq Commit
    BY WorldNow
  <1> QED
    BY <1>1, <1>2, WorldStep DEF Alone

LEMMA LatePromptKeeps ==
  ASSUME IInv, NEW e \in Agent, NEW t \in TaskId, LatePrompt(e, t)
  PROVE  IInv' /\ TasksStep
  <1> DEFINE lines == Append(agents[e].lines, PromptLine(t))
             a == [agents[e] EXCEPT !.work = t, !.lines = lines]
  <1>1. agents[e] \in AgentState /\ git \in Git
    BY WorldNow
  <1>2. lines \in Seq(Line)
    <2>1. PromptLine(t) \in Line
      BY DEF PromptLine, Line
    <2>2. agents[e].lines \in Seq(Line)
      BY <1>1 DEF AgentState
    <2> QED
      BY <2>1, <2>2
  <1>3. agents' = [agents EXCEPT ![e] = a]
    BY DEF LatePrompt
  <1> HIDE DEF lines
  <1>4. a \in AgentState /\ a.name = agents[e].name
    BY <1>1, <1>2 DEF AgentState
  <1>5. git' \in Git /\ late' \subseteq late /\ UNCHANGED mentioned /\ Alone
    BY <1>1 DEF LatePrompt
  <1> HIDE DEF a
  <1> QED
    BY <1>3, <1>4, <1>5, AgentStep

LEMMA WriteLineKeeps ==
  ASSUME IInv, NEW e \in Agent, WriteLine(e)
  PROVE  IInv' /\ TasksStep
  <1> DEFINE lines == Append(agents[e].lines, TextLine)
             a == [agents[e] EXCEPT !.lines = lines]
  <1>1. agents[e] \in AgentState /\ git \in Git
    BY WorldNow
  <1>2. lines \in Seq(Line)
    <2>1. TextLine \in Line
      BY DEF TextLine, Line
    <2>2. agents[e].lines \in Seq(Line)
      BY <1>1 DEF AgentState
    <2> QED
      BY <2>1, <2>2
  <1>3. agents' = [agents EXCEPT ![e] = a]
    BY DEF WriteLine
  <1> HIDE DEF lines
  <1>4. a \in AgentState /\ a.name = agents[e].name
    BY <1>1, <1>2 DEF AgentState
  <1>5. git' \in Git
    <2>1. PICK dirty \in {git.dirty, Messy /\ agents[e].work # 0} :
                 git' = [git EXCEPT !.dirty = dirty]
      BY DEF WriteLine
    <2>2. dirty \in BOOLEAN
      BY <1>1, ConstantsAssumption DEF ConstantsAssumption, Git
    <2> QED
      BY <1>1, <2>1, <2>2 DEF Git
  <1>6. late' \subseteq late /\ UNCHANGED mentioned /\ Alone
    BY DEF WriteLine
  <1> HIDE DEF a
  <1> QED
    BY <1>3, <1>4, <1>5, <1>6, AgentStep

\* HEAD moves to the next commit while there is one.
LEMMA NewHeadIsGit ==
  ASSUME IInv, NEW trailer, git.head < MaxCommits, NewHead(trailer)
  PROVE  git' \in Git /\ git.head + 1 \in Commit
  <1>1. git.head \in Commit /\ git.trailers \in SUBSET Commit
    BY WorldNow DEF Git
  <1>2. MaxCommits \in Nat
    BY ConstantsAssumption DEF ConstantsAssumption
  <1>3. git.head + 1 \in Commit
    BY <1>1, <1>2 DEF Commit
  <1> DEFINE trailers == IF trailer THEN git.trailers \cup {git.head + 1} ELSE git.trailers
  <1>4. trailers \in SUBSET Commit
    BY <1>1, <1>3
  <1>5. git' = [head |-> git.head + 1, dirty |-> FALSE, trailers |-> trailers]
    BY DEF NewHead
  <1> HIDE DEF trailers
  <1> QED
    BY <1>3, <1>4, <1>5 DEF Git

LEMMA MakeCommitKeeps ==
  ASSUME IInv, NEW e \in Agent, MakeCommit(e)
  PROVE  IInv' /\ TasksStep
  <1> DEFINE owed == IF agents[e].name \in HeadOnly THEN 0 ELSE git.head + 1
             a == [agents[e] EXCEPT !.owed = owed]
  <1>1. agents[e] \in AgentState
    BY WorldNow
  <1>2. git' \in Git /\ git.head + 1 \in Commit
    BY NewHeadIsGit DEF MakeCommit
  <1>3. owed \in Commit \cup {0}
    BY <1>2
  <1>4. agents' = [agents EXCEPT ![e] = a]
    BY DEF MakeCommit
  <1> HIDE DEF owed
  <1>5. a \in AgentState /\ a.name = agents[e].name
    BY <1>1, <1>3 DEF AgentState
  <1>6. late' \subseteq late /\ UNCHANGED mentioned /\ Alone
    BY DEF MakeCommit
  <1> HIDE DEF a
  <1> QED
    BY <1>2, <1>4, <1>5, <1>6, AgentStep

LEMMA ShowCommitKeeps ==
  ASSUME IInv, NEW e \in Agent, ShowCommit(e)
  PROVE  IInv' /\ TasksStep
  <1> DEFINE lines == Append(agents[e].lines, CommitLine(agents[e].owed))
             a == [agents[e] EXCEPT !.lines = lines, !.owed = 0]
  <1>1. agents[e] \in AgentState /\ git \in Git
    BY WorldNow
  <1>2. lines \in Seq(Line)
    <2>1. CommitLine(agents[e].owed) \in Line
      BY <1>1 DEF CommitLine, Line, AgentState
    <2>2. agents[e].lines \in Seq(Line)
      BY <1>1 DEF AgentState
    <2> QED
      BY <2>1, <2>2
  <1>3. agents' = [agents EXCEPT ![e] = a]
    BY DEF ShowCommit
  <1> HIDE DEF lines
  <1>4. a \in AgentState /\ a.name = agents[e].name
    BY <1>1, <1>2 DEF AgentState
  <1>5. git' \in Git /\ late' \subseteq late /\ UNCHANGED mentioned /\ Alone
    BY <1>1 DEF ShowCommit
  <1> HIDE DEF a
  <1> QED
    BY <1>3, <1>4, <1>5, AgentStep

LEMMA OutsideKeeps ==
  ASSUME IInv, OutsideCommit \/ \E c \in Commit : Review(c)
  PROVE  IInv' /\ TasksStep
  <1>1. /\ UNCHANGED <<agents, late>> /\ Alone
        /\ mentioned \subseteq mentioned' /\ mentioned' \subseteq Commit
    BY WorldNow DEF OutsideCommit, Review
  <1>2. git' \in Git
    BY WorldNow, NewHeadIsGit DEF OutsideCommit, Review
  <1> QED
    BY <1>1, <1>2, WorldNow, WorldStep DEF Alone

-----------------------------------------------------------------------------
LEMMA StutterKeeps ==
  ASSUME IInv, UNCHANGED vars
  PROVE  IInv' /\ TasksStep
  BY DEF IInv, TypeOK, RetryOfAborted, InState, SessionsBound, CommandBound, Placed,
         DaemonBound, RowsAreValid, DeliveryBound, TasksStep, vars, database, world

LEMMA LeadKeeps ==
  ASSUME IInv, NEW p \in Procs, Lead(p)
  PROVE  IInv' /\ TasksStep
  <1>1. CASE New(p)
    BY <1>1, NewKeeps
  <1>2. CASE Step(p)
    BY <1>2, WriteLaunchKeeps, CreateRetryKeeps, SupersedeKeeps, WriteAbortKeeps,
       InterruptKeeps, CheckFlyingKeeps, SendingKeeps, PromptKeeps, WriteDispatchKeeps,
       LookAgainKeeps, GateKeeps, WriteAcceptKeeps, WriteForcedAcceptKeeps,
       WriteForcedCommitKeeps, WriteForcedCommentaryKeeps
    DEF Step
  <1>3. CASE Crash(p)
    BY <1>3, RefusedKeeps DEF Crash
  <1>4. CASE \E n \in Names : StartAgent(p, n) \/ FindSession(p, n)
    BY <1>4, StartAgentKeeps, FindSessionKeeps
  <1>5. ASSUME NEW t \in TaskId,
               \/ Retry(p, t) \/ AbortTask(p, t) \/ DispatchTask(p, t)
               \/ AcceptTask(p, t) \/ ForceAccept(p, t) \/ ForceCommentary(p, t)
               \/ \E c \in Commit : ForceCommit(p, t, c)
        PROVE  IInv' /\ TasksStep
    BY <1>5, RetryKeeps, AbortSnapshotKeeps, DispatchTaskKeeps, AcceptTaskKeeps,
       ForceAcceptKeeps, ForceCommentaryKeeps, ForceCommitKeeps
    DEF AbortTask
  <1> QED
    BY <1>1, <1>2, <1>3, <1>4, <1>5 DEF Lead

LEMMA DaemonKeeps ==
  ASSUME IInv, DaemonStep \/ DaemonCrash \/ DaemonStart
  PROVE  IInv' /\ TasksStep
  <1>1. CASE DaemonStep
    BY <1>1, DaemonPollKeeps, DaemonVisitKeeps, DaemonWriteFlightKeeps,
       DaemonWriteCommitKeeps, DaemonVisitCommentatorKeeps, DaemonReviewKeeps,
       DaemonStampKeeps, VisitingBound, ObservesKeeps
    DEF DaemonStep, DaemonReviewed
  <1>2. CASE DaemonCrash
    BY <1>2, DiesKeeps DEF DaemonCrash
  <1>3. CASE DaemonStart
    BY <1>3, WatchingBound, ObservesKeeps DEF DaemonStart
  <1> QED
    BY <1>1, <1>2, <1>3

LEMMA EnvironmentKeeps ==
  ASSUME IInv, Environment
  PROVE  IInv' /\ TasksStep
  BY LatePromptKeeps, WriteLineKeeps, MakeCommitKeeps, ShowCommitKeeps, OutsideKeeps
  DEF Environment

LEMMA Inductive == IInv /\ [Next]_vars => IInv' /\ TasksStep
  BY LeadKeeps, DaemonKeeps, EnvironmentKeeps, StutterKeeps DEF Next

LEMMA Invariance == Spec => []IInv
  BY InitIInv, Inductive, PTL DEF Spec

\* Every variable keeps its type, whichever commands run at once.
THEOREM TypeCorrect == Spec => []TypeOK
  <1>1. IInv => TypeOK
    BY DEF IInv
  <1> QED
    BY <1>1, Invariance, PTL

\* A retry's predecessor is aborted, although the check, the abort and the
\* insert are separate transactions and any of them may be the last.
THEOREM RetriesFollowAborts == Spec => []RetryOfAborted
  <1>1. IInv => RetryOfAborted
    BY DEF IInv
  <1> QED
    BY <1>1, Invariance, PTL

\* A recorded commit is a proper descendant of the task's base, although the
\* daemon, the gate and the remedy check it long before they record it.
THEOREM CommitsAreNew == Spec => []CommitAfterBase
  <1>1. IInv => CommitAfterBase
    BY DEF IInv, RowBound, Beyond, CommitAfterBase
  <1> QED
    BY <1>1, Invariance, PTL

-----------------------------------------------------------------------------
(* The lifecycle readers see: TaskLifecycle, implemented. *)

\* What the readers of TaskLifecycle see of a row, and of the table.
LifeOf(row) == IF Exists(row) THEN StateOf(row) ELSE "absent"

FactsOf(row) == [session |-> row.session, base |-> row.base, commit |-> row.commit,
                 retryOf |-> row.retryOf, requested |-> row.requested,
                 delivered |-> row.delivered]

Life == [t \in TaskId |-> IF Exists(tasks[t]) THEN StateOf(tasks[t]) ELSE "absent"]

Facts == [t \in TaskId |->
            [session |-> tasks[t].session, base |-> tasks[t].base,
             commit |-> tasks[t].commit, retryOf |-> tasks[t].retryOf,
             requested |-> tasks[t].requested, delivered |-> tasks[t].delivered]]

Fact == [session : Nat, base : Nat, commit : Nat, retryOf : Nat,
         requested : BOOLEAN, delivered : BOOLEAN]

LEMMA FactsOfRow ==
  ASSUME NEW row \in Row
  PROVE  /\ FactsOf(row) \in Fact
         /\ FactsOf(row).session = row.session /\ FactsOf(row).base = row.base
         /\ FactsOf(row).commit = row.commit /\ FactsOf(row).retryOf = row.retryOf
         /\ FactsOf(row).requested = row.requested /\ FactsOf(row).delivered = row.delivered
  BY DEF Row, Fact, FactsOf

\* Two sets of facts are the same that agree on each.
LEMMA SameFact ==
  ASSUME NEW a \in Fact, NEW b \in Fact, a.session = b.session, a.base = b.base,
         a.commit = b.commit, a.retryOf = b.retryOf,
         a.requested <=> b.requested, a.delivered <=> b.delivered
  PROVE  a = b
  BY DEF Fact

\* The columns of a dispatch, and either stamp, written on a set of facts.
LEMMA FactUpdates ==
  ASSUME NEW f \in Fact, NEW g \in Fact, g.retryOf = f.retryOf, g.commit = f.commit
  PROVE  /\ g.requested = f.requested /\ g.delivered = f.delivered
              => g = [f EXCEPT !.session = g.session, !.base = g.base]
         /\ /\ g.session = f.session /\ g.base = f.base
            /\ g.requested /\ g.delivered = f.delivered
            => g = [f EXCEPT !.requested = TRUE]
         /\ /\ g.session = f.session /\ g.base = f.base
            /\ g.delivered /\ g.requested = f.requested
            => g = [f EXCEPT !.delivered = TRUE]
  <1>1. /\ g.session \in Nat /\ g.base \in Nat
        /\ g.requested \in BOOLEAN /\ g.delivered \in BOOLEAN
    BY DEF Fact
  <1>2. g.requested = f.requested /\ g.delivered = f.delivered
        => g = [f EXCEPT !.session = g.session, !.base = g.base]
    <2> SUFFICES ASSUME g.requested = f.requested, g.delivered = f.delivered
                 PROVE  g = [f EXCEPT !.session = g.session, !.base = g.base]
      OBVIOUS
    <2> DEFINE new == [f EXCEPT !.session = g.session, !.base = g.base]
    <2>1. /\ new \in Fact /\ new.session = g.session /\ new.base = g.base
          /\ new.commit = f.commit /\ new.retryOf = f.retryOf
          /\ new.requested = f.requested /\ new.delivered = f.delivered
      BY <1>1 DEF Fact
    <2> HIDE DEF new
    <2>2. g = new
      BY <2>1, SameFact
    <2> QED
      BY <2>2 DEF new
  <1>3. /\ g.session = f.session /\ g.base = f.base
        /\ g.requested /\ g.delivered = f.delivered
        => g = [f EXCEPT !.requested = TRUE]
    <2> SUFFICES ASSUME g.session = f.session, g.base = f.base,
                         g.requested, g.delivered = f.delivered
                 PROVE  g = [f EXCEPT !.requested = TRUE]
      OBVIOUS
    <2> DEFINE new == [f EXCEPT !.requested = TRUE]
    <2>1. /\ new \in Fact /\ new.session = f.session /\ new.base = f.base
          /\ new.commit = f.commit /\ new.retryOf = f.retryOf
          /\ new.requested /\ new.delivered = f.delivered
      BY DEF Fact
    <2> HIDE DEF new
    <2>2. g = new
      BY <2>1, SameFact
    <2> QED
      BY <2>2 DEF new
  <1>4. /\ g.session = f.session /\ g.base = f.base
        /\ g.delivered /\ g.requested = f.requested
        => g = [f EXCEPT !.delivered = TRUE]
    <2> SUFFICES ASSUME g.session = f.session, g.base = f.base,
                         g.delivered, g.requested = f.requested
                 PROVE  g = [f EXCEPT !.delivered = TRUE]
      OBVIOUS
    <2> DEFINE new == [f EXCEPT !.delivered = TRUE]
    <2>1. /\ new \in Fact /\ new.session = f.session /\ new.base = f.base
          /\ new.commit = f.commit /\ new.retryOf = f.retryOf
          /\ new.delivered /\ new.requested = f.requested
      BY DEF Fact
    <2> HIDE DEF new
    <2>2. g = new
      BY <2>1, SameFact
    <2> QED
      BY <2>2 DEF new
  <1> QED
    BY <1>2, <1>3, <1>4

LEMMA PromisedInit == Init => Promised!Init
  BY NoRowIsRow DEF Init, Promised!Init, NoRow, Promised!Blank

\* One row replaced is one entry of each map replaced.
LEMMA MapsChange ==
  ASSUME IInv, NEW t \in TaskId, NEW row \in Row, Exists(row), SetTask(t, row)
  PROVE  /\ Life \in [TaskId -> TaskState \cup {"absent"}] /\ Facts \in [TaskId -> Fact]
         /\ Life[t] = LifeOf(tasks[t]) /\ Facts[t] = FactsOf(tasks[t])
         /\ FactsOf(row) \in Fact
         /\ Life' = [Life EXCEPT ![t] = StateOf(row)]
         /\ Facts' = [Facts EXCEPT ![t] = FactsOf(row)]
         /\ Facts'[t] = FactsOf(row)
  <1>1. tasks \in [TaskId -> Row] /\ tasks' = [tasks EXCEPT ![t] = row]
    BY DEF IInv, TypeOK, SetTask
  <1>2. \A u \in TaskId : Exists(tasks[u]) => StateOf(tasks[u]) \in TaskState
    BY <1>1, StateOfExisting
  <1>3. \A r \in Row : FactsOf(r) \in Fact
    BY DEF Row, Fact, FactsOf
  <1>4. Facts = [u \in TaskId |-> FactsOf(tasks[u])] /\ Facts' = [u \in TaskId |-> FactsOf(tasks'[u])]
    BY DEF Facts, FactsOf
  <1>5. Life = [u \in TaskId |-> LifeOf(tasks[u])] /\ Life' = [u \in TaskId |-> LifeOf(tasks'[u])]
    BY DEF Life, LifeOf
  <1>6. \A u \in TaskId : LifeOf(tasks[u]) \in TaskState \cup {"absent"}
    BY <1>2 DEF LifeOf
  <1>7. LifeOf(row) = StateOf(row)
    BY DEF LifeOf
  <1> QED
    BY <1>1, <1>3, <1>4, <1>5, <1>6, <1>7

LEMMA DraftIsPromised ==
  ASSUME IInv, NEW t \in TaskId, NEW row \in Row, ~Exists(tasks[t]), Drafted(row), SetTask(t, row)
  PROVE  Promised!Draft(t, row.retryOf)
  <1>1. /\ Life[t] = "absent"
        /\ Life' = [Life EXCEPT ![t] = "drafted"]
    BY MapsChange DEF Drafted, LifeOf
  <1>2. Facts' = [Facts EXCEPT ![t] = [Promised!Blank EXCEPT !.retryOf = row.retryOf]]
    <2> DEFINE blank == [Promised!Blank EXCEPT !.retryOf = row.retryOf]
    <2>0. /\ blank \in Fact /\ blank.session = 0 /\ blank.base = 0 /\ blank.commit = 0
          /\ blank.retryOf = row.retryOf /\ ~blank.requested /\ ~blank.delivered
      BY DEF Promised!Blank, Row, Fact
    <2>1. FactsOf(row) = blank
      <3> HIDE DEF blank
      <3> QED
        BY <2>0, FactsOfRow, SameFact DEF Drafted
    <2> QED
      BY <2>1, MapsChange DEF Drafted
  <1>3. row.retryOf # 0 => row.retryOf \in TaskId /\ Life[row.retryOf] = "aborted"
    BY DEF Drafted, Life, InState
  <1> QED
    BY <1>1, <1>2, <1>3 DEF Promised!Draft, Life, Facts

\* A state may be followed by what CanTransition allows and the facts demand.
LEMMA AfterIs ==
  /\ Promised!After["absent"] = {}
  /\ Promised!After["drafted"] = {"dispatched", "aborted"}
  /\ Promised!After["dispatched"] = {"in_flight", "committed_unverified", "accepted", "aborted"}
  /\ Promised!After["in_flight"] = {"committed_unverified", "accepted", "aborted"}
  /\ Promised!After["committed_unverified"] = {"accepted", "aborted"}
  BY DEF Promised!After

\* An entry of a map of facts replaced by its update is the update of the entry.
LEMMA EntryOnce ==
  ASSUME NEW S, NEW f \in [S -> Fact], NEW t \in S, NEW v
  PROVE  /\ [f EXCEPT ![t] = [f[t] EXCEPT !.commit = v]] = [f EXCEPT ![t].commit = v]
         /\ [f EXCEPT ![t] = [f[t] EXCEPT !.requested = v]] = [f EXCEPT ![t].requested = v]
         /\ [f EXCEPT ![t] = [f[t] EXCEPT !.delivered = v]] = [f EXCEPT ![t].delivered = v]
  OBVIOUS

LEMMA EntryTwice ==
  ASSUME NEW S, NEW f \in [S -> Fact], NEW t \in S, NEW v, NEW w
  PROVE  [f EXCEPT ![t] = [f[t] EXCEPT !.session = v, !.base = w]]
           = [f EXCEPT ![t].session = v, ![t].base = w]
  BY DEF Fact

LEMMA StepIsPromised ==
  ASSUME IInv, NEW t \in TaskId, NEW row \in Row, Exists(tasks[t]), Succeeds(t, row),
         SetTask(t, row)
  PROVE  Promised!Next \/ UNCHANGED <<Life, Facts>>
  <1>1. /\ Life \in [TaskId -> TaskState \cup {"absent"}] /\ Facts \in [TaskId -> Fact]
        /\ Life[t] = StateOf(tasks[t]) /\ Facts[t] = FactsOf(tasks[t])
        /\ Life' = [Life EXCEPT ![t] = StateOf(row)]
        /\ Facts' = [Facts EXCEPT ![t] = FactsOf(row)]
        /\ Facts'[t] = FactsOf(row)
    BY MapsChange, SucceedsIsRow DEF LifeOf
  <1>2. CASE row = tasks[t]
    <2>1. UNCHANGED <<Life, Facts>>
      BY <1>1, <1>2
    <2> QED
      BY <2>1
  <1>3. CASE /\ StateOf(tasks[t]) = "drafted" /\ StateOf(row) = "dispatched"
             /\ DispatchedOf(row, tasks[t])
    <2>1. /\ Facts' = [Facts EXCEPT ![t].session = row.session, ![t].base = row.base]
          /\ Facts'[t].session = row.session /\ Facts'[t].base = row.base
      <3>1. /\ FactsOf(row) = [FactsOf(tasks[t]) EXCEPT !.session = row.session, !.base = row.base]
            /\ FactsOf(row).session = row.session /\ FactsOf(row).base = row.base
        <4> DEFINE f == FactsOf(tasks[t])
                   g == FactsOf(row)
        <4>1. /\ f \in Fact /\ g \in Fact /\ g.retryOf = f.retryOf /\ g.commit = f.commit
              /\ g.requested = f.requested /\ g.delivered = f.delivered
              /\ g.session = row.session /\ g.base = row.base
          BY <1>3, RowNow, FactsOfRow DEF DispatchedOf
        <4> HIDE DEF f, g
        <4>2. g = [f EXCEPT !.session = g.session, !.base = g.base]
          BY <4>1, FactUpdates
        <4> QED
          BY <4>1, <4>2 DEF f, g
      <3> QED
        BY <1>1, <3>1, EntryTwice
    <2>2. "dispatched" \in Promised!After[Life[t]] /\ Life' = [Life EXCEPT ![t] = "dispatched"]
          /\ row.session # 0 /\ row.base # 0
      BY <1>1, <1>3, AfterIs DEF DispatchedOf
    <2>3. Promised!Dispatch(t, Facts'[t].session, Facts'[t].base)
      BY <2>1, <2>2 DEF Promised!Dispatch, Life, Facts
    <2> QED
      BY <2>2, <2>3 DEF Promised!Next, Life, Facts
  <1>4. CASE /\ StateOf(tasks[t]) = "dispatched" /\ StateOf(row) = "in_flight"
             /\ SameFacts(row, tasks[t])
    <2>1. Facts' = Facts
      BY <1>1, <1>4 DEF FactsOf, SameFacts, SameColumns
    <2>2. "in_flight" \in Promised!After[Life[t]] /\ Life' = [Life EXCEPT ![t] = "in_flight"]
      BY <1>1, <1>4, AfterIs
    <2>3. Promised!TakeFlight(t)
      BY <2>1, <2>2 DEF Promised!TakeFlight, Life, Facts
    <2> QED
      BY <2>3 DEF Promised!Next
  <1>5. CASE /\ StateOf(tasks[t]) \in Flying /\ StateOf(row) \in Committed
             /\ CommittedOf(row, tasks[t])
    <2>1. Facts' = [Facts EXCEPT ![t].commit = row.commit] /\ Facts'[t].commit = row.commit
      <3>1. FactsOf(row) = [FactsOf(tasks[t]) EXCEPT !.commit = row.commit]
            /\ FactsOf(row).commit = row.commit
        BY <1>5 DEF FactsOf, CommittedOf
      <3> QED
        BY <1>1, <3>1, EntryOnce
    <2>2. row.commit > Facts[t].base
      BY <1>1, <1>5 DEF FactsOf, CommittedOf, Succeeds, RowBound, Valid, Beyond
    <2>3. /\ Life[t] \in {"dispatched", "in_flight"}
          /\ StateOf(row) \in {"committed_unverified", "accepted"}
          /\ Life' = [Life EXCEPT ![t] = StateOf(row)]
      BY <1>1, <1>5 DEF Flying, Committed
    <2>4. Promised!Commit(t, Facts'[t].commit, StateOf(row))
      BY <2>1, <2>2, <2>3 DEF Promised!Commit, Life, Facts
    <2> QED
      BY <2>3, <2>4 DEF Promised!Next, Life, Facts
  <1>6. CASE /\ StateOf(row) \in Terminal /\ CanTransition(StateOf(tasks[t]), StateOf(row))
             /\ StateOf(row) = "accepted" => tasks[t].commit # 0
             /\ SameFacts(row, tasks[t])
    <2>1. Facts' = Facts
      BY <1>1, <1>6 DEF FactsOf, SameFacts, SameColumns
    <2>2. StateOf(tasks[t]) = "drafted" => StateOf(row) = "aborted"
      BY <1>6 DEF IInv, RowBound, Beyond, Terminal
    <2>3. /\ StateOf(row) \in {"accepted", "aborted"} \cap Promised!After[Life[t]]
          /\ StateOf(row) = "accepted" => Facts[t].commit # 0
          /\ Life' = [Life EXCEPT ![t] = StateOf(row)]
      BY <1>1, <1>6, <2>2, AfterIs, RowNow DEF Terminal, CanTransition, TaskState, FactsOf
    <2>4. Promised!Judge(t, StateOf(row))
      BY <2>1, <2>3 DEF Promised!Judge, Life, Facts
    <2> QED
      BY <2>3, <2>4 DEF Promised!Next
  <1>7. CASE StateOf(tasks[t]) \in Committed /\ StampedOf(row, tasks[t])
    <2>1. Life' = Life
      BY <1>1, <1>7 DEF StampedOf, StateOf
    <2>2. \/ Facts' = [Facts EXCEPT ![t].requested = TRUE]
          \/ Facts' = [Facts EXCEPT ![t].delivered = TRUE]
      <3>1. \/ FactsOf(row) = [FactsOf(tasks[t]) EXCEPT !.requested = TRUE]
            \/ FactsOf(row) = [FactsOf(tasks[t]) EXCEPT !.delivered = TRUE]
        <4> DEFINE f == FactsOf(tasks[t])
                   g == FactsOf(row)
        <4>1. /\ f \in Fact /\ g \in Fact /\ g.retryOf = f.retryOf /\ g.commit = f.commit
              /\ g.session = f.session /\ g.base = f.base
              /\ \/ g.requested /\ g.delivered = f.delivered
                 \/ g.delivered /\ g.requested = f.requested
          BY <1>7, RowNow, FactsOfRow DEF StampedOf, SameColumns
        <4> HIDE DEF f, g
        <4>2. g = [f EXCEPT !.requested = TRUE] \/ g = [f EXCEPT !.delivered = TRUE]
          BY <4>1, FactUpdates
        <4> QED
          BY <4>2 DEF f, g
      <3> QED
        BY <1>1, <3>1, EntryOnce
    <2>3. Life[t] \in {"committed_unverified", "accepted"}
      BY <1>1, <1>7 DEF Committed
    <2>4. Promised!Stamp(t)
      BY <2>1, <2>2, <2>3 DEF Promised!Stamp, Life, Facts
    <2> QED
      BY <2>4 DEF Promised!Next
  <1> QED
    BY <1>2, <1>3, <1>4, <1>5, <1>6, <1>7 DEF Succeeds, Continues

LEMMA StepsArePromised ==
  ASSUME IInv, TasksStep
  PROVE  [Promised!Next]_<<Life, Facts>>
  <1>1. CASE UNCHANGED tasks
    BY <1>1 DEF Life, Facts
  <1>2. ASSUME NEW t \in TaskId, NEW row \in Row, Succeeds(t, row), SetTask(t, row)
        PROVE  Promised!Next \/ UNCHANGED <<Life, Facts>>
    <2>1. CASE Exists(tasks[t])
      BY <1>2, <2>1, StepIsPromised
    <2>2. CASE ~Exists(tasks[t])
      <3>1. Drafted(row)
        BY <1>2, <2>2 DEF Succeeds
      <3>2. row.retryOf \in TaskId \cup {0}
        BY <3>1 DEF Drafted
      <3>3. Promised!Draft(t, row.retryOf)
        BY <1>2, <2>2, <3>1, DraftIsPromised
      <3> QED
        BY <3>2, <3>3 DEF Promised!Next
    <2> QED
      BY <2>1, <2>2
  <1> QED
    BY <1>1, <1>2 DEF TasksStep

\* However the commands and the daemon interleave, a reader of the task table
\* sees the lifecycle of TaskLifecycle: every write is one of its steps.
THEOREM LifecycleIsKept == Spec => KeepsLifecycle
  <1>1. IInv /\ [Next]_vars => [Promised!Next]_<<Life, Facts>>
    BY Inductive, StepsArePromised
  <1> QED
    BY <1>1, Invariance, PromisedInit, PTL DEF Spec, KeepsLifecycle, Promised!Spec, Life, Facts

-----------------------------------------------------------------------------
(* What holds while the lead leaves a remedy alone, or nothing is killed. *)

\* Unless the lead used record-commentary --force, commentary marked delivered
\* was given on the commit the task still has.
THEOREM DeliveriesWereReviewed ==
  ASSUME "record-commentary" \notin Commands
  PROVE  Spec => []DeliveredMeansReviewed
  <1>1. IInv => DeliveredMeansReviewed
    BY DEF IInv, DeliveryBound, DeliveredMeansReviewed
  <1> QED
    BY <1>1, Invariance, PTL

LEMMA GateCannotFail ==
  ASSUME IInv, "record-commit" \notin Commands, NEW t \in TaskId, NEW sha \in Commit \cup {0},
         InState(t, Flying \cup {"committed_unverified"}), Beyond(sha, tasks[t]),
         tasks[t].commit \in {0, sha}
  PROVE  GateOutcome(t, tasks[t], sha) # {}
  <1>1. /\ Exists(tasks[t]) /\ tasks[t] \in Row /\ RowBound(tasks[t])
        /\ Valid(t, tasks[t]) /\ ReasonBound(tasks[t])
    BY RowNow DEF InState
  <1>2. sha \in Nat \ {0} /\ NoReason \in Reason /\ GateReason \in Reason
    BY <1>1 DEF RowBound, Beyond, Commit, Reason
  <1>3. StateOf(tasks[t]) = "committed_unverified" =>
          tasks[t].commit = sha /\ ReasonOf(tasks[t]) = NoReason
    BY <1>1 DEF Valid, Committed, ReasonBound
  <1>4. PICK recorded : recorded \in RecordCommit(t, tasks[t], sha, NoReason)
    BY <1>1, <1>2, <1>3, RecordCommitSucceeds DEF InState
  <1>5. /\ recorded \in Row /\ Exists(recorded) /\ Valid(t, recorded)
        /\ StateOf(recorded) = "committed_unverified"
    BY <1>1, <1>2, <1>4, RecordCommitContinues DEF Continues, Beyond
  <1>6. Accept(t, recorded, GateReason) # {}
    BY <1>2, <1>5, AcceptSucceeds
  <1> QED
    BY <1>4, <1>6 DEF GateOutcome

\* A task that passed the gate is accepted however long the verdict takes to be
\* written, unless it was ended or credited with another commit meanwhile.
THEOREM GateVerdictsStand ==
  ASSUME "record-commit" \notin Commands
  PROVE  Spec => GateVerdictStands
  <1> DEFINE Stands(p) == LET t == cli[p].task IN
               /\ cli[p].pc = "write accept" /\ WriteAccept(p)
               /\ InState(t, Flying \cup {"committed_unverified"})
               /\ tasks[t].commit \in {0, cli[p].sha}
               => StateOf(tasks'[t]) = "accepted"
  <1>1. ASSUME IInv, NEW p \in Procs PROVE Stands(p)
    <2> DEFINE t == cli[p].task
               sha == cli[p].sha
    <2> SUFFICES ASSUME cli[p].pc = "write accept", WriteAccept(p),
                        InState(t, Flying \cup {"committed_unverified"}),
                        tasks[t].commit \in {0, sha}
                 PROVE  StateOf(tasks'[t]) = "accepted"
      OBVIOUS
    <2>1. /\ t \in TaskId /\ Exists(tasks[t])
          /\ Beyond(sha, tasks[t]) /\ sha \in Commit \cup {0}
      BY <1>1, CommandNow DEF CommandBound, Placed, IInv, TypeOK, Command
    <2>2. GateOutcome(t, tasks[t], sha) # {}
      BY <1>1, <2>1, GateCannotFail
    <2>3. PICK row \in GateOutcome(t, tasks[t], sha) : SetTask(t, row)
      BY <2>2 DEF WriteAccept, Transacts
    <2>4. StateOf(row) = "accepted"
      BY <1>1, <2>1, GateSucceeds
    <2> QED
      BY <1>1, <2>1, <2>3, <2>4 DEF SetTask, IInv, TypeOK
  <1>2. IInv => \A p \in Procs : Stands(p)
    BY <1>1
  <1> QED
    BY <1>2, Invariance, PTL DEF GateVerdictStands

-----------------------------------------------------------------------------
LEMMA LeadLeavesDaemon ==
  ASSUME NEW p \in Procs, Lead(p)
  PROVE  daemon' = daemon
  <1> USE DEF ReadsOn, Refused, Done, Transacts
  <1>1. ASSUME NEW t \in TaskId, \/ Retry(p, t) \/ AbortTask(p, t) \/ DispatchTask(p, t)
                                 \/ AcceptTask(p, t) \/ ForceAccept(p, t)
                                 \/ ForceCommentary(p, t)
                                 \/ \E c \in Commit : ForceCommit(p, t, c)
        PROVE  daemon' = daemon
    BY <1>1 DEF Retry, AbortTask, AbortSnapshot, DispatchTask, AcceptTask, ForceAccept,
                ForceCommentary, ForceCommit
  <1>2. ASSUME NEW n \in Names, StartAgent(p, n) \/ FindSession(p, n)
        PROVE  daemon' = daemon
    BY <1>2 DEF StartAgent, FindSession
  <1>3. CASE New(p) \/ Crash(p)
    BY <1>3 DEF New, Crash
  <1>4. CASE WriteLaunch(p) \/ CreateRetry(p) \/ Supersede(p) \/ WriteAbort(p) \/ Interrupt(p)
    BY <1>4 DEF WriteLaunch, CreateRetry, Supersede, AbortSnapshot, WriteAbort, Interrupt
  <1>5. CASE CheckFlying(p) \/ CheckPrior(p) \/ ReadOffset(p) \/ ReadBase(p)
    BY <1>5 DEF CheckFlying, CheckPrior, ReadOffset, ReadBase
  <1>6. CASE Prompt(p) \/ WriteDispatch(p) \/ LookAgain(p) \/ Gate(p) \/ WriteAccept(p)
    BY <1>6 DEF Prompt, WriteDispatch, LookAgain, Gate, WriteAccept
  <1>7. CASE WriteForcedAccept(p) \/ WriteForcedCommit(p) \/ WriteForcedCommentary(p)
    BY <1>7 DEF WriteForcedAccept, WriteForcedCommit, WriteForcedCommentary
  <1> QED
    BY <1>1, <1>2, <1>3, <1>4, <1>5, <1>6, <1>7 DEF Lead, Step

LEMMA EnvironmentLeavesDaemon ==
  ASSUME Environment
  PROVE  daemon' = daemon
  BY DEF Environment, WriteLine, MakeCommit, ShowCommit, LatePrompt, OutsideCommit, Review, Alone

\* The daemon itself ends only where a transaction of its has no outcome.
LEMMA DaemonEnds ==
  ASSUME IInv, daemon.pc # "dead", DaemonStep, daemon'.pc = "dead"
  PROVE  \/ daemon.pc = "write flight" /\ TakeFlight(daemon.task, tasks[daemon.task]) = {}
         \/ /\ daemon.pc = "write commit"
            /\ RecordCommit(daemon.task, tasks[daemon.task], daemon.sha, NoReason) = {}
         \/ daemon.pc = "write delivery" /\ RecordDelivery(tasks[daemon.task]) = {}
         \/ daemon.pc = "write request" /\ RecordRequest(tasks[daemon.task]) = {}
  <1>1. daemon \in Daemon
    BY DEF IInv, TypeOK
  <1>2. Visiting.pc = "visit" /\ Reviewing.pc = "commentary"
    BY <1>1 DEF Visiting, Reviewing, Daemon
  <1>3. CASE DaemonPoll
    BY <1>3 DEF DaemonPoll, Observes, Watching
  <1>4. CASE \E s \in SessionId : DaemonVisit(s)
    <2>1. PICK s \in SessionId : DaemonVisit(s)
      BY <1>4
    <2> DEFINE rest == [daemon EXCEPT !.queue = @ \ {s}]
    <2>2. daemon.pc = "visit" /\ rest.pc = "visit" /\ rest \in Daemon
      BY <1>1, <2>1 DEF DaemonVisit, Daemon
    <2>3. \/ daemon' = rest
          \/ \E t \in TaskId : daemon' = [rest EXCEPT !.pc = "write flight", !.task = t]
          \/ \E t \in TaskId : \E sha \in Commit :
               daemon' = [rest EXCEPT !.pc = "write commit", !.task = t, !.sha = sha]
      BY <2>1 DEF DaemonVisit, Observes
    <2> HIDE DEF rest
    <2> QED
      BY <2>2, <2>3 DEF Daemon
  <1>5. CASE DaemonVisitCommentator
    BY <1>1, <1>5 DEF DaemonVisitCommentator, Observes, Daemon
  <1>6. CASE \E t \in TaskId : DaemonReview(t)
    <2>1. PICK t \in TaskId : DaemonReview(t)
      BY <1>6
    <2> DEFINE rest == [daemon EXCEPT !.pending = @ \ {t}]
    <2>2. daemon.pc = "commentary" /\ rest.pc = "commentary" /\ rest \in Daemon
      BY <1>1, <2>1 DEF DaemonReview, Daemon
    <2>3. \/ daemon' = rest
          \/ daemon' = [rest EXCEPT !.pc = "write delivery", !.task = t]
          \/ daemon' = [rest EXCEPT !.pc = "write request", !.task = t]
      BY <2>1 DEF DaemonReview, Observes
    <2> HIDE DEF rest
    <2> QED
      BY <2>2, <2>3 DEF Daemon
  <1>7. CASE DaemonReviewed
    BY <1>2, <1>7 DEF DaemonReviewed, Observes
  <1>8. CASE DaemonWriteFlight \/ DaemonWriteCommit \/ DaemonWriteDelivery \/ DaemonWriteRequest
    BY <1>2, <1>8 DEF DaemonWriteFlight, DaemonWriteCommit, DaemonWriteDelivery,
                      DaemonWriteRequest, DaemonTransacts
  <1> QED
    BY <1>3, <1>4, <1>5, <1>6, <1>7, <1>8 DEF DaemonStep

\* And there is none only when a verdict came between its look and its write.
LEMMA OnlyVerdictsEndIt ==
  ASSUME IInv, "record-commit" \notin Commands, daemon.pc # "dead", DaemonStep,
         daemon'.pc = "dead"
  PROVE  \/ InState(daemon.task, {"aborted"})
         \/ /\ daemon.pc \in {"write flight", "write commit"}
            /\ InState(daemon.task, {"accepted"})
  <1> DEFINE t == daemon.task
  <1>1. /\ DaemonBound(daemon) /\ daemon \in Daemon
        /\ daemon.pc \in {"write flight", "write commit", "write delivery", "write request"}
    BY DaemonEnds DEF IInv, TypeOK
  <1>2. t \in TaskId /\ Exists(tasks[t])
    BY <1>1 DEF DaemonBound
  <1>3. tasks[t] \in Row /\ Valid(t, tasks[t]) /\ RowBound(tasks[t])
    BY <1>2, RowNow
  <1>4. CASE daemon.pc = "write flight"
    <2>1. StateOf(tasks[t]) # "dispatched"
      BY <1>2, <1>3, <1>4, DaemonEnds, TakeFlightSucceeds
    <2> QED
      BY <1>1, <1>2, <1>4, <2>1 DEF DaemonBound, InState, Terminal
  <1>5. CASE daemon.pc = "write commit"
    <2>1. daemon.sha \in Commit
      BY <1>1, <1>5 DEF DaemonBound
    <2>2. daemon.sha \in Nat \ {0}
      BY <2>1 DEF Commit
    <2>3. StateOf(tasks[t]) # "in_flight"
      BY <1>2, <1>3, <1>5, <2>2, DaemonEnds, RecordCommitSucceeds DEF Flying
    <2> QED
      BY <1>1, <1>2, <1>5, <2>3 DEF DaemonBound, InState, Terminal
  <1>6. CASE daemon.pc \in {"write delivery", "write request"}
    <2>1. StateOf(tasks[t]) \notin Committed
      BY <1>2, <1>3, <1>6, DaemonEnds, StampsSucceed
    <2> QED
      BY <1>1, <1>2, <1>6, <2>1 DEF DaemonBound, InState, Reviewable
  <1> QED
    BY <1>1, <1>4, <1>5, <1>6

\* An error costs the run its daemon only when a verdict overtook it, however
\* many commands run beside it.
THEOREM VerdictsAloneEndTheDaemon ==
  ASSUME "record-commit" \notin Commands, Crashes = FALSE
  PROVE  Spec => DaemonSurvives
  <1> DEFINE Survives == daemon.pc # "dead" /\ daemon'.pc = "dead" =>
               \/ InState(daemon.task, {"aborted"})
               \/ /\ daemon.pc \in {"write flight", "write commit"}
                  /\ InState(daemon.task, {"accepted"})
  <1>1. IInv /\ [Next]_vars => Survives
    <2> SUFFICES ASSUME IInv, [Next]_vars, daemon.pc # "dead", daemon'.pc = "dead"
                 PROVE  Survives
      OBVIOUS
    <2>1. daemon' # daemon
      OBVIOUS
    <2>2. DaemonStep
      BY <2>1, LeadLeavesDaemon, EnvironmentLeavesDaemon
      DEF Next, vars, DaemonCrash, DaemonStart
    <2> QED
      BY <2>2, OnlyVerdictsEndIt
  <1> QED
    BY <1>1, Invariance, PTL DEF Spec, DaemonSurvives
=============================================================================
