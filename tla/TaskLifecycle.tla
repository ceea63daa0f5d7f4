---------------------------- MODULE TaskLifecycle ----------------------------
(***************************************************************************)
(* What the task table promises its readers, whoever writes it and however *)
(* the writers interleave: a task is drafted once, only moves forward, is  *)
(* left alone once accepted or aborted, and every fact about it - the      *)
(* session it was given to, the base it is measured from, its commit, its  *)
(* commentary stamps - is written once and at one point of its life.  A    *)
(* retry exists only of an aborted task.                                   *)
(***************************************************************************)
EXTENDS Naturals

CONSTANT Tasks

VARIABLES
  life,     \* [Tasks -> the task's state, or "absent"]
  facts     \* [Tasks -> the columns written along the way, 0 or FALSE before]

Blank == [session |-> 0, base |-> 0, commit |-> 0, retryOf |-> 0,
          requested |-> FALSE, delivered |-> FALSE]

\* Where a task may go from a state.
After == [absent |-> {},
          drafted |-> {"dispatched", "aborted"},
          dispatched |-> {"in_flight", "committed_unverified", "accepted", "aborted"},
          in_flight |-> {"committed_unverified", "accepted", "aborted"},
          committed_unverified |-> {"accepted", "aborted"},
          accepted |-> {},
          aborted |-> {}]

Init ==
  /\ life = [t \in Tasks |-> "absent"]
  /\ facts = [t \in Tasks |-> Blank]

Draft(t, retryOf) ==
  /\ life[t] = "absent"
  /\ retryOf # 0 => retryOf \in Tasks /\ life[retryOf] = "aborted"
  /\ life' = [life EXCEPT ![t] = "drafted"]
  /\ facts' = [facts EXCEPT ![t] = [Blank EXCEPT !.retryOf = retryOf]]

\* Given to a session, with the base its work is measured from.
Dispatch(t, session, base) ==
  /\ "dispatched" \in After[life[t]]
  /\ session # 0 /\ base # 0
  /\ life' = [life EXCEPT ![t] = "dispatched"]
  /\ facts' = [facts EXCEPT ![t].session = session, ![t].base = base]

TakeFlight(t) ==
  /\ "in_flight" \in After[life[t]]
  /\ life' = [life EXCEPT ![t] = "in_flight"]
  /\ UNCHANGED facts

\* A commit is recorded, and perhaps judged good, in one step.
Commit(t, commit, next) ==
  /\ life[t] \in {"dispatched", "in_flight"}
  /\ next \in {"committed_unverified", "accepted"}
  /\ commit > facts[t].base
  /\ life' = [life EXCEPT ![t] = next]
  /\ facts' = [facts EXCEPT ![t].commit = commit]

\* Judged: the commit stands or the task is given up; what was recorded stays.
Judge(t, next) ==
  /\ next \in {"accepted", "aborted"} \cap After[life[t]]
  /\ next = "accepted" => facts[t].commit # 0
  /\ life' = [life EXCEPT ![t] = next]
  /\ UNCHANGED facts

\* A commentary stamp, on a commit that has not been reverted.
Stamp(t) ==
  /\ life[t] \in {"committed_unverified", "accepted"}
  /\ \/ facts' = [facts EXCEPT ![t].requested = TRUE]
     \/ facts' = [facts EXCEPT ![t].delivered = TRUE]
  /\ UNCHANGED life

Next == \E t \in Tasks :
  \/ \E u \in Tasks \cup {0} : Draft(t, u)
  \/ "dispatched" \in After[life[t]]
     /\ Dispatch(t, facts'[t].session, facts'[t].base)
  \/ TakeFlight(t)
  \/ \E next \in {"committed_unverified", "accepted"} :
       Commit(t, facts'[t].commit, next)
  \/ \E next \in {"accepted", "aborted"} : Judge(t, next)
  \/ Stamp(t)

Spec == Init /\ [][Next]_<<life, facts>>
=============================================================================
