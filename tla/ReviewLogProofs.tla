--------------------------- MODULE ReviewLogProofs ---------------------------
(***************************************************************************)
(* For any number of commentators, tasks, observations and findings: a     *)
(* cursor never passes what was not delivered, nothing is delivered twice, *)
(* a verdict is final, and a commentator never holds another.              *)
(***************************************************************************)
EXTENDS Reconciling, TLAPS

-----------------------------------------------------------------------------
(* The inductive invariant *)

\* The writer's lock has one holder.
OneWriter == \A w, v \in Writers : Writing(w) /\ Writing(v) => w = v

\* An id not committed yet is past every committed one: nothing can later
\* commit behind a cursor.
NewIsLast == \A w \in Writers : Writing(w) => \A id \in Committed : id < writers[w].id

\* A cursor stands at something that was committed, or at the start.
CursorIsCommitted == \A scope \in Scope : lead.cursor[scope] \in Committed \cup {0}

DeliveredIsBehind ==
  \A scope \in Scope : \A id \in lead.delivered[scope] : id <= lead.cursor[scope]

\* With what the answer holds, nothing behind its cursor is missing.
AnswerIsWhole ==
  LET s == answer.scope IN
  answer.pending =>
    /\ answer.read.cursor \in Committed \cup {0}
    /\ lead.cursor[s] <= answer.read.cursor
    /\ \A id \in answer.read.observations : lead.cursor[s] < id /\ id <= answer.read.cursor
    /\ \A i \in DOMAIN observations :
         Belongs(observations[i], s) /\ observations[i].id <= answer.read.cursor
         => observations[i].id \in lead.delivered[s] \cup answer.read.observations

\* What is known of findings is of findings there are.
FindingsAreThere ==
  /\ Len(findings) <= MaxFindings
  /\ resolver \in DOMAIN findings \cup {0}
  /\ lead.unresolved \subseteq DOMAIN findings
  /\ answer.read.findings \subseteq DOMAIN findings

VerdictFits(f) == findings[f].verdict = "task" <=> findings[f].fix \in Task

IInv ==
  /\ TypeOK /\ OneWriter /\ NewIsLast /\ CursorIsCommitted /\ DeliveredIsBehind
  /\ NoneOmitted /\ AnswerIsWhole /\ FindingsAreThere
  /\ \A f \in DOMAIN findings : VerdictFits(f)

\* The two halves a step may leave alone.
ObservationsInv ==
  /\ OneWriter /\ NewIsLast /\ CursorIsCommitted /\ DeliveredIsBehind
  /\ NoneOmitted /\ AnswerIsWhole

FindingsInv == FindingsAreThere /\ \A f \in DOMAIN findings : VerdictFits(f)

LEMMA Halves == IInv <=> TypeOK /\ ObservationsInv /\ FindingsInv
  BY DEF IInv, ObservationsInv, FindingsInv

-----------------------------------------------------------------------------
LEMMA InitHolds == Init => IInv
  <1> SUFFICES ASSUME Init PROVE IInv
    OBVIOUS
  <1> USE ConstantsAssumption DEF ConstantsAssumption
  <1>1. /\ observations = <<>> /\ observations \in Seq(Observation)
        /\ findings = <<>> /\ findings \in Seq(Finding)
        /\ DOMAIN observations = {} /\ DOMAIN findings = {} /\ Len(findings) = 0
    BY DEF Init
  <1>2. /\ answer = [pending |-> FALSE, scope |-> 0, read |-> NoAnswer]
        /\ NoAnswer = [cursor |-> 0, observations |-> {}, findings |-> {}]
    BY DEF Init, Nothing, NoAnswer
  <1>3. 0 \in Scope /\ 0 \in 0..MaxObservations
    BY DEF Scope
  <1>4. NoAnswer \in Answer
    BY <1>2, <1>3 DEF Answer
  <1>5. answer \in [pending : BOOLEAN, scope : Scope, read : Answer]
    BY <1>2, <1>3, <1>4
  <1>6. /\ lead \in Lead /\ lead.unresolved = {}
        /\ \A scope \in Scope : lead.cursor[scope] = 0 /\ lead.delivered[scope] = {}
    BY <1>3 DEF Init, Lead
  <1>7. /\ writers \in [Writers -> Observation \cup {NoObservation}]
        /\ \A w \in Writers : ~Writing(w)
    BY DEF Init, Writing
  <1>8. TypeOK
    BY <1>1, <1>5, <1>6, <1>7 DEF TypeOK, Init
  <1>9. ObservationsInv
    BY <1>1, <1>2, <1>6, <1>7 DEF ObservationsInv, OneWriter, NewIsLast,
      CursorIsCommitted, DeliveredIsBehind, NoneOmitted, AnswerIsWhole
  <1>10. FindingsInv
    BY <1>1, <1>2, <1>6 DEF FindingsInv, FindingsAreThere, Init
  <1> QED
    BY <1>8, <1>9, <1>10, Halves

-----------------------------------------------------------------------------
(* What a step leaves alone *)

LEMMA FindingsLeftAlone ==
  ASSUME FindingsInv, UNCHANGED <<findings, resolver>>,
         lead'.unresolved \subseteq DOMAIN findings,
         answer'.read.findings \subseteq DOMAIN findings
  PROVE  FindingsInv'
  BY DEF FindingsInv, FindingsAreThere, VerdictFits

LEMMA ObservationsLeftAlone ==
  ASSUME ObservationsInv, UNCHANGED <<observations, writers>>,
         UNCHANGED <<lead.cursor, lead.delivered>>,
         answer'.pending => answer' = answer
  PROVE  ObservationsInv'
  <1>1. UNCHANGED Committed
    BY DEF Committed
  <1>2. OneWriter' /\ NewIsLast'
    BY <1>1 DEF ObservationsInv, OneWriter, NewIsLast, Writing
  <1>3. CursorIsCommitted' /\ DeliveredIsBehind'
    BY <1>1 DEF ObservationsInv, CursorIsCommitted, DeliveredIsBehind
  <1>4. NoneOmitted'
    BY DEF ObservationsInv, NoneOmitted
  <1>5. AnswerIsWhole'
    BY <1>1 DEF ObservationsInv, AnswerIsWhole
  <1> QED
    BY <1>2, <1>3, <1>4, <1>5 DEF ObservationsInv

\* Types of the parts.
LEMMA Types ==
  ASSUME TypeOK
  PROVE  /\ \A i \in DOMAIN observations : observations[i] \in Observation
         /\ \A i \in DOMAIN observations : observations[i].id \in ObservationId
         /\ Committed \subseteq ObservationId
         /\ \A f \in DOMAIN findings : findings[f] \in Finding
         /\ DOMAIN findings = 1..Len(findings) /\ Len(findings) \in Nat
         /\ DOMAIN observations = 1..Len(observations) /\ Len(observations) \in Nat
         /\ lead.cursor \in [Scope -> 0..MaxObservations]
         /\ lead.delivered \in [Scope -> SUBSET ObservationId]
         /\ lead.unresolved \subseteq FindingId
         /\ answer.scope \in Scope /\ answer.pending \in BOOLEAN
         /\ answer.read.cursor \in 0..MaxObservations
         /\ answer.read.observations \subseteq ObservationId
         /\ answer.read.findings \subseteq FindingId
  <1>1. observations \in Seq(Observation) /\ findings \in Seq(Finding)
    BY DEF TypeOK
  <1>2. \A i \in DOMAIN observations : observations[i] \in Observation
    BY <1>1
  <1>3. \A i \in DOMAIN observations : observations[i].id \in ObservationId
    BY <1>2 DEF Observation
  <1>4. Committed \subseteq ObservationId
    BY <1>3 DEF Committed
  <1>5. \A f \in DOMAIN findings : findings[f] \in Finding
    BY <1>1
  <1>6. /\ DOMAIN findings = 1..Len(findings) /\ Len(findings) \in Nat
        /\ DOMAIN observations = 1..Len(observations) /\ Len(observations) \in Nat
    BY <1>1
  <1>7. /\ lead.cursor \in [Scope -> 0..MaxObservations]
        /\ lead.delivered \in [Scope -> SUBSET ObservationId]
        /\ lead.unresolved \subseteq FindingId
    BY DEF TypeOK, Lead
  <1>8. answer.scope \in Scope /\ answer.pending \in BOOLEAN /\ answer.read \in Answer
    BY DEF TypeOK
  <1>9. /\ answer.read.cursor \in 0..MaxObservations
        /\ answer.read.observations \subseteq ObservationId
        /\ answer.read.findings \subseteq FindingId
    BY <1>8 DEF Answer
  <1> QED
    BY <1>2, <1>3, <1>4, <1>5, <1>6, <1>7, <1>8, <1>9

-----------------------------------------------------------------------------
(* Commentators *)

LEMMA ObserveKeeps ==
  ASSUME IInv, NEW w \in Writers, Observe(w)
  PROVE  IInv'
  <1>1. PICK id \in ObservationId, task \in Scope :
          IsNextId(id) /\ writers' = [writers EXCEPT ![w] = [id |-> id, task |-> task]]
    BY DEF Observe
  <1>2. /\ Unlocked /\ ~Writing(w)
        /\ UNCHANGED <<observations, findings, resolver, answer, lead>>
    BY DEF Observe
  <1>3. TypeOK /\ ObservationsInv /\ FindingsInv
    BY Halves
  <1>4. [id |-> id, task |-> task] \in Observation
    BY DEF Observation
  <1>5. writers \in [Writers -> Observation \cup {NoObservation}]
    BY DEF IInv, TypeOK
  <1>6. /\ writers' \in [Writers -> Observation \cup {NoObservation}]
        /\ writers'[w] = [id |-> id, task |-> task]
        /\ \A v \in Writers \ {w} : writers'[v] = writers[v]
    BY <1>1, <1>4, <1>5
  <1>7. TypeOK'
    BY <1>2, <1>6 DEF IInv, TypeOK
  <1>8. Committed' = Committed
    BY <1>2 DEF Committed
  <1>9. \A v \in Writers \ {w} : ~Writing(v)'
    BY <1>2, <1>6 DEF Unlocked, Writing
  <1>10. OneWriter'
    BY <1>9 DEF OneWriter
  <1>11. NewIsLast'
    <2>1. \A other \in Committed : other < id
      BY <1>1 DEF IsNextId
    <2> QED
      BY <1>6, <1>8, <1>9, <2>1 DEF NewIsLast
  <1>12. CursorIsCommitted' /\ DeliveredIsBehind' /\ NoneOmitted' /\ AnswerIsWhole'
    BY <1>2, <1>8 DEF IInv, CursorIsCommitted, DeliveredIsBehind, NoneOmitted, AnswerIsWhole
  <1>13. FindingsInv'
    BY <1>2, <1>3, FindingsLeftAlone DEF FindingsInv, FindingsAreThere
  <1> QED
    BY <1>7, <1>10, <1>11, <1>12, <1>13 DEF IInv, FindingsInv

\* The new row is past every cursor, so no cursor has left it out.
LEMMA CommitObserveKeeps ==
  ASSUME IInv, NEW w \in Writers, CommitObserve(w)
  PROVE  IInv'
  <1> USE ConstantsAssumption DEF ConstantsAssumption
  <1> DEFINE row == writers[w]
             last == Len(observations) + 1
  <1>1. /\ Writing(w) /\ observations' = Append(observations, row)
        /\ writers' = [writers EXCEPT ![w] = NoObservation]
        /\ UNCHANGED <<findings, resolver, answer, lead>>
    BY DEF CommitObserve
  <1>2. TypeOK /\ ObservationsInv /\ FindingsInv
    BY Halves
  <1>3. /\ observations \in Seq(Observation)
        /\ writers \in [Writers -> Observation \cup {NoObservation}]
    BY <1>2 DEF TypeOK
  <1>4. row \in Observation /\ row.id \in ObservationId
    BY <1>1, <1>3 DEF Writing, Observation
  <1>5. NewIsLast /\ \A id \in Committed : id < row.id
    BY <1>1, <1>2 DEF ObservationsInv, NewIsLast
  <1> HIDE DEF row
  <1>6. /\ observations' \in Seq(Observation)
        /\ DOMAIN observations = 1..Len(observations) /\ Len(observations) \in Nat
        /\ DOMAIN observations' = 1..last
        /\ \A i \in 1..Len(observations) : observations'[i] = observations[i]
        /\ observations'[last] = row
    BY <1>1, <1>3, <1>4
  <1>7. /\ DOMAIN observations' = DOMAIN observations \cup {last}
        /\ \A i \in DOMAIN observations : observations'[i] = observations[i]
    BY <1>6
  <1>8. Committed' = Committed \cup {row.id}
    BY <1>6, <1>7 DEF Committed
  <1>9. /\ writers' \in [Writers -> Observation \cup {NoObservation}]
        /\ writers'[w] = NoObservation
        /\ \A v \in Writers \ {w} : writers'[v] = writers[v]
    BY <1>1, <1>3
  <1>10. \A v \in Writers : ~Writing(v)'
    BY <1>1, <1>2, <1>9 DEF ObservationsInv, OneWriter, Writing
  <1>11. TypeOK'
    BY <1>1, <1>2, <1>6, <1>9 DEF TypeOK
  <1>12. OneWriter' /\ NewIsLast'
    BY <1>10 DEF OneWriter, NewIsLast
  <1>13. CursorIsCommitted' /\ DeliveredIsBehind'
    BY <1>1, <1>2, <1>8 DEF ObservationsInv, CursorIsCommitted, DeliveredIsBehind
  <1>14. row.id \in Nat /\ row.id > 0
    BY <1>4 DEF ObservationId
  <1>15. Committed \subseteq Nat
    BY <1>2, Types DEF ObservationId
  <1>16. \A c \in Committed \cup {0} : ~(row.id <= c)
    BY <1>5, <1>14, <1>15
  <1>17. NoneOmitted'
    <2>1. \A scope \in Scope : ~(row.id <= lead.cursor[scope])
      BY <1>2, <1>16 DEF ObservationsInv, CursorIsCommitted
    <2>2. \A scope \in Scope : ~(observations'[last].id <= lead'.cursor[scope])
      BY <1>1, <1>6, <2>1
    <2> QED
      BY <1>1, <1>2, <1>7, <2>2 DEF ObservationsInv, NoneOmitted, Belongs, InScope
  <1>18. AnswerIsWhole'
    <2>1. answer.pending => ~(observations'[last].id <= answer.read.cursor)
      BY <1>2, <1>6, <1>16 DEF ObservationsInv, AnswerIsWhole
    <2> QED
      BY <1>1, <1>2, <1>7, <1>8, <2>1 DEF ObservationsInv, AnswerIsWhole, Belongs, InScope
  <1>19. FindingsInv'
    BY <1>1, <1>2, FindingsLeftAlone DEF FindingsInv, FindingsAreThere
  <1> QED
    BY <1>11, <1>12, <1>13, <1>17, <1>18, <1>19 DEF IInv, FindingsInv

LEMMA KillWriterKeeps ==
  ASSUME IInv, NEW w \in Writers, KillWriter(w)
  PROVE  IInv'
  <1>1. /\ writers' = [writers EXCEPT ![w] = NoObservation]
        /\ UNCHANGED <<observations, findings, resolver, answer, lead>>
    BY DEF KillWriter
  <1>2. TypeOK /\ ObservationsInv /\ FindingsInv
    BY Halves
  <1>3. writers \in [Writers -> Observation \cup {NoObservation}]
    BY <1>2 DEF TypeOK
  <1>4. /\ writers' \in [Writers -> Observation \cup {NoObservation}]
        /\ writers'[w] = NoObservation
        /\ \A v \in Writers \ {w} : writers'[v] = writers[v]
    BY <1>1, <1>3
  <1>5. TypeOK'
    BY <1>1, <1>2, <1>4 DEF TypeOK
  <1>6. Committed' = Committed
    BY <1>1 DEF Committed
  <1>7. OneWriter' /\ NewIsLast'
    BY <1>2, <1>4, <1>6 DEF ObservationsInv, OneWriter, NewIsLast, Writing
  <1>8. CursorIsCommitted' /\ DeliveredIsBehind' /\ NoneOmitted' /\ AnswerIsWhole'
    BY <1>1, <1>2, <1>6 DEF ObservationsInv, CursorIsCommitted, DeliveredIsBehind,
      NoneOmitted, AnswerIsWhole
  <1>9. FindingsInv'
    BY <1>1, <1>2, FindingsLeftAlone DEF FindingsInv, FindingsAreThere
  <1> QED
    BY <1>5, <1>7, <1>8, <1>9 DEF IInv, FindingsInv

LEMMA RegisterKeeps ==
  ASSUME IInv, Register
  PROVE  IInv'
  <1> USE ConstantsAssumption DEF ConstantsAssumption
  <1>1. PICK task \in Task :
          findings' = Append(findings, [task |-> task, verdict |-> "none", fix |-> 0])
    BY DEF Register
  <1>2. /\ Len(findings) < MaxFindings
        /\ UNCHANGED <<observations, writers, resolver, answer, lead>>
    BY DEF Register
  <1>3. TypeOK /\ ObservationsInv /\ FindingsInv
    BY Halves
  <1> DEFINE new == [task |-> task, verdict |-> "none", fix |-> 0]
  <1>4. new \in Finding
    BY DEF Finding, Scope
  <1>5. new.verdict # "task" /\ new.fix \notin Task
    OBVIOUS
  <1> HIDE DEF new
  <1>6. findings' = Append(findings, new)
    BY <1>1 DEF new
  <1>7. findings \in Seq(Finding)
    BY <1>3 DEF TypeOK
  <1>8. /\ findings' \in Seq(Finding) /\ Len(findings') = Len(findings) + 1
        /\ DOMAIN findings = 1..Len(findings) /\ Len(findings) \in Nat
        /\ DOMAIN findings' = 1..Len(findings) + 1
        /\ \A f \in 1..Len(findings) : findings'[f] = findings[f]
        /\ findings'[Len(findings) + 1] = new
    BY <1>4, <1>6, <1>7
  <1>9. DOMAIN findings' = DOMAIN findings \cup {Len(findings) + 1}
    BY <1>8
  <1>10. TypeOK'
    BY <1>2, <1>3, <1>8 DEF TypeOK
  <1>11. ObservationsInv'
    BY <1>2, <1>3, ObservationsLeftAlone
  <1>12. FindingsAreThere'
    BY <1>2, <1>3, <1>8, <1>9 DEF FindingsInv, FindingsAreThere
  <1>13. \A f \in DOMAIN findings' : VerdictFits(f)'
    BY <1>3, <1>5, <1>8, <1>9 DEF FindingsInv, VerdictFits
  <1> QED
    BY <1>10, <1>11, <1>12, <1>13, Halves DEF FindingsInv, IInv, ObservationsInv

-----------------------------------------------------------------------------
(* The lead *)

\* What a poll reads of observations.
LEMMA AfterReads ==
  ASSUME NEW cursor, NEW scope
  PROVE  /\ After(cursor, scope) \subseteq Committed
         /\ \A id \in After(cursor, scope) : id > cursor
         /\ \A i \in DOMAIN observations :
              Belongs(observations[i], scope) /\ observations[i].id > cursor
              => observations[i].id \in After(cursor, scope)
  BY DEF After, Committed

LEMMA PollKeeps ==
  ASSUME IInv, NEW scope \in Scope, Poll(scope)
  PROVE  IInv'
  <1> USE ConstantsAssumption DEF ConstantsAssumption
  <1> DEFINE old == lead.cursor[scope]
             ids == After(old, scope)
  <1>1. PICK c \in 0..MaxObservations :
          /\ IsCursor(c, old, ids)
          /\ answer' = [pending |-> TRUE, scope |-> scope,
                        read |-> [cursor |-> c, observations |-> ids,
                                  findings |-> Unresolved(scope)]]
    BY DEF Poll
  <1>2. UNCHANGED <<observations, findings, writers, resolver, lead>>
    BY DEF Poll
  <1>3. TypeOK /\ ObservationsInv /\ FindingsInv
    BY Halves
  <1>4. /\ old \in 0..MaxObservations /\ Committed \subseteq ObservationId
        /\ \A i \in DOMAIN observations : observations[i].id \in ObservationId
        /\ DOMAIN findings = 1..Len(findings) /\ Len(findings) \in Nat
    BY <1>3, Types
  <1>5. /\ ids \subseteq Committed /\ \A id \in ids : id > old
        /\ \A i \in DOMAIN observations :
             Belongs(observations[i], scope) /\ observations[i].id > old
             => observations[i].id \in ids
    BY AfterReads
  <1> HIDE DEF ids
  <1>6. c \in ids \cup {old} /\ old <= c /\ \A id \in ids : id <= c
    BY <1>1 DEF IsCursor
  <1>7. Unresolved(scope) \subseteq DOMAIN findings
    BY DEF Unresolved
  <1>8. DOMAIN findings \subseteq FindingId
    BY <1>3, <1>4 DEF FindingsInv, FindingsAreThere, FindingId
  <1>9. answer'.read \in Answer
    BY <1>1, <1>4, <1>5, <1>7, <1>8 DEF Answer
  <1>10. TypeOK'
    BY <1>1, <1>2, <1>3, <1>9 DEF TypeOK
  <1>11. Committed' = Committed
    BY <1>2 DEF Committed
  <1>12. /\ OneWriter' /\ NewIsLast' /\ CursorIsCommitted' /\ DeliveredIsBehind'
         /\ NoneOmitted'
    BY <1>2, <1>3, <1>11 DEF ObservationsInv, OneWriter, NewIsLast, Writing,
      CursorIsCommitted, DeliveredIsBehind, NoneOmitted, Belongs, InScope
  <1>13. AnswerIsWhole'
    <2>1. c \in Committed \cup {0}
      BY <1>3, <1>5, <1>6 DEF ObservationsInv, CursorIsCommitted
    <2>2. \A id \in ids : old < id /\ id <= c
      BY <1>5, <1>6
    <2>3. ASSUME NEW i \in DOMAIN observations,
                 Belongs(observations[i], scope), observations[i].id <= c
          PROVE  observations[i].id \in lead.delivered[scope] \cup ids
      <3>1. CASE observations[i].id <= old
        BY <1>3, <2>3, <3>1 DEF ObservationsInv, NoneOmitted
      <3>2. CASE ~(observations[i].id <= old)
        <4>1. observations[i].id \in Nat /\ old \in Nat
          BY <1>4 DEF ObservationId
        <4>2. observations[i].id > old
          BY <3>2, <4>1
        <4> QED
          BY <1>5, <2>3, <4>2
      <3> QED
        BY <3>1, <3>2
    <2>4. /\ answer'.scope = scope /\ answer'.read.cursor = c
          /\ answer'.read.observations = ids
      BY <1>1
    <2> QED
      BY <1>2, <1>6, <1>11, <2>1, <2>2, <2>3, <2>4 DEF AnswerIsWhole, Belongs, InScope
  <1>14. FindingsInv'
    <2>1. answer'.read.findings \subseteq DOMAIN findings
      BY <1>1, <1>7
    <2> QED
      BY <1>2, <1>3, <2>1, FindingsLeftAlone DEF FindingsInv, FindingsAreThere
  <1> QED
    BY <1>10, <1>12, <1>13, <1>14 DEF IInv, FindingsInv

LEMMA NothingIsAnAnswer ==
  /\ Nothing \in [pending : BOOLEAN, scope : Scope, read : Answer]
  /\ ~Nothing.pending /\ Nothing.read.findings = {}
  <1> USE ConstantsAssumption DEF ConstantsAssumption
  <1>1. 0 \in Scope /\ 0 \in 0..MaxObservations
    BY DEF Scope
  <1>2. NoAnswer \in Answer /\ NoAnswer.findings = {}
    BY <1>1 DEF NoAnswer, Answer
  <1> QED
    BY <1>1, <1>2 DEF Nothing

\* The cursor moves on by what comes with it.
LEMMA ReceiveKeeps ==
  ASSUME IInv, NEW scope \in Scope, Receive(scope)
  PROVE  IInv'
  <1> USE ConstantsAssumption DEF ConstantsAssumption
  <1> DEFINE read == answer.read
  <1>1. /\ answer.pending /\ answer.scope = scope /\ answer' = Nothing
        /\ lead' = [cursor |-> [lead.cursor EXCEPT ![scope] = read.cursor],
              delivered |-> [lead.delivered EXCEPT ![scope] = @ \cup read.observations],
              unresolved |-> lead.unresolved \cup read.findings]
        /\ UNCHANGED <<observations, findings, writers, resolver>>
    BY DEF Receive
  <1>2. TypeOK /\ ObservationsInv /\ FindingsInv
    BY Halves
  <1>3. /\ lead.cursor \in [Scope -> 0..MaxObservations]
        /\ lead.delivered \in [Scope -> SUBSET ObservationId]
        /\ lead.unresolved \subseteq FindingId /\ read.findings \subseteq FindingId
        /\ read.cursor \in 0..MaxObservations /\ read.observations \subseteq ObservationId
        /\ Committed \subseteq ObservationId
    BY <1>2, Types
  <1>4. /\ read.cursor \in Committed \cup {0} /\ lead.cursor[scope] <= read.cursor
        /\ \A id \in read.observations : lead.cursor[scope] < id /\ id <= read.cursor
        /\ \A i \in DOMAIN observations :
             Belongs(observations[i], scope) /\ observations[i].id <= read.cursor
             => observations[i].id \in lead.delivered[scope] \cup read.observations
    BY <1>1, <1>2 DEF ObservationsInv, AnswerIsWhole
  <1>5. /\ lead.unresolved \subseteq DOMAIN findings /\ read.findings \subseteq DOMAIN findings
    BY <1>2 DEF FindingsInv, FindingsAreThere
  <1> HIDE DEF read
  <1>6. /\ lead'.cursor = [lead.cursor EXCEPT ![scope] = read.cursor]
        /\ lead'.delivered = [lead.delivered EXCEPT ![scope] = @ \cup read.observations]
        /\ lead'.unresolved = lead.unresolved \cup read.findings
    BY <1>1
  <1>7. /\ lead'.cursor[scope] = read.cursor
        /\ lead'.delivered[scope] = lead.delivered[scope] \cup read.observations
        /\ \A other \in Scope \ {scope} : /\ lead'.cursor[other] = lead.cursor[other]
                                          /\ lead'.delivered[other] = lead.delivered[other]
        /\ lead'.cursor \in [Scope -> 0..MaxObservations]
        /\ lead'.delivered \in [Scope -> SUBSET ObservationId]
    <2>1. lead.delivered[scope] \cup read.observations \in SUBSET ObservationId
      BY <1>3
    <2> QED
      BY <1>3, <1>6, <2>1
  <1>8. lead' \in Lead
    BY <1>1, <1>3, <1>6, <1>7 DEF Lead
  <1>9. TypeOK'
    BY <1>1, <1>2, <1>8, NothingIsAnAnswer DEF TypeOK
  <1>10. Committed' = Committed
    BY <1>1 DEF Committed
  <1>11. OneWriter' /\ NewIsLast'
    BY <1>1, <1>2, <1>10 DEF ObservationsInv, OneWriter, NewIsLast, Writing
  <1>12. CursorIsCommitted'
    BY <1>2, <1>4, <1>7, <1>10 DEF ObservationsInv, CursorIsCommitted
  <1>13. DeliveredIsBehind'
    <2>1. \A id \in lead.delivered[scope] : id <= read.cursor
      <3>1. \A id \in lead.delivered[scope] : id <= lead.cursor[scope] /\ id \in Nat
        BY <1>2, <1>3 DEF ObservationsInv, DeliveredIsBehind, ObservationId
      <3>2. lead.cursor[scope] \in Nat /\ read.cursor \in Nat
        BY <1>3
      <3> QED
        BY <1>4, <3>1, <3>2
    <2> QED
      BY <1>2, <1>4, <1>7, <2>1 DEF ObservationsInv, DeliveredIsBehind
  <1>14. NoneOmitted'
    <2> SUFFICES ASSUME NEW other \in Scope, NEW i \in DOMAIN observations,
                        observations[i].id <= lead'.cursor[other],
                        Belongs(observations[i], other)
                 PROVE  observations[i].id \in lead'.delivered[other]
      BY <1>1 DEF NoneOmitted, Belongs, InScope
    <2>1. CASE other = scope
      BY <1>4, <1>7, <2>1
    <2>2. CASE other # scope
      BY <1>2, <1>7, <2>2 DEF ObservationsInv, NoneOmitted
    <2> QED
      BY <2>1, <2>2
  <1>15. AnswerIsWhole'
    BY <1>1, NothingIsAnAnswer DEF AnswerIsWhole
  <1>16. FindingsInv'
    BY <1>1, <1>2, <1>5, <1>6, NothingIsAnAnswer, FindingsLeftAlone
  <1> QED
    BY <1>9, <1>11, <1>12, <1>13, <1>14, <1>15, <1>16 DEF IInv, FindingsInv

LEMMA LoseAnswerKeeps ==
  ASSUME IInv, LoseAnswer
  PROVE  IInv'
  <1>1. answer' = Nothing /\ UNCHANGED <<observations, findings, writers, resolver, lead>>
    BY DEF LoseAnswer
  <1>2. TypeOK /\ ObservationsInv /\ FindingsInv
    BY Halves
  <1>3. TypeOK'
    BY <1>1, <1>2, NothingIsAnAnswer DEF TypeOK
  <1>4. ObservationsInv'
    BY <1>1, <1>2, NothingIsAnAnswer, ObservationsLeftAlone
  <1>5. FindingsInv'
    BY <1>1, <1>2, NothingIsAnAnswer, FindingsLeftAlone DEF FindingsInv, FindingsAreThere
  <1> QED
    BY <1>3, <1>4, <1>5 DEF IInv, ObservationsInv, FindingsInv

\* The lead's map shrinks, and nothing else of it changes.
LEMMA MapShrinks ==
  ASSUME TypeOK, NEW S \in SUBSET lead.unresolved, lead' = [lead EXCEPT !.unresolved = S]
  PROVE  /\ lead' \in Lead /\ UNCHANGED <<lead.cursor, lead.delivered>>
         /\ lead'.unresolved \subseteq lead.unresolved
  BY DEF TypeOK, Lead

LEMMA LoseMapKeeps ==
  ASSUME IInv, LoseMap
  PROVE  IInv'
  <1>1. /\ lead' = [lead EXCEPT !.unresolved = {}]
        /\ UNCHANGED <<observations, findings, writers, resolver, answer>>
    BY DEF LoseMap
  <1>2. TypeOK /\ ObservationsInv /\ FindingsInv
    BY Halves
  <1>3. /\ lead' \in Lead /\ UNCHANGED <<lead.cursor, lead.delivered>>
        /\ lead'.unresolved \subseteq lead.unresolved
    BY <1>1, <1>2, MapShrinks
  <1>4. TypeOK'
    BY <1>1, <1>2, <1>3 DEF TypeOK
  <1>5. ObservationsInv'
    BY <1>1, <1>2, <1>3, ObservationsLeftAlone
  <1>6. FindingsInv'
    BY <1>1, <1>2, <1>3, FindingsLeftAlone DEF FindingsInv, FindingsAreThere
  <1> QED
    BY <1>4, <1>5, <1>6 DEF IInv, ObservationsInv, FindingsInv

LEMMA ResolveKeeps ==
  ASSUME IInv, Resolve
  PROVE  IInv'
  <1>1. /\ resolver' \in lead.unresolved
        /\ UNCHANGED <<observations, findings, writers, answer, lead>>
    BY DEF Resolve
  <1>2. TypeOK /\ ObservationsInv /\ FindingsInv
    BY Halves
  <1>3. resolver' \in FindingId /\ resolver' \in DOMAIN findings
    BY <1>1, <1>2, Types DEF FindingsInv, FindingsAreThere
  <1>4. TypeOK'
    BY <1>1, <1>2, <1>3 DEF TypeOK
  <1>5. ObservationsInv'
    BY <1>1, <1>2, ObservationsLeftAlone
  <1>6. FindingsInv'
    BY <1>1, <1>2, <1>3 DEF FindingsInv, FindingsAreThere, VerdictFits
  <1> QED
    BY <1>4, <1>5, <1>6 DEF IInv, ObservationsInv, FindingsInv

\* What a verdict does to the findings.
LEMMA VerdictWrites ==
  ASSUME TypeOK, FindingsInv, NEW f \in DOMAIN findings,
         NEW verdict \in {"task", "dropped"}, NEW fix \in Scope,
         Consistent(verdict, fix), WriteVerdict(f, verdict, fix)
  PROVE  /\ findings' \in Seq(Finding) /\ Len(findings') = Len(findings)
         /\ DOMAIN findings' = DOMAIN findings
         /\ \A g \in DOMAIN findings : VerdictFits(g)'
         /\ \A g \in DOMAIN findings : findings[g].verdict # "none" => findings'[g] = findings[g]
  <1> USE ConstantsAssumption DEF ConstantsAssumption
  <1> DEFINE new == [findings[f] EXCEPT !.verdict = verdict, !.fix = fix]
  <1>1. findings[f].verdict = "none" /\ findings' = [findings EXCEPT ![f] = new]
    BY DEF WriteVerdict
  <1>2. findings \in Seq(Finding) /\ findings[f] \in Finding
    BY DEF TypeOK
  <1>3. new \in Finding /\ new.verdict = verdict /\ new.fix = fix
    BY <1>2 DEF Finding
  <1>4. verdict = "task" <=> fix \in Task
    <2>1. 0 \notin Task
      OBVIOUS
    <2> QED
      BY <2>1 DEF Consistent
  <1> HIDE DEF new
  <1>5. /\ findings' \in Seq(Finding) /\ Len(findings') = Len(findings)
        /\ DOMAIN findings' = DOMAIN findings /\ findings'[f] = new
        /\ \A g \in DOMAIN findings \ {f} : findings'[g] = findings[g]
    BY <1>1, <1>2, <1>3
  <1>6. ASSUME NEW g \in DOMAIN findings PROVE VerdictFits(g)'
    BY <1>3, <1>4, <1>5 DEF FindingsInv, VerdictFits
  <1> QED
    BY <1>1, <1>5, <1>6

LEMMA EndResolveKeeps ==
  ASSUME IInv, EndResolve
  PROVE  IInv'
  <1>1. resolver # 0 /\ resolver' = 0 /\ UNCHANGED <<observations, writers, answer>>
    BY DEF EndResolve
  <1>2. TypeOK /\ ObservationsInv /\ FindingsInv
    BY Halves
  <1>3. resolver \in DOMAIN findings
    BY <1>1, <1>2 DEF FindingsInv, FindingsAreThere
  <1>4. lead' = [lead EXCEPT !.unresolved = @ \ {resolver}] \/ UNCHANGED lead
    BY DEF EndResolve
  <1>5. /\ lead' \in Lead /\ UNCHANGED <<lead.cursor, lead.delivered>>
        /\ lead'.unresolved \subseteq lead.unresolved
    <2>1. CASE lead' = [lead EXCEPT !.unresolved = @ \ {resolver}]
      <3>1. lead.unresolved \ {resolver} \in SUBSET lead.unresolved
        OBVIOUS
      <3> QED
        BY <1>2, <2>1, <3>1, MapShrinks
    <2>2. CASE UNCHANGED lead
      BY <1>2, <2>2 DEF TypeOK
    <2> QED
      BY <1>4, <2>1, <2>2
  <1>6. /\ findings' \in Seq(Finding) /\ Len(findings') = Len(findings)
        /\ DOMAIN findings' = DOMAIN findings
        /\ \A f \in DOMAIN findings : VerdictFits(f)'
    <2>1. CASE UNCHANGED findings
      BY <1>2, <2>1 DEF TypeOK, FindingsInv, VerdictFits
    <2>2. CASE \E verdict \in {"task", "dropped"}, fix \in Scope :
                 Consistent(verdict, fix) /\ WriteVerdict(resolver, verdict, fix)
      BY <1>2, <1>3, <2>2, VerdictWrites
    <2> QED
      BY <2>1, <2>2 DEF EndResolve
  <1>7. TypeOK'
    BY <1>1, <1>2, <1>5, <1>6 DEF TypeOK
  <1>8. ObservationsInv'
    BY <1>1, <1>2, <1>5, ObservationsLeftAlone
  <1>9. FindingsInv'
    BY <1>1, <1>2, <1>5, <1>6 DEF FindingsInv, FindingsAreThere
  <1> QED
    BY <1>7, <1>8, <1>9 DEF IInv, ObservationsInv, FindingsInv

-----------------------------------------------------------------------------
\* Every step of the commentators and of the lead keeps it.
LEMMA Inductive == IInv /\ [Next]_vars => IInv'
  <1> SUFFICES ASSUME IInv, [Next]_vars PROVE IInv'
    OBVIOUS
  <1>1. CASE \E w \in Writers : Observe(w) \/ CommitObserve(w) \/ KillWriter(w)
    BY <1>1, ObserveKeeps, CommitObserveKeeps, KillWriterKeeps
  <1>2. CASE Register
    BY <1>2, RegisterKeeps
  <1>3. CASE \E scope \in Scope : Poll(scope) \/ Receive(scope)
    BY <1>3, PollKeeps, ReceiveKeeps
  <1>4. CASE LoseAnswer \/ LoseMap \/ Resolve \/ EndResolve
    BY <1>4, LoseAnswerKeeps, LoseMapKeeps, ResolveKeeps, EndResolveKeeps
  <1>5. CASE UNCHANGED vars
    <2>1. UNCHANGED <<observations, findings, writers, resolver, answer, lead>>
      BY <1>5 DEF vars
    <2>2. TypeOK /\ ObservationsInv /\ FindingsInv
      BY Halves
    <2>3. TypeOK'
      BY <2>1, <2>2 DEF TypeOK
    <2>4. ObservationsInv'
      BY <2>1, <2>2, ObservationsLeftAlone
    <2>5. FindingsInv'
      BY <2>1, <2>2 DEF FindingsInv, FindingsAreThere, VerdictFits
    <2> QED
      BY <2>3, <2>4, <2>5 DEF IInv, ObservationsInv, FindingsInv
  <1> QED
    BY <1>1, <1>2, <1>3, <1>4, <1>5 DEF Next

\* The log, the cursors and the answers are never out of step.
THEOREM Invariant == Spec => []IInv
  BY InitHolds, Inductive, PTL DEF Spec

\* The log and what the lead retains keep their types.
THEOREM TypeCorrect == Spec => []TypeOK
  <1>1. IInv => TypeOK
    BY DEF IInv
  <1> QED
    BY <1>1, Invariant, PTL

\* No observation is passed over: ids are given under the lock that commits
\* them, so none can commit behind a cursor (cmd_observe, cmd_poll).
THEOREM NoObservationOmitted == Spec => []NoneOmitted
  <1>1. IInv => NoneOmitted
    BY DEF IInv
  <1> QED
    BY <1>1, Invariant, PTL

\* No observation comes twice to a lead that reads its answers (cmd_poll).
THEOREM NoObservationRepeated == Spec => []NoneRepeated
  <1>1. IInv => NoneRepeated
    <2> SUFFICES ASSUME IInv, answer.pending,
                        NEW id \in answer.read.observations,
                        id \in lead.delivered[answer.scope]
                 PROVE  FALSE
      BY DEF NoneRepeated
    <2> DEFINE cursor == lead.cursor[answer.scope]
    <2>1. /\ answer.scope \in Scope /\ lead.cursor \in [Scope -> 0..MaxObservations]
          /\ answer.read.observations \subseteq ObservationId
      BY Types DEF IInv
    <2>2. cursor \in Nat /\ id \in Nat
      BY <2>1, ConstantsAssumption DEF ObservationId, ConstantsAssumption
    <2>3. cursor < id
      BY DEF IInv, AnswerIsWhole
    <2>4. id <= cursor
      BY <2>1 DEF IInv, DeliveredIsBehind
    <2> HIDE DEF cursor
    <2> QED
      BY <2>2, <2>3, <2>4
  <1> QED
    BY <1>1, Invariant, PTL

\* No step takes a finding or its verdict back.
LEMMA VerdictsStay ==
  ASSUME IInv, Next
  PROVE  \A f \in DOMAIN findings :
           /\ f \in DOMAIN findings'
           /\ findings[f].verdict # "none" => findings'[f] = findings[f]
           /\ findings'[f].verdict = "task" <=> findings'[f].fix \in Task
  <1>1. TypeOK /\ FindingsInv
    BY Halves
  <1>2. CASE UNCHANGED findings
    BY <1>1, <1>2 DEF FindingsInv, VerdictFits
  <1>3. CASE Register
    <2>1. PICK new : findings' = Append(findings, new)
      BY <1>3 DEF Register
    <2>2. \A f \in DOMAIN findings : f \in DOMAIN findings' /\ findings'[f] = findings[f]
      BY <1>1, <2>1 DEF TypeOK
    <2> QED
      BY <1>1, <2>2 DEF FindingsInv, VerdictFits
  <1>4. CASE EndResolve
    <2>1. resolver \in DOMAIN findings
      BY <1>1, <1>4 DEF EndResolve, FindingsInv, FindingsAreThere
    <2>2. PICK verdict \in {"task", "dropped"}, fix \in Scope :
            UNCHANGED findings \/ (Consistent(verdict, fix) /\ WriteVerdict(resolver, verdict, fix))
      <3>1. 0 \in Scope
        BY DEF Scope
      <3> QED
        BY <1>4, <3>1 DEF EndResolve
    <2>3. CASE Consistent(verdict, fix) /\ WriteVerdict(resolver, verdict, fix)
      BY <1>1, <2>1, <2>3, VerdictWrites DEF VerdictFits
    <2> QED
      BY <1>2, <2>2, <2>3
  <1> QED
    BY <1>2, <1>3, <1>4 DEF Next, Observe, CommitObserve, KillWriter, Poll, Receive,
      LoseAnswer, LoseMap, Resolve

\* A verdict is final and fits its fix task (cmd_resolve, finding::resolve).
THEOREM VerdictsFinal == Spec => VerdictsAreFinal
  <1>1. IInv /\ [Next]_vars =>
          [\A f \in DOMAIN findings :
             /\ findings[f].verdict # "none" => findings'[f] = findings[f]
             /\ findings'[f].verdict = "task" <=> findings'[f].fix \in Task]_vars
    BY VerdictsStay
  <1> QED
    BY <1>1, Invariant, PTL DEF Spec, VerdictsAreFinal

-----------------------------------------------------------------------------
(* The way back *)

\* `resolutions` only reads: with it the log is what it is without.
THEOREM ImplementsReviewLog == ReviewSpec => Spec
  <1>1. ReviewInit => Init
    BY DEF ReviewInit
  <1>2. [ReviewNext]_reviewVars => [Next]_vars
    BY DEF ReviewNext, Reconcile, reviewVars
  <1> QED
    BY <1>1, <1>2, PTL DEF ReviewSpec, Spec

LEMMA ClosedIsKept == IInv /\ ClosedAsDecided /\ [ReviewNext]_reviewVars => ClosedAsDecided'
  <1> SUFFICES ASSUME IInv, ClosedAsDecided, [ReviewNext]_reviewVars,
                      NEW f \in FindingId, closed'[f] # Unclosed
               PROVE  (f \in Resolved /\ closed[f] = Resolution(f))'
    BY DEF ClosedAsDecided, Unclosed
  <1>1. CASE UNCHANGED reviewVars
    BY <1>1 DEF reviewVars, vars, ClosedAsDecided, Resolved, Open, Resolution
  <1>2. CASE Reconcile
    <2>1. UNCHANGED findings
      BY <1>2 DEF Reconcile, vars
    <2>2. closed'[f] = IF f \in Listed THEN Resolution(f) ELSE closed[f]
      BY <1>2 DEF Reconcile
    <2>3. f \in Listed <=> f \in Resolved
      BY DEF Listed, Resolved, Open
    <2>4. f \in Resolved
      BY <2>2, <2>3 DEF ClosedAsDecided
    <2> QED
      BY <2>1, <2>2, <2>3, <2>4 DEF Resolved, Open, Resolution
  <1>3. CASE Next /\ UNCHANGED closed
    <2>1. f \in Resolved /\ closed[f] = Resolution(f)
      BY <1>3 DEF ClosedAsDecided
    <2>2. f \in DOMAIN findings' /\ findings'[f] = findings[f]
      BY <1>3, <2>1, VerdictsStay DEF Resolved, Open
    <2> QED
      BY <1>3, <2>1, <2>2 DEF Resolved, Open, Resolution
  <1> QED
    BY <1>1, <1>2, <1>3 DEF ReviewNext

\* A commentator that closed a finding, at whatever time and however it and the
\* lead went on, holds the verdict and the fix task that were recorded.
THEOREM ClosedForGood == ReviewSpec => []ClosedAsDecided
  <1>1. ReviewInit => ClosedAsDecided
    BY DEF ReviewInit, ClosedAsDecided
  <1>2. ReviewSpec => []IInv
    BY ImplementsReviewLog, Invariant, PTL
  <1> QED
    BY <1>1, <1>2, ClosedIsKept, PTL DEF ReviewSpec
=============================================================================
