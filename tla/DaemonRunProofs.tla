--------------------------- MODULE DaemonRunProofs ---------------------------
(***************************************************************************)
(* For any number of daemons and leads: the run has one live lead, which   *)
(* does not come back once another followed it; where daemons do not       *)
(* overlap, a lead's limit is recorded once and a daemon that was told to  *)
(* stop does; where they do, a limit is recorded by no more daemons than   *)
(* there are.  With a clock beside them: a daemon that is gone is told of, *)
(* and all this holds as well.  The last part is of the times of tasks and *)
(* waits: their sums fit into the time there was.                          *)
(***************************************************************************)
EXTENDS Watchkeeping, FiniteSetTheorems, WellFoundedInduction, TLAPS

-----------------------------------------------------------------------------
(* The inductive invariant *)

\* A daemon that looks at a row looks at one there is.
RowIsThere ==
  \A d \in Daemons : daemons[d].pc \in {"read", "latch"} => daemons[d].row \in DOMAIN rows

\* external_session_id is unique.
OneRowPerLead ==
  \A r, s \in DOMAIN rows : rows[r].lead = rows[s].lead => r = s

OneUp == \A d, e \in Daemons : ~At(d, "off") /\ ~At(e, "off") => d = e

\* What a snapshot said of the latch is still so.
MayLatch(d) == At(d, "latch") \/ (At(d, "read") /\ daemons[d].latch)

LatchIsFresh == \A d \in Daemons : MayLatch(d) => ~rows[daemons[d].row].over

\* Who was told to stop still has the request before it.
RequestStands == \A d \in told : InLoop(d) /\ stopping

\* What holds of daemons that do not overlap.
Alone == OneUp /\ LatchIsFresh /\ RequestStands /\ OverLimitOnce

IInv ==
  /\ TypeOK /\ NewestLeadLives /\ RowIsThere /\ OneRowPerLead
  /\ ~Overlap => Alone

-----------------------------------------------------------------------------
LEMMA InitHolds == Init => IInv
  <1> SUFFICES ASSUME Init PROVE IInv
    OBVIOUS
  <1> USE ConstantsAssumption DEF ConstantsAssumption
  <1>1. rows = <<>> /\ Len(rows) = 0 /\ DOMAIN rows = {} /\ rows \in Seq(LeadRow)
    BY DEF Init
  <1>2. \A d \in Daemons : daemons[d] = Off
    BY DEF Init
  <1>3. Off \in Daemon
    BY DEF Off, Daemon
  <1>4. daemons \in [Daemons -> Daemon]
    BY <1>3 DEF Init
  <1>5. \A d \in Daemons : daemons[d].row <= Len(rows)
    BY <1>1, <1>2 DEF Off
  <1>6. /\ stopLeads \in [Leads -> 0..MaxEvents] /\ stopping \in BOOLEAN
        /\ context \in [Leads -> {"unknown", "within", "over"}] /\ told \subseteq Daemons
    <2>1. 0 \in 0..MaxEvents
      OBVIOUS
    <2> QED
      BY <2>1 DEF Init
  <1>7. TypeOK
    BY <1>1, <1>4, <1>5, <1>6 DEF TypeOK
  <1>8. NewestLeadLives /\ RowIsThere /\ OneRowPerLead
    BY <1>1, <1>2 DEF NewestLeadLives, RowIsThere, OneRowPerLead, Off
  <1>9. Alone
    BY <1>1, <1>2 DEF Alone, OneUp, LatchIsFresh, RequestStands, OverLimitOnce,
      MayLatch, At, Off, Init
  <1> QED
    BY <1>7, <1>8, <1>9 DEF IInv

\* A row appended by a registration, and what becomes of the rows before it.
LEMMA RegisteredRows ==
  ASSUME TypeOK, NEW l \in Leads,
         rows' = Append(Stopped, [lead |-> l, live |-> TRUE, over |-> FALSE])
  PROVE  /\ rows' \in Seq(LeadRow) /\ Len(rows') = Len(rows) + 1
         /\ DOMAIN rows' = DOMAIN rows \cup {Len(rows')}
         /\ \A r \in DOMAIN rows : /\ rows'[r].lead = rows[r].lead
                                   /\ rows'[r].over = rows[r].over /\ ~rows'[r].live
         /\ rows'[Len(rows')] = [lead |-> l, live |-> TRUE, over |-> FALSE]
         /\ Len(rows') \notin DOMAIN rows
  <1> DEFINE row == [lead |-> l, live |-> TRUE, over |-> FALSE]
  <1>1. rows \in Seq(LeadRow) /\ DOMAIN rows = 1..Len(rows) /\ Len(rows) \in Nat
    BY DEF TypeOK
  <1>2. \A r \in DOMAIN rows : rows[r] \in LeadRow
    BY <1>1
  <1>3. \A r \in DOMAIN rows : [rows[r] EXCEPT !.live = FALSE] \in LeadRow
    BY <1>2 DEF LeadRow
  <1>4. Stopped \in Seq(LeadRow) /\ Len(Stopped) = Len(rows)
    BY <1>1, <1>3 DEF Stopped
  <1>5. \A r \in DOMAIN rows : /\ Stopped[r].lead = rows[r].lead
                               /\ Stopped[r].over = rows[r].over /\ ~Stopped[r].live
    BY <1>2 DEF Stopped, LeadRow
  <1>6. row \in LeadRow
    BY DEF LeadRow
  <1> HIDE DEF row
  <1>7. rows' = Append(Stopped, row)
    BY DEF row
  <1>8. /\ rows' \in Seq(LeadRow) /\ Len(rows') = Len(rows) + 1
        /\ \A r \in 1..Len(rows) : rows'[r] = Stopped[r]
        /\ rows'[Len(rows) + 1] = row
    BY <1>1, <1>4, <1>6, <1>7
  <1>9. row = [lead |-> l, live |-> TRUE, over |-> FALSE]
    BY DEF row
  <1>10. DOMAIN rows' = 1..Len(rows) + 1 /\ Len(rows) + 1 \notin 1..Len(rows)
    BY <1>1, <1>8
  <1>11. 1..Len(rows) + 1 = 1..Len(rows) \cup {Len(rows) + 1}
    BY <1>1
  <1>12. Stopped \in Seq(LeadRow) /\ \A r \in DOMAIN rows : rows'[r] = Stopped[r]
    BY <1>1, <1>4, <1>8
  <1> QED
    BY <1>1, <1>5, <1>8, <1>9, <1>10, <1>11, <1>12

\* A step of one daemon to a place where it holds no row leaves what is said of
\* the rows and of every other daemon's row as it was.
LEMMA GotoKeeps ==
  ASSUME IInv, NEW d \in Daemons,
         NEW pc \in {"off", "registered", "refused", "poll", "snapshot"},
         Goto(d, pc), UNCHANGED rows
  PROVE  /\ daemons' \in [Daemons -> Daemon]
         /\ \A e \in Daemons : daemons'[e].row <= Len(rows')
         /\ NewestLeadLives' /\ RowIsThere' /\ OneRowPerLead'
         /\ ~Overlap => LatchIsFresh'
         /\ daemons'[d].pc = pc
         /\ \A e \in Daemons \ {d} : daemons'[e] = daemons[e]
  <1>1. daemons \in [Daemons -> Daemon] /\ Len(rows) \in Nat
    <2>1. daemons \in [Daemons -> Daemon] /\ rows \in Seq(LeadRow)
      BY DEF IInv, TypeOK
    <2> QED
      BY <2>1
  <1>2. [pc |-> pc, row |-> 0, latch |-> FALSE] \in Daemon
    BY DEF Daemon
  <1>3. /\ daemons'[d] = [pc |-> pc, row |-> 0, latch |-> FALSE]
        /\ \A e \in Daemons \ {d} : daemons'[e] = daemons[e]
        /\ daemons' \in [Daemons -> Daemon]
    BY <1>1, <1>2 DEF Goto
  <1>4. \A e \in Daemons : daemons'[e].row <= Len(rows')
    <2>1. \A e \in Daemons : daemons[e].row <= Len(rows)
      BY DEF IInv, TypeOK
    <2>2. 0 <= Len(rows)
      BY <1>1
    <2> QED
      BY <1>3, <2>1, <2>2
  <1>5. NewestLeadLives' /\ OneRowPerLead'
    BY DEF IInv, NewestLeadLives, OneRowPerLead
  <1>6. RowIsThere'
    BY <1>3 DEF IInv, RowIsThere
  <1>7. ASSUME ~Overlap PROVE LatchIsFresh'
    BY <1>3, <1>7 DEF IInv, Alone, LatchIsFresh, MayLatch, At
  <1> QED
    BY <1>3, <1>4, <1>5, <1>6, <1>7

-----------------------------------------------------------------------------
(* One lemma per action *)

LEMMA StartKeeps ==
  ASSUME IInv, NEW d \in Daemons, NEW l \in Leads, Start(d, l)
  PROVE  IInv'
  <1> USE ConstantsAssumption DEF ConstantsAssumption
  <1>1. /\ At(d, "off") /\ RegisterLead(d, l)
        /\ UNCHANGED <<stopping, stopLeads, context, told>>
        /\ Overlap \/ \A other \in Daemons : At(other, "off")
    BY DEF Start
  <1>2. daemons \in [Daemons -> Daemon] /\ rows \in Seq(LeadRow) /\ told \subseteq Daemons
    BY DEF IInv, TypeOK
  <1>3. CASE /\ UNCHANGED rows
             /\ \E pc \in {"registered", "refused"} : Goto(d, pc)
    <2>1. PICK pc \in {"registered", "refused"} : Goto(d, pc)
      BY <1>3
    <2>2. /\ daemons' \in [Daemons -> Daemon]
          /\ \A e \in Daemons : daemons'[e].row <= Len(rows')
          /\ NewestLeadLives' /\ RowIsThere' /\ OneRowPerLead'
          /\ ~Overlap => LatchIsFresh'
          /\ daemons'[d].pc = pc
          /\ \A e \in Daemons \ {d} : daemons'[e] = daemons[e]
      BY <1>3, <2>1, GotoKeeps
    <2>3. TypeOK'
      BY <1>1, <1>3, <2>2 DEF IInv, TypeOK
    <2>4. ASSUME ~Overlap PROVE Alone'
      <3>1. OneUp'
        BY <1>1, <2>2, <2>4 DEF OneUp, At
      <3>2. told = {}
        BY <1>1, <1>2, <2>4 DEF IInv, Alone, RequestStands, InLoop, At
      <3>3. RequestStands'
        BY <1>1, <3>2 DEF RequestStands
      <3>4. OverLimitOnce'
        BY <1>1, <1>3, <2>4 DEF IInv, Alone, OverLimitOnce, Recorded
      <3> QED
        BY <2>2, <2>4, <3>1, <3>3, <3>4 DEF Alone
    <2> QED
      BY <2>2, <2>3, <2>4 DEF IInv
  <1>4. CASE /\ ~Recorded(l) /\ Goto(d, "registered")
             /\ rows' = Append(Stopped, [lead |-> l, live |-> TRUE, over |-> FALSE])
    <2>1. /\ rows' \in Seq(LeadRow) /\ Len(rows') = Len(rows) + 1
          /\ DOMAIN rows' = DOMAIN rows \cup {Len(rows')}
          /\ \A r \in DOMAIN rows : /\ rows'[r].lead = rows[r].lead
                                    /\ rows'[r].over = rows[r].over /\ ~rows'[r].live
          /\ rows'[Len(rows')] = [lead |-> l, live |-> TRUE, over |-> FALSE]
          /\ Len(rows') \notin DOMAIN rows
      BY <1>4, RegisteredRows DEF IInv
    <2>2. Len(rows) \in Nat /\ DOMAIN rows = 1..Len(rows)
      BY <1>2
    <2>3. /\ daemons'[d] = [pc |-> "registered", row |-> 0, latch |-> FALSE]
          /\ \A e \in Daemons \ {d} : daemons'[e] = daemons[e]
          /\ daemons' \in [Daemons -> Daemon]
      BY <1>2, <1>4 DEF Goto, Daemon
    <2>4. \A e \in Daemons : daemons'[e].row <= Len(rows')
      <3> TAKE e \in Daemons
      <3>1. daemons[e].row \in Nat /\ daemons[e].row <= Len(rows)
        BY <1>2 DEF IInv, TypeOK, Daemon
      <3> QED
        BY <2>1, <2>2, <2>3, <3>1
    <2>5. TypeOK'
      BY <1>1, <2>1, <2>3, <2>4 DEF IInv, TypeOK
    <2>6. NewestLeadLives'
      BY <2>1 DEF NewestLeadLives
    <2>7. RowIsThere'
      <3>1. \A e \in Daemons : daemons[e].pc \in {"read", "latch"} => daemons[e].row \in DOMAIN rows
        BY DEF IInv, RowIsThere
      <3>2. \A e \in Daemons : daemons'[e].pc \in {"read", "latch"} => daemons'[e].row \in DOMAIN rows
        BY <2>3, <3>1
      <3> QED
        BY <2>1, <3>2 DEF RowIsThere
    <2>8. OneRowPerLead'
      <3>1. \A r, s \in DOMAIN rows : rows[r].lead = rows[s].lead => r = s
        BY DEF IInv, OneRowPerLead
      <3>2. \A r \in DOMAIN rows : rows[r].lead # l
        BY <1>4 DEF Recorded
      <3>3. rows'[Len(rows')].lead = l
        BY <2>1
      <3>4. SUFFICES ASSUME NEW r \in DOMAIN rows', NEW s \in DOMAIN rows',
                            rows'[r].lead = rows'[s].lead
                     PROVE  r = s
        BY DEF OneRowPerLead
      <3>5. CASE r \in DOMAIN rows /\ s \in DOMAIN rows
        BY <2>1, <3>1, <3>4, <3>5
      <3>6. CASE r \notin DOMAIN rows \/ s \notin DOMAIN rows
        BY <2>1, <3>2, <3>3, <3>4, <3>6
      <3> QED
        BY <3>5, <3>6
    <2>9. ASSUME ~Overlap PROVE Alone'
      <3>1. OneUp'
        BY <1>1, <2>3, <2>9 DEF OneUp, At
      <3>2. LatchIsFresh'
        BY <1>1, <2>3, <2>9 DEF LatchIsFresh, MayLatch, At
      <3>3. told = {}
        BY <1>1, <1>2, <2>9 DEF IInv, Alone, RequestStands, InLoop, At
      <3>4. RequestStands'
        BY <1>1, <3>3 DEF RequestStands
      <3>5. stopLeads[l] = 0
        <4>1. stopLeads[l] \in 0..MaxEvents /\ ~(stopLeads[l] > 0)
          BY <1>4, <2>9 DEF IInv, TypeOK, Alone, OverLimitOnce
        <4> QED
          BY <4>1
      <3>6. \A r \in DOMAIN rows' :
              stopLeads'[rows'[r].lead] = IF rows'[r].over THEN 1 ELSE 0
        BY <1>1, <2>1, <2>9, <3>5 DEF IInv, Alone, OverLimitOnce
      <3>7. \A k \in Leads : Recorded(k) => Recorded(k)'
        BY <2>1 DEF Recorded
      <3>8. OverLimitOnce'
        BY <1>1, <2>9, <3>6, <3>7 DEF IInv, Alone, OverLimitOnce
      <3> QED
        BY <3>1, <3>2, <3>4, <3>8 DEF Alone
    <2> QED
      BY <2>5, <2>6, <2>7, <2>8, <2>9 DEF IInv
  <1> QED
    BY <1>1, <1>3, <1>4 DEF RegisterLead

\* What a step leaves of OverLimitOnce that touches neither rows nor events.
LEMMA EventsKept ==
  ASSUME OverLimitOnce, UNCHANGED <<rows, stopLeads>>
  PROVE  OverLimitOnce'
  BY DEF OverLimitOnce, Recorded

\* A step to a place without a row, by a daemon that was up.
LEMMA MoveKeeps ==
  ASSUME IInv, NEW d \in Daemons, ~At(d, "off"),
         NEW pc \in {"off", "registered", "refused", "poll", "snapshot"},
         Goto(d, pc), UNCHANGED <<rows, stopLeads, context>>,
         stopping' \in BOOLEAN, told' \subseteq Daemons, ~Overlap => RequestStands'
  PROVE  IInv'
  <1>1. /\ daemons' \in [Daemons -> Daemon]
        /\ \A e \in Daemons : daemons'[e].row <= Len(rows')
        /\ NewestLeadLives' /\ RowIsThere' /\ OneRowPerLead'
        /\ ~Overlap => LatchIsFresh'
        /\ daemons'[d].pc = pc
        /\ \A e \in Daemons \ {d} : daemons'[e] = daemons[e]
    BY GotoKeeps
  <1>2. TypeOK'
    BY <1>1 DEF IInv, TypeOK
  <1>3. ASSUME ~Overlap PROVE Alone'
    <2>1. OneUp'
      BY <1>1, <1>3 DEF IInv, Alone, OneUp, At
    <2>2. OverLimitOnce'
      BY <1>3, EventsKept DEF IInv, Alone
    <2> QED
      BY <1>1, <1>3, <2>1, <2>2 DEF Alone
  <1> QED
    BY <1>1, <1>2, <1>3 DEF IInv

\* Whoever was told to stop is still told the same, unless it is this daemon.
LEMMA ToldKeeps ==
  ASSUME IInv, ~Overlap, NEW d \in Daemons, NEW pc, Goto(d, pc), stopping' = stopping,
         told' \subseteq told, d \in told' => pc \in {"poll", "snapshot"}
  PROVE  RequestStands'
  <1>1. daemons \in [Daemons -> Daemon] /\ told \subseteq Daemons
    BY DEF IInv, TypeOK
  <1>2. /\ daemons'[d].pc = pc
        /\ \A e \in Daemons \ {d} : daemons'[e] = daemons[e]
    BY <1>1 DEF Goto
  <1>3. \A e \in told : InLoop(e) /\ stopping
    BY DEF IInv, Alone, RequestStands
  <1>4. ASSUME NEW e \in told' PROVE InLoop(e)'
    BY <1>1, <1>2, <1>3, <1>4 DEF InLoop
  <1> QED
    BY <1>3, <1>4 DEF RequestStands

LEMMA ExitRefusedKeeps ==
  ASSUME IInv, NEW d \in Daemons, ExitRefused(d)
  PROVE  IInv'
  <1>1. /\ Goto(d, "off") /\ At(d, "refused")
        /\ UNCHANGED <<stopping, rows, stopLeads, context, told>>
    BY DEF ExitRefused
  <1>2. stopping \in BOOLEAN /\ told \subseteq Daemons
    BY DEF IInv, TypeOK
  <1>3. ASSUME ~Overlap PROVE d \notin told
    BY <1>1, <1>3 DEF IInv, Alone, RequestStands, InLoop, At
  <1>4. ASSUME ~Overlap PROVE RequestStands'
    BY <1>1, <1>3, <1>4, ToldKeeps
  <1>5. ~At(d, "off")
    BY <1>1 DEF At
  <1> QED
    BY <1>1, <1>2, <1>4, <1>5, MoveKeeps

\* The others are off when daemons do not overlap, so the request is no one's.
LEMMA ClearStopKeeps ==
  ASSUME IInv, NEW d \in Daemons, ClearStop(d)
  PROVE  IInv'
  <1>1. /\ Goto(d, "poll") /\ At(d, "registered") /\ stopping' = FALSE
        /\ UNCHANGED <<rows, stopLeads, context, told>>
    BY DEF ClearStop
  <1>2. told \subseteq Daemons
    BY DEF IInv, TypeOK
  <1>3. ~At(d, "off")
    BY <1>1 DEF At
  <1>4. ASSUME ~Overlap PROVE told = {}
    <2> SUFFICES ASSUME NEW e \in told PROVE FALSE
      OBVIOUS
    <2>1. InLoop(e)
      BY <1>4 DEF IInv, Alone, RequestStands
    <2>2. e = d
      BY <1>2, <1>3, <1>4, <2>1 DEF IInv, Alone, OneUp, InLoop, At
    <2> QED
      BY <1>1, <2>1, <2>2 DEF InLoop, At
  <1>5. ASSUME ~Overlap PROVE RequestStands'
    BY <1>1, <1>4, <1>5 DEF RequestStands
  <1> QED
    BY <1>1, <1>2, <1>3, <1>5, MoveKeeps

LEMMA PollKeeps ==
  ASSUME IInv, NEW d \in Daemons, Poll(d)
  PROVE  IInv'
  <1>1. At(d, "poll") /\ UNCHANGED <<stopping, rows, stopLeads, context>>
    BY DEF Poll
  <1>2. stopping \in BOOLEAN /\ told \subseteq Daemons
    BY DEF IInv, TypeOK
  <1>3. ~At(d, "off")
    BY <1>1 DEF At
  <1>4. CASE stopping /\ Goto(d, "off") /\ told' = told \ {d}
    <2>1. ASSUME ~Overlap PROVE RequestStands'
      BY <1>1, <1>4, <2>1, ToldKeeps
    <2> QED
      BY <1>1, <1>2, <1>3, <1>4, <2>1, MoveKeeps
  <1>5. CASE ~stopping /\ Goto(d, "snapshot") /\ UNCHANGED told
    <2>1. ASSUME ~Overlap PROVE RequestStands'
      BY <1>1, <1>5, <2>1, ToldKeeps
    <2> QED
      BY <1>1, <1>2, <1>3, <1>5, <2>1, MoveKeeps
  <1> QED
    BY <1>4, <1>5 DEF Poll

LEMMA KillKeeps ==
  ASSUME IInv, NEW d \in Daemons, Kill(d)
  PROVE  IInv'
  <1>1. /\ Up(d) /\ Goto(d, "off") /\ told' = told \ {d}
        /\ UNCHANGED <<stopping, rows, stopLeads, context>>
    BY DEF Kill
  <1>2. stopping \in BOOLEAN /\ told \subseteq Daemons
    BY DEF IInv, TypeOK
  <1>3. ~At(d, "off")
    BY <1>1 DEF At, Up
  <1>4. ASSUME ~Overlap PROVE RequestStands'
    BY <1>1, <1>4, ToldKeeps
  <1> QED
    BY <1>1, <1>2, <1>3, <1>4, MoveKeeps

\* A daemon that goes on to look at a row there is, whose latch it has just
\* read or read before.
LEMMA LookKeeps ==
  ASSUME IInv, NEW d \in Daemons, InLoop(d), NEW r \in DOMAIN rows,
         NEW pc \in {"read", "latch"}, NEW latch \in BOOLEAN,
         daemons' = [daemons EXCEPT ![d] = [pc |-> pc, row |-> r, latch |-> latch]],
         ~Overlap /\ latch => ~rows[r].over, pc = "latch" => latch,
         UNCHANGED <<stopping, rows, stopLeads, context, told>>
  PROVE  IInv'
  <1>1. daemons \in [Daemons -> Daemon] /\ rows \in Seq(LeadRow) /\ told \subseteq Daemons
    BY DEF IInv, TypeOK
  <1>2. r \in Nat /\ r <= Len(rows)
    BY <1>1
  <1>3. [pc |-> pc, row |-> r, latch |-> latch] \in Daemon
    BY <1>2 DEF Daemon
  <1>4. /\ daemons'[d] = [pc |-> pc, row |-> r, latch |-> latch]
        /\ \A e \in Daemons \ {d} : daemons'[e] = daemons[e]
        /\ daemons' \in [Daemons -> Daemon]
    BY <1>1, <1>3
  <1>5. \A e \in Daemons : daemons'[e].row <= Len(rows')
    <2>1. \A e \in Daemons : daemons[e].row <= Len(rows)
      BY DEF IInv, TypeOK
    <2> QED
      BY <1>2, <1>4, <2>1
  <1>6. TypeOK'
    BY <1>4, <1>5 DEF IInv, TypeOK
  <1>7. NewestLeadLives' /\ OneRowPerLead'
    BY DEF IInv, NewestLeadLives, OneRowPerLead
  <1>8. RowIsThere'
    <2>1. \A e \in Daemons : daemons[e].pc \in {"read", "latch"} => daemons[e].row \in DOMAIN rows
      BY DEF IInv, RowIsThere
    <2> QED
      BY <1>4, <2>1 DEF RowIsThere
  <1>9. ASSUME ~Overlap PROVE Alone'
    <2>1. OneUp'
      BY <1>4, <1>9 DEF IInv, Alone, OneUp, At, InLoop
    <2>2. LatchIsFresh'
      <3>1. \A e \in Daemons : MayLatch(e) => ~rows[daemons[e].row].over
        BY <1>9 DEF IInv, Alone, LatchIsFresh
      <3>2. MayLatch(d)' => latch
        BY <1>4 DEF MayLatch, At
      <3> QED
        BY <1>4, <1>9, <3>1, <3>2 DEF LatchIsFresh, MayLatch, At
    <2>3. RequestStands'
      BY <1>1, <1>4, <1>9 DEF IInv, Alone, RequestStands, InLoop
    <2>4. OverLimitOnce'
      BY <1>9, EventsKept DEF IInv, Alone
    <2> QED
      BY <2>1, <2>2, <2>3, <2>4 DEF Alone
  <1> QED
    BY <1>6, <1>7, <1>8, <1>9 DEF IInv

LEMMA SnapshotKeeps ==
  ASSUME IInv, NEW d \in Daemons, Snapshot(d)
  PROVE  IInv'
  <1>1. PICK r \in DOMAIN rows :
          /\ rows[r].live
          /\ daemons' = [daemons EXCEPT ![d] =
               [pc |-> "read", row |-> r, latch |-> CanLatch(rows[r])]]
    BY DEF Snapshot
  <1>2. rows[r] \in LeadRow
    BY DEF IInv, TypeOK
  <1>3. CanLatch(rows[r]) \in BOOLEAN /\ (CanLatch(rows[r]) => ~rows[r].over)
    BY <1>2 DEF CanLatch, LeadRow
  <1>4. InLoop(d) /\ UNCHANGED <<stopping, rows, stopLeads, context, told>>
    BY DEF Snapshot, At, InLoop
  <1> QED
    BY <1>1, <1>3, <1>4, LookKeeps

LEMMA ReadKeeps ==
  ASSUME IInv, NEW d \in Daemons, Read(d)
  PROVE  IInv'
  <1>1. At(d, "read") /\ UNCHANGED <<stopping, rows, stopLeads, context, told>>
    BY DEF Read
  <1>2. InLoop(d) /\ ~At(d, "off")
    BY <1>1 DEF InLoop, At
  <1>3. stopping \in BOOLEAN /\ told \subseteq Daemons /\ daemons[d] \in Daemon
    BY DEF IInv, TypeOK
  <1>4. CASE Goto(d, "poll")
    <2>1. ASSUME ~Overlap PROVE RequestStands'
      BY <1>1, <1>4, <2>1, ToldKeeps
    <2> QED
      BY <1>1, <1>2, <1>3, <1>4, <2>1, MoveKeeps
  <1>5. CASE daemons[d].latch /\ daemons' = [daemons EXCEPT ![d].pc = "latch"]
    <2> DEFINE r == daemons[d].row
    <2>1. r \in DOMAIN rows
      BY <1>1 DEF IInv, RowIsThere, At
    <2>2. ~Overlap => ~rows[r].over
      BY <1>1, <1>5 DEF IInv, Alone, LatchIsFresh, MayLatch
    <2> DEFINE latch == daemons[d].latch
    <2>3. [daemons[d] EXCEPT !.pc = "latch"] = [pc |-> "latch", row |-> r, latch |-> latch]
      BY <1>3 DEF Daemon
    <2>4. daemons' = [daemons EXCEPT ![d] = [pc |-> "latch", row |-> r, latch |-> latch]]
      BY <1>5, <2>3
    <2>5. latch \in BOOLEAN /\ latch
      BY <1>3, <1>5 DEF Daemon
    <2> HIDE DEF r, latch
    <2> QED
      BY <1>1, <1>2, <2>1, <2>2, <2>4, <2>5, LookKeeps
  <1> QED
    BY <1>4, <1>5 DEF Read

\* The row was not over when it is latched, if no one else is up; so this is
\* its first event.
LEMMA LatchKeeps ==
  ASSUME IInv, NEW d \in Daemons, Latch(d)
  PROVE  IInv'
  <1> USE ConstantsAssumption DEF ConstantsAssumption
  <1> DEFINE r == daemons[d].row
             l == rows[r].lead
  <1>1. /\ At(d, "latch") /\ Goto(d, "poll")
        /\ rows' = [rows EXCEPT ![r].over = TRUE]
        /\ stopLeads' = [stopLeads EXCEPT ![l] = IF @ < MaxEvents THEN @ + 1 ELSE @]
        /\ UNCHANGED <<stopping, context, told>>
    BY DEF Latch
  <1>2. /\ daemons \in [Daemons -> Daemon] /\ rows \in Seq(LeadRow)
        /\ told \subseteq Daemons /\ stopLeads \in [Leads -> 0..MaxEvents]
        /\ \A e \in Daemons : daemons[e].row <= Len(rows)
    BY DEF IInv, TypeOK
  <1>3. r \in DOMAIN rows
    BY <1>1 DEF IInv, RowIsThere, At
  <1>4. DOMAIN rows = 1..Len(rows) /\ Len(rows) \in Nat /\ rows[r] \in LeadRow
    BY <1>2, <1>3
  <1>5. l \in Leads
    BY <1>4 DEF LeadRow
  <1>6. [rows[r] EXCEPT !.over = TRUE] \in LeadRow
    BY <1>4 DEF LeadRow
  <1>7. /\ rows' \in Seq(LeadRow) /\ Len(rows') = Len(rows) /\ DOMAIN rows' = DOMAIN rows
        /\ rows'[r] = [rows[r] EXCEPT !.over = TRUE]
        /\ \A s \in DOMAIN rows \ {r} : rows'[s] = rows[s]
    BY <1>1, <1>2, <1>3, <1>6
  <1>8. /\ rows'[r].lead = l /\ rows'[r].live = rows[r].live /\ rows'[r].over
        /\ \A s \in DOMAIN rows : rows'[s].lead = rows[s].lead /\ rows'[s].live = rows[s].live
    BY <1>4, <1>7 DEF LeadRow
  <1> HIDE DEF r, l
  <1>9. [pc |-> "poll", row |-> 0, latch |-> FALSE] \in Daemon
    BY DEF Daemon
  <1>10. /\ daemons'[d] = [pc |-> "poll", row |-> 0, latch |-> FALSE]
         /\ \A e \in Daemons \ {d} : daemons'[e] = daemons[e]
         /\ daemons' \in [Daemons -> Daemon]
    BY <1>1, <1>2, <1>9 DEF Goto
  <1>11. \A e \in Daemons : daemons'[e].row <= Len(rows')
    BY <1>2, <1>4, <1>7, <1>10
  <1>12. /\ stopLeads'[l] = IF stopLeads[l] < MaxEvents THEN stopLeads[l] + 1 ELSE stopLeads[l]
         /\ \A k \in Leads \ {l} : stopLeads'[k] = stopLeads[k]
         /\ DOMAIN stopLeads' = Leads
    BY <1>1, <1>2, <1>5
  <1>13. stopLeads' \in [Leads -> 0..MaxEvents]
    <2>1. stopLeads[l] \in 0..MaxEvents
      BY <1>2, <1>5
    <2>2. (IF stopLeads[l] < MaxEvents THEN stopLeads[l] + 1 ELSE stopLeads[l]) \in 0..MaxEvents
      BY <2>1
    <2> QED
      BY <1>1, <1>2, <1>5, <2>2
  <1>14. TypeOK'
    BY <1>1, <1>7, <1>10, <1>11, <1>13 DEF IInv, TypeOK
  <1>15. NewestLeadLives'
    BY <1>7, <1>8 DEF IInv, NewestLeadLives
  <1>16. RowIsThere'
    BY <1>7, <1>10 DEF IInv, RowIsThere
  <1>17. OneRowPerLead'
    BY <1>7, <1>8 DEF IInv, OneRowPerLead
  <1>18. ASSUME ~Overlap PROVE Alone'
    <2>1. OneUp'
      BY <1>1, <1>10, <1>18 DEF IInv, Alone, OneUp, At
    <2>2. \A e \in Daemons \ {d} : At(e, "off")
      BY <1>1, <1>18 DEF IInv, Alone, OneUp, At
    <2>3. LatchIsFresh'
      BY <1>10, <2>2 DEF LatchIsFresh, MayLatch, At
    <2>4. RequestStands'
      BY <1>1, <1>2, <1>10, <1>18 DEF IInv, Alone, RequestStands, InLoop
    <2>5. ~rows[r].over
      BY <1>1, <1>18 DEF IInv, Alone, LatchIsFresh, MayLatch, r
    <2>6. \A s \in DOMAIN rows : stopLeads[rows[s].lead] = IF rows[s].over THEN 1 ELSE 0
      BY <1>18 DEF IInv, Alone, OverLimitOnce
    <2>7. stopLeads'[l] = 1
      <3>1. stopLeads[l] = 0
        BY <1>3, <2>5, <2>6 DEF l
      <3> QED
        BY <1>12, <3>1
    <2>8. \A s \in DOMAIN rows' : stopLeads'[rows'[s].lead] = IF rows'[s].over THEN 1 ELSE 0
      <3> SUFFICES ASSUME NEW s \in DOMAIN rows
                   PROVE  stopLeads'[rows'[s].lead] = IF rows'[s].over THEN 1 ELSE 0
        BY <1>7
      <3>1. CASE s = r
        BY <1>8, <2>7, <3>1
      <3>2. CASE s # r
        <4>1. rows'[s] = rows[s] /\ rows[s] \in LeadRow
          BY <1>2, <1>7, <3>2
        <4>2. rows[s].lead # l /\ rows[s].lead \in Leads
          BY <1>3, <3>2, <4>1 DEF IInv, OneRowPerLead, l, LeadRow
        <4> QED
          BY <1>12, <2>6, <4>1, <4>2
      <3> QED
        BY <3>1, <3>2
    <2>9. \A k \in Leads : stopLeads'[k] > 0 => Recorded(k)'
      <3>1. \A k \in Leads : Recorded(k) => Recorded(k)'
        BY <1>7, <1>8 DEF Recorded
      <3>2. Recorded(l)
        BY <1>3 DEF Recorded, l
      <3>3. \A k \in Leads : stopLeads[k] > 0 => Recorded(k)
        BY <1>18 DEF IInv, Alone, OverLimitOnce
      <3> QED
        BY <1>12, <3>1, <3>2, <3>3
    <2>10. OverLimitOnce'
      BY <2>8, <2>9 DEF OverLimitOnce
    <2> QED
      BY <2>1, <2>3, <2>4, <2>10 DEF Alone
  <1> QED
    BY <1>14, <1>15, <1>16, <1>17, <1>18 DEF IInv

LEMMA StopKeeps ==
  ASSUME IInv, Stop
  PROVE  IInv'
  <1>1. /\ stopping' = TRUE /\ told' = {d \in Daemons : InLoop(d)}
        /\ UNCHANGED <<rows, stopLeads, context, daemons>>
    BY DEF Stop
  <1>2. TypeOK'
    BY <1>1 DEF IInv, TypeOK
  <1>3. NewestLeadLives' /\ RowIsThere' /\ OneRowPerLead'
    BY <1>1 DEF IInv, NewestLeadLives, RowIsThere, OneRowPerLead
  <1>4. ASSUME ~Overlap PROVE Alone'
    <2>1. OneUp' /\ LatchIsFresh'
      BY <1>1, <1>4 DEF IInv, Alone, OneUp, LatchIsFresh, MayLatch, At
    <2>2. RequestStands'
      BY <1>1 DEF RequestStands, InLoop
    <2>3. OverLimitOnce'
      BY <1>1, <1>4, EventsKept DEF IInv, Alone
    <2> QED
      BY <2>1, <2>2, <2>3 DEF Alone
  <1> QED
    BY <1>2, <1>3, <1>4 DEF IInv

LEMMA ReadsContextKeeps ==
  ASSUME IInv, NEW l \in Leads, ReadsContext(l)
  PROVE  IInv'
  <1>1. PICK c \in {"within", "over"} : context' = [context EXCEPT ![l] = c]
    BY DEF ReadsContext
  <1>2. UNCHANGED <<stopping, rows, stopLeads, daemons, told>>
    BY DEF ReadsContext
  <1>3. context' \in [Leads -> {"unknown", "within", "over"}]
    BY <1>1 DEF IInv, TypeOK
  <1>4. TypeOK'
    BY <1>2, <1>3 DEF IInv, TypeOK
  <1>5. NewestLeadLives' /\ RowIsThere' /\ OneRowPerLead'
    BY <1>2 DEF IInv, NewestLeadLives, RowIsThere, OneRowPerLead
  <1>6. ASSUME ~Overlap PROVE Alone'
    <2>1. OneUp' /\ LatchIsFresh' /\ RequestStands'
      BY <1>2, <1>6 DEF IInv, Alone, OneUp, LatchIsFresh, MayLatch, At, RequestStands, InLoop
    <2>2. OverLimitOnce'
      BY <1>2, <1>6, EventsKept DEF IInv, Alone
    <2> QED
      BY <2>1, <2>2 DEF Alone
  <1> QED
    BY <1>4, <1>5, <1>6 DEF IInv

LEMMA StutterKeeps ==
  ASSUME IInv, UNCHANGED vars
  PROVE  IInv'
  <1>1. UNCHANGED <<stopping, rows, stopLeads, context, daemons, told>>
    BY DEF vars
  <1> QED
    BY <1>1 DEF IInv, TypeOK, NewestLeadLives, RowIsThere, OneRowPerLead, Alone, OneUp,
      LatchIsFresh, MayLatch, At, RequestStands, InLoop, OverLimitOnce, Recorded

-----------------------------------------------------------------------------
\* Every step of every daemon, of `stop` and of the leads keeps it.
LEMMA Inductive == IInv /\ [Next]_vars => IInv'
  <1> SUFFICES ASSUME IInv, [Next]_vars PROVE IInv'
    OBVIOUS
  <1>1. CASE \E d \in Daemons : DaemonStep(d)
    BY <1>1, ExitRefusedKeeps, ClearStopKeeps, PollKeeps, SnapshotKeeps, ReadKeeps,
      LatchKeeps DEF DaemonStep
  <1>2. CASE \E d \in Daemons : Kill(d)
    BY <1>2, KillKeeps
  <1>3. CASE \E d \in Daemons, l \in Leads : Start(d, l)
    BY <1>3, StartKeeps
  <1>4. CASE Stop
    BY <1>4, StopKeeps
  <1>5. CASE \E l \in Leads : ReadsContext(l)
    BY <1>5, ReadsContextKeeps
  <1>6. CASE UNCHANGED vars
    BY <1>6, StutterKeeps
  <1> QED
    BY <1>1, <1>2, <1>3, <1>4, <1>5, <1>6 DEF Next

\* The run's record and its daemons are never out of step.
THEOREM Invariant == Spec => []IInv
  BY InitHolds, Inductive, PTL DEF Spec

\* The run record, the lead's rows and every daemon keep their types.
THEOREM TypeCorrect == Spec => []TypeOK
  <1>1. IInv => TypeOK
    BY DEF IInv
  <1> QED
    BY <1>1, Invariant, PTL

\* However many daemons register and die, beside each other or not, only the
\* lead that registered last is live (register_lead).
THEOREM OneLead == Spec => []NewestLeadLives
  <1>1. IInv => NewestLeadLives
    BY DEF IInv
  <1> QED
    BY <1>1, Invariant, PTL

\* Daemons that do not overlap record a lead's crossing of its limit once,
\* through any number of kills and restarts (observe_lead).
THEOREM LimitOnce ==
  ASSUME ~Overlap
  PROVE  Spec => []OverLimitOnce
  <1>1. IInv => OverLimitOnce
    BY DEF IInv, Alone
  <1> QED
    BY <1>1, Invariant, PTL

\* ... and one that was told to stop does at its next poll (cmd_stop).
THEOREM StopHeeded ==
  ASSUME ~Overlap
  PROVE  Spec => StopIsHeeded
  <1> DEFINE Heeds == \A d \in told : At(d, "poll") => daemons'[d].pc \in {"poll", "off"}
  <1>1. ASSUME IInv, Next PROVE Heeds
    <2> SUFFICES ASSUME NEW d \in told, At(d, "poll")
                 PROVE  daemons'[d].pc \in {"poll", "off"}
      OBVIOUS
    <2>1. daemons \in [Daemons -> Daemon] /\ d \in Daemons
      BY <1>1 DEF IInv, TypeOK
    <2>2. stopping
      BY <1>1 DEF IInv, Alone, RequestStands
    <2>3. ASSUME NEW e \in Daemons, DaemonStep(e) \/ Kill(e) \/ \E l \in Leads : Start(e, l)
          PROVE  daemons'[d].pc \in {"poll", "off"}
      <3>1. CASE e = d
        <4>1. Poll(d) \/ Kill(d)
          BY <2>3, <3>1 DEF At, DaemonStep, ExitRefused, ClearStop, Snapshot, Read, Latch, Start
        <4>2. Goto(d, "off")
          BY <2>2, <4>1 DEF Poll, Kill
        <4> QED
          BY <2>1, <4>2 DEF Goto
      <3>2. CASE e # d
        <4>1. daemons'[d] = daemons[d]
          BY <2>1, <2>3, <3>2 DEF DaemonStep, ExitRefused, ClearStop, Poll, Snapshot, Read,
            Latch, Kill, Start, RegisterLead, Goto
        <4> QED
          BY <4>1 DEF At
      <3> QED
        BY <3>1, <3>2
    <2>4. CASE UNCHANGED daemons
      BY <2>4 DEF At
    <2> QED
      BY <1>1, <2>3, <2>4 DEF Next, Stop, ReadsContext
  <1>2. IInv /\ [Next]_vars => [Heeds]_vars
    BY <1>1
  <1> HIDE DEF Heeds
  <1>3. Spec => [][Heeds]_vars
    BY <1>2, Invariant, PTL DEF Spec
  <1> QED
    BY <1>3 DEF Heeds, StopIsHeeded

-----------------------------------------------------------------------------
(* The rows of the leads, of daemons that may overlap *)

\* A step adds the row of a lead that has none, or latches one, or leaves rows
\* and events alone.
LEMMA StepsOfRows ==
  ASSUME [Next]_vars
  PROVE  \/ UNCHANGED <<rows, stopLeads>>
         \/ \E d \in Daemons, l \in Leads :
              /\ ~Recorded(l) /\ Goto(d, "registered") /\ UNCHANGED stopLeads
              /\ rows' = Append(Stopped, [lead |-> l, live |-> TRUE, over |-> FALSE])
         \/ \E d \in Daemons : Latch(d)
  BY DEF Next, DaemonStep, Start, RegisterLead, ExitRefused, ClearStop, Poll, Snapshot, Read,
    Kill, Stop, ReadsContext, vars

\* What latching a row does.
LEMMA LatchedRow ==
  ASSUME IInv, NEW d \in Daemons, Latch(d)
  PROVE  /\ daemons[d].row \in DOMAIN rows /\ rows' \in Seq(LeadRow) /\ Len(rows') = Len(rows)
         /\ rows'[daemons[d].row].over
         /\ \A s \in DOMAIN rows : rows'[s].lead = rows[s].lead /\ rows'[s].live = rows[s].live
         /\ \A s \in DOMAIN rows : s # daemons[d].row => rows'[s].over = rows[s].over
  <1>1. rows \in Seq(LeadRow) /\ DOMAIN rows = 1..Len(rows)
    BY DEF IInv, TypeOK
  <1>2. PICK r \in DOMAIN rows : r = daemons[d].row
    BY DEF IInv, RowIsThere, Latch, At
  <1>3. PICK old \in LeadRow : old = rows[r]
    BY <1>1
  <1>4. PICK new \in LeadRow : new = [old EXCEPT !.over = TRUE]
    BY DEF LeadRow
  <1>5. new.over /\ new.lead = old.lead /\ new.live = old.live
    BY <1>4 DEF LeadRow
  <1>6. rows' = [rows EXCEPT ![r] = new]
    BY <1>2, <1>3, <1>4 DEF Latch
  <1>7. rows' \in Seq(LeadRow) /\ Len(rows') = Len(rows) /\ rows'[r] = new
        /\ \A s \in DOMAIN rows : s # r => rows'[s] = rows[s]
    BY <1>1, <1>6
  <1> QED
    BY <1>2, <1>3, <1>5, <1>7

\* A lead that was followed by another is not the run's lead again.
LEMMA StaysFollowed ==
  ASSUME IInv, [Next]_vars, NEW l \in Leads, Recorded(l), ~Current(l)
  PROVE  Recorded(l)' /\ ~Current(l)'
  <1>1. rows \in Seq(LeadRow) /\ DOMAIN rows = 1..Len(rows) /\ Len(rows) \in Nat
    BY DEF IInv, TypeOK
  <1>2. PICK r \in DOMAIN rows : rows[r].lead = l
    BY DEF Recorded
  <1>3. CASE UNCHANGED <<rows, stopLeads>>
    BY <1>3 DEF Recorded, Current, Serves
  <1>4. ASSUME NEW other \in Leads, ~Recorded(other),
               rows' = Append(Stopped, [lead |-> other, live |-> TRUE, over |-> FALSE])
        PROVE  Recorded(l)' /\ ~Current(l)'
    <2>1. other # l
      BY <1>4
    <2>2. rows'[r].lead = l /\ r \in DOMAIN rows' /\ rows'[Len(rows')].lead = other
      <3>1. /\ DOMAIN rows' = DOMAIN rows \cup {Len(rows')} /\ rows'[r].lead = rows[r].lead
            /\ rows'[Len(rows')] = [lead |-> other, live |-> TRUE, over |-> FALSE]
        BY <1>4, RegisteredRows DEF IInv
      <3>2. [lead |-> other, live |-> TRUE, over |-> FALSE].lead = other
        OBVIOUS
      <3> QED
        BY <1>2, <3>1, <3>2
    <2> QED
      BY <2>1, <2>2 DEF Recorded, Current, Serves
  <1>5. ASSUME NEW d \in Daemons, Latch(d)
        PROVE  Recorded(l)' /\ ~Current(l)'
    <2>1. /\ rows' \in Seq(LeadRow) /\ Len(rows') = Len(rows)
          /\ \A s \in DOMAIN rows : rows'[s].lead = rows[s].lead /\ rows'[s].live = rows[s].live
      BY <1>5, LatchedRow
    <2>2. Len(rows) \in DOMAIN rows /\ DOMAIN rows' = DOMAIN rows /\ rows # <<>>
      BY <1>1, <1>2, <2>1
    <2>3. Recorded(l)'
      BY <1>2, <2>1, <2>2 DEF Recorded
    <2>4. ~Serves(rows[Len(rows)], l)
      BY <2>2 DEF Current
    <2> QED
      BY <2>1, <2>2, <2>3, <2>4 DEF Current, Serves
  <1> QED
    BY <1>3, <1>4, <1>5, StepsOfRows

\* However many leads follow each other, and whichever daemons they have: one
\* that was followed never comes back.
THEOREM FollowedStays == Spec => FollowedForGood
  <1>1. IInv /\ [Next]_vars =>
          [\A l \in Leads : Recorded(l) /\ ~Current(l) => ~Current(l)']_vars
    BY StaysFollowed
  <1> QED
    BY <1>1, Invariant, PTL DEF Spec, FollowedForGood

\* The daemons that are about to latch a row.
Latching(r) == {d \in Daemons : MayLatch(d) /\ daemons[d].row = r}

\* One event for each of the daemons that had read the row before it was
\* latched, at least one once it is, and none for what is not there.
OverLimitEvents ==
  /\ \A r \in DOMAIN rows : rows[r].over <=> stopLeads[rows[r].lead] > 0
  /\ \A l \in Leads : stopLeads[l] > 0 => Recorded(l)
  /\ \A l \in Leads : stopLeads[l] <= Cardinality(Daemons)

EventsBound ==
  \A r \in DOMAIN rows :
    stopLeads[rows[r].lead] + Cardinality(Latching(r)) <= Cardinality(Daemons)

EventsInv ==
  /\ IInv /\ EventsBound
  /\ \A r \in DOMAIN rows : rows[r].over <=> stopLeads[rows[r].lead] > 0
  /\ \A l \in Leads : stopLeads[l] > 0 => Recorded(l)

\* Whoever may latch a row after a step could before, or has just read that it
\* is not latched.
LEMMA LatchersAre ==
  ASSUME IInv, [Next]_vars, NEW d \in Daemons, MayLatch(d)'
  PROVE  \/ MayLatch(d) /\ daemons'[d].row = daemons[d].row /\ ~Latch(d)
         \/ /\ daemons'[d].row \in DOMAIN rows /\ ~rows[daemons'[d].row].over
            /\ UNCHANGED <<rows, stopLeads>>
  <1>1. daemons \in [Daemons -> Daemon] /\ rows \in Seq(LeadRow)
    BY DEF IInv, TypeOK
  <1>2. ~Latch(d)
    <2>1. Latch(d) => daemons'[d].pc = "poll"
      BY <1>1 DEF Latch, Goto
    <2> QED
      BY <2>1 DEF MayLatch, At
  <1>3. CASE daemons'[d] = daemons[d]
    BY <1>2, <1>3 DEF MayLatch, At
  <1>4. ASSUME NEW pc \in {"off", "registered", "refused", "poll", "snapshot"}, NEW e \in Daemons,
               Goto(e, pc)
        PROVE  daemons'[d] = daemons[d]
    <2>1. e = d => daemons'[d].pc = pc
      BY <1>1, <1>4 DEF Goto
    <2> QED
      BY <1>1, <1>4, <2>1 DEF Goto, MayLatch, At
  <1>5. ASSUME NEW e \in Daemons, Snapshot(e), daemons'[d] # daemons[d]
        PROVE  /\ daemons'[d].row \in DOMAIN rows /\ ~rows[daemons'[d].row].over
               /\ UNCHANGED <<rows, stopLeads>>
    <2>1. PICK r \in DOMAIN rows :
            daemons' = [daemons EXCEPT ![e] = [pc |-> "read", row |-> r, latch |-> CanLatch(rows[r])]]
      BY <1>5 DEF Snapshot
    <2>2. daemons'[d] = [pc |-> "read", row |-> r, latch |-> CanLatch(rows[r])]
      BY <1>1, <1>5, <2>1
    <2>3. CanLatch(rows[r]) /\ daemons'[d].row = r
      BY <2>2 DEF MayLatch, At
    <2> QED
      BY <1>5, <2>3 DEF CanLatch, Snapshot
  <1>6. ASSUME NEW e \in Daemons, Read(e), daemons'[d] # daemons[d]
        PROVE  MayLatch(d) /\ daemons'[d].row = daemons[d].row
    <2>1. /\ At(e, "read") /\ daemons[e].latch /\ daemons' = [daemons EXCEPT ![e].pc = "latch"]
          /\ e = d
      BY <1>1, <1>4, <1>6 DEF Read
    <2>2. PICK w \in Daemon : w = daemons[d]
      BY <1>1
    <2>3. [w EXCEPT !.pc = "latch"].row = w.row
      BY DEF Daemon
    <2>4. daemons'[d] = [w EXCEPT !.pc = "latch"]
      BY <1>1, <2>1, <2>2
    <2> QED
      BY <2>1, <2>2, <2>3, <2>4 DEF MayLatch
  <1>7. ASSUME NEW e \in Daemons,
               ExitRefused(e) \/ ClearStop(e) \/ Poll(e) \/ Latch(e) \/ Kill(e)
                 \/ \E l \in Leads : Start(e, l)
        PROVE  daemons'[d] = daemons[d]
    BY <1>1, <1>4, <1>7 DEF ExitRefused, ClearStop, Poll, Latch, Kill, Start, RegisterLead
  <1> QED
    BY <1>2, <1>3, <1>5, <1>6, <1>7 DEF Next, DaemonStep, Stop, ReadsContext, vars

\* Of fewer daemons that are about to latch a row, none adds to its events.
LEMMA FewerLatch ==
  ASSUME IsFiniteSet(Daemons), NEW S, NEW T \in SUBSET Daemons, S \subseteq T, NEW n \in Nat,
         n + Cardinality(T) <= Cardinality(Daemons)
  PROVE  n + Cardinality(S) <= Cardinality(Daemons)
  <1>1. IsFiniteSet(T) /\ IsFiniteSet(S) /\ Cardinality(S) <= Cardinality(T)
    BY FS_Subset
  <1>2. Cardinality(S) \in Nat /\ Cardinality(T) \in Nat /\ Cardinality(Daemons) \in Nat
    BY <1>1, FS_CardinalityType
  <1> QED
    BY <1>1, <1>2

LEMMA EventsStep ==
  ASSUME IsFiniteSet(Daemons), EventsInv, [Next]_vars
  PROVE  EventsInv'
  <1> USE ConstantsAssumption DEF ConstantsAssumption
  <1>1. /\ IInv /\ IInv' /\ rows \in Seq(LeadRow) /\ DOMAIN rows = 1..Len(rows)
        /\ stopLeads \in [Leads -> 0..MaxEvents] /\ daemons \in [Daemons -> Daemon]
    BY Inductive DEF EventsInv, IInv, TypeOK
  <1>2. \A r \in DOMAIN rows : rows[r].lead \in Leads /\ stopLeads[rows[r].lead] \in Nat
    <2>1. \A r \in DOMAIN rows : rows[r] \in LeadRow
      BY <1>1
    <2> QED
      BY <1>1, <2>1 DEF LeadRow
  <1>3. Cardinality(Daemons) \in Nat
    BY FS_CardinalityType
  <1>4. \A r : Latching(r) \in SUBSET Daemons
    BY DEF Latching
  <1>5. CASE UNCHANGED <<rows, stopLeads>>
    <2>1. ASSUME NEW r \in DOMAIN rows
          PROVE  stopLeads'[rows'[r].lead] + Cardinality(Latching(r)') <= Cardinality(Daemons)
      <3>1. stopLeads'[rows'[r].lead] = stopLeads[rows[r].lead]
        BY <1>5
      <3>2. stopLeads[rows[r].lead] + Cardinality(Latching(r)) <= Cardinality(Daemons)
        BY DEF EventsInv, EventsBound
      <3>3. CASE rows[r].over
        <4>1. Latching(r)' \subseteq Latching(r)
          BY <1>1, <3>3, LatchersAre DEF Latching
        <4> QED
          BY <1>2, <1>4, <3>1, <3>2, <4>1, FewerLatch
      <3>4. CASE ~rows[r].over
        <4>1. stopLeads[rows[r].lead] = 0
          BY <1>2, <3>4 DEF EventsInv
        <4>2. Latching(r)' \subseteq Daemons
          BY DEF Latching
        <4>3. 0 + Cardinality(Daemons) <= Cardinality(Daemons)
          BY <1>3
        <4> QED
          BY <3>1, <4>1, <4>2, <4>3, FewerLatch
      <3> QED
        BY <3>3, <3>4
    <2>2. EventsBound'
      BY <1>5, <2>1 DEF EventsBound
    <2> QED
      BY <1>1, <1>5, <2>2 DEF EventsInv, Recorded
  <1>6. ASSUME NEW d \in Daemons, NEW l \in Leads, ~Recorded(l), Goto(d, "registered"),
               UNCHANGED stopLeads,
               rows' = Append(Stopped, [lead |-> l, live |-> TRUE, over |-> FALSE])
        PROVE  EventsInv'
    <2>1. /\ DOMAIN rows' = DOMAIN rows \cup {Len(rows')} /\ Len(rows') \notin DOMAIN rows
          /\ \A r \in DOMAIN rows : rows'[r].lead = rows[r].lead /\ rows'[r].over = rows[r].over
          /\ rows'[Len(rows')] = [lead |-> l, live |-> TRUE, over |-> FALSE]
      BY <1>1, <1>6, RegisteredRows DEF IInv
    <2>2. rows' # rows
      BY <2>1
    <2>3. stopLeads[l] = 0
      <3>1. stopLeads[l] \in Nat /\ ~(stopLeads[l] > 0)
        BY <1>1, <1>6 DEF EventsInv
      <3> QED
        BY <3>1
    <2>4. ASSUME NEW r \in DOMAIN rows
          PROVE  stopLeads'[rows'[r].lead] + Cardinality(Latching(r)') <= Cardinality(Daemons)
      <3>1. stopLeads'[rows'[r].lead] = stopLeads[rows[r].lead]
        BY <1>6, <2>1
      <3>2. stopLeads[rows[r].lead] + Cardinality(Latching(r)) <= Cardinality(Daemons)
        BY DEF EventsInv, EventsBound
      <3>3. Latching(r)' \subseteq Latching(r)
        BY <1>1, <2>2, LatchersAre DEF Latching
      <3> QED
        BY <1>2, <1>4, <3>1, <3>2, <3>3, FewerLatch
    <2>5. ASSUME NEW r
          PROVE  stopLeads'[l] + Cardinality(Latching(r)') <= Cardinality(Daemons)
      <3>1. Latching(r)' \subseteq Daemons
        BY DEF Latching
      <3>2. 0 + Cardinality(Daemons) <= Cardinality(Daemons)
        BY <1>3
      <3> QED
        BY <1>6, <2>3, <3>1, <3>2, FewerLatch
    <2>6. rows'[Len(rows')].lead = l /\ ~rows'[Len(rows')].over
      BY <2>1
    <2>7. EventsBound'
      <3> SUFFICES ASSUME NEW r \in DOMAIN rows'
                   PROVE  stopLeads'[rows'[r].lead] + Cardinality(Latching(r)')
                            <= Cardinality(Daemons)
        BY DEF EventsBound
      <3>1. CASE r \in DOMAIN rows
        BY <2>4, <3>1
      <3>2. CASE r = Len(rows')
        BY <2>5, <2>6, <3>2
      <3> QED
        BY <2>1, <3>1, <3>2
    <2>8. \A r \in DOMAIN rows' : rows'[r].over <=> stopLeads'[rows'[r].lead] > 0
      <3>1. ASSUME NEW r \in DOMAIN rows
            PROVE  rows'[r].over <=> stopLeads'[rows'[r].lead] > 0
        BY <1>6, <2>1 DEF EventsInv
      <3>2. rows'[Len(rows')].over <=> stopLeads'[rows'[Len(rows')].lead] > 0
        BY <1>6, <2>3, <2>6
      <3> QED
        BY <2>1, <3>1, <3>2
    <2>9. \A k \in Leads : stopLeads'[k] > 0 => Recorded(k)'
      <3>1. \A k \in Leads : Recorded(k) => Recorded(k)'
        BY <2>1 DEF Recorded
      <3> QED
        BY <1>6, <3>1 DEF EventsInv
    <2> QED
      BY <1>1, <2>7, <2>8, <2>9 DEF EventsInv
  <1>7. ASSUME NEW d \in Daemons, Latch(d)
        PROVE  EventsInv'
    <2>1. PICK r \in DOMAIN rows : r = daemons[d].row
      BY <1>1, <1>7, LatchedRow
    <2>2. /\ rows'[r].over /\ DOMAIN rows' = DOMAIN rows
          /\ \A s \in DOMAIN rows : rows'[s].lead = rows[s].lead
          /\ \A s \in DOMAIN rows : s # r => rows'[s].over = rows[s].over
      BY <1>1, <1>7, <2>1, LatchedRow
    <2>3. PICK l \in Leads : l = rows[r].lead
      BY <1>2
    <2>4. PICK n \in 0..MaxEvents : n = stopLeads[l]
      BY <1>1
    <2>5. /\ stopLeads'[l] = (IF n < MaxEvents THEN n + 1 ELSE n)
          /\ \A k \in Leads \ {l} : stopLeads'[k] = stopLeads[k]
      BY <1>1, <1>7, <2>1, <2>3, <2>4 DEF Latch
    <2>6. stopLeads'[l] \in Nat /\ stopLeads'[l] > 0 /\ stopLeads'[l] <= n + 1
      BY <2>4, <2>5
    <2>7. \A s \in DOMAIN rows \ {r} : rows[s].lead # l
      BY <1>1, <2>3 DEF IInv, OneRowPerLead
    <2>8. ASSUME NEW e \in Daemons, MayLatch(e)'
          PROVE  e # d /\ MayLatch(e) /\ daemons'[e].row = daemons[e].row
      <3>1. daemons'[d].pc = "poll"
        BY <1>1, <1>7 DEF Latch, Goto
      <3>2. e # d
        BY <2>8, <3>1 DEF MayLatch, At
      <3>3. daemons'[e] = daemons[e]
        BY <1>1, <1>7, <3>2 DEF Latch, Goto
      <3> QED
        BY <2>8, <3>2, <3>3 DEF MayLatch, At
    <2>9. stopLeads'[rows'[r].lead] + Cardinality(Latching(r)') <= Cardinality(Daemons)
      <3>1. d \in Latching(r)
        BY <1>7, <2>1 DEF Latching, MayLatch, Latch
      <3>2. Latching(r)' \subseteq Latching(r) \ {d}
        BY <2>8 DEF Latching
      <3>3. IsFiniteSet(Latching(r))
        BY <1>4, FS_Subset
      <3>4. /\ Cardinality(Latching(r) \ {d}) = Cardinality(Latching(r)) - 1
            /\ IsFiniteSet(Latching(r) \ {d})
        BY <3>1, <3>3, FS_RemoveElement
      <3>5. n + Cardinality(Latching(r)) <= Cardinality(Daemons)
        BY <2>3, <2>4 DEF EventsInv, EventsBound
      <3>6. Cardinality(Latching(r)) \in Nat /\ Cardinality(Latching(r) \ {d}) \in Nat
        BY <3>3, <3>4, FS_CardinalityType
      <3>7. stopLeads'[l] + Cardinality(Latching(r) \ {d}) <= Cardinality(Daemons)
        BY <1>3, <2>4, <2>6, <3>4, <3>5, <3>6
      <3>8. Latching(r) \ {d} \in SUBSET Daemons
        BY <1>4
      <3> QED
        BY <2>2, <2>3, <2>6, <3>2, <3>7, <3>8, FewerLatch
    <2>10. ASSUME NEW s \in DOMAIN rows \ {r}
           PROVE  stopLeads'[rows'[s].lead] + Cardinality(Latching(s)') <= Cardinality(Daemons)
      <3>1. stopLeads'[rows'[s].lead] = stopLeads[rows[s].lead]
        BY <1>2, <2>2, <2>5, <2>7
      <3>2. stopLeads[rows[s].lead] + Cardinality(Latching(s)) <= Cardinality(Daemons)
        BY DEF EventsInv, EventsBound
      <3>3. Latching(s)' \subseteq Latching(s)
        BY <2>8 DEF Latching
      <3> QED
        BY <1>2, <1>4, <3>1, <3>2, <3>3, FewerLatch
    <2>11. EventsBound'
      BY <2>2, <2>9, <2>10 DEF EventsBound
    <2>12. \A s \in DOMAIN rows' : rows'[s].over <=> stopLeads'[rows'[s].lead] > 0
      <3>1. rows'[r].over <=> stopLeads'[rows'[r].lead] > 0
        BY <2>2, <2>3, <2>6
      <3>2. ASSUME NEW s \in DOMAIN rows \ {r}
            PROVE  rows'[s].over <=> stopLeads'[rows'[s].lead] > 0
        BY <1>2, <2>2, <2>5, <2>7 DEF EventsInv
      <3> QED
        BY <2>2, <3>1, <3>2
    <2>13. \A k \in Leads : stopLeads'[k] > 0 => Recorded(k)'
      <3>1. \A k \in Leads : Recorded(k) => Recorded(k)'
        BY <2>2 DEF Recorded
      <3>2. Recorded(l)
        BY <2>3 DEF Recorded
      <3> QED
        BY <2>5, <3>1, <3>2 DEF EventsInv
    <2> QED
      BY <1>1, <2>11, <2>12, <2>13 DEF EventsInv
  <1> QED
    BY <1>5, <1>6, <1>7, StepsOfRows

\* However many daemons overlap, are killed and start again: a lead whose limit
\* is latched has its event, a lead that is not has none, and there are no more
\* than the daemons that can have read its row before (observe_lead).
THEOREM EventsOfOverlap ==
  ASSUME IsFiniteSet(Daemons)
  PROVE  Spec => []OverLimitEvents
  <1>1. Init => EventsInv
    <2> SUFFICES ASSUME Init PROVE EventsInv
      OBVIOUS
    <2>1. rows = <<>> /\ stopLeads = [l \in Leads |-> 0] /\ IInv
      BY InitHolds DEF Init
    <2> QED
      BY <2>1 DEF EventsInv, EventsBound
  <1>2. EventsInv /\ [Next]_vars => EventsInv'
    BY EventsStep
  <1>3. EventsInv => OverLimitEvents
    <2> SUFFICES ASSUME EventsInv, NEW l \in Leads
                 PROVE  stopLeads[l] <= Cardinality(Daemons)
      BY DEF EventsInv, OverLimitEvents
    <2>1. stopLeads[l] \in Nat /\ Cardinality(Daemons) \in Nat
      BY ConstantsAssumption, FS_CardinalityType DEF ConstantsAssumption, EventsInv, IInv, TypeOK
    <2>2. CASE stopLeads[l] = 0
      BY <2>1, <2>2
    <2>3. CASE stopLeads[l] > 0
      <3>1. PICK r \in DOMAIN rows : rows[r].lead = l
        BY <2>3 DEF EventsInv, Recorded
      <3>2. stopLeads[l] + Cardinality(Latching(r)) <= Cardinality(Daemons)
        BY <3>1 DEF EventsInv, EventsBound
      <3>3. Latching(r) \subseteq Daemons
        BY DEF Latching
      <3>4. Cardinality(Latching(r)) \in Nat
        BY <3>3, FS_Subset, FS_CardinalityType
      <3> QED
        BY <2>1, <3>2, <3>4
    <2> QED
      BY <2>1, <2>2, <2>3
  <1> QED
    BY <1>1, <1>2, <1>3, PTL DEF Spec

-----------------------------------------------------------------------------
(* The clock, of Watchkeeping *)

\* The stamp is no younger than the last daemon in its loop, by which it was
\* made.
StampedWhileUp ==
  /\ clock \in Nat /\ seenAt \in Nat /\ lastUp \in Nat
  /\ seenAt <= lastUp /\ lastUp <= clock

LEMMA InitStamped == WatchInit => StampedWhileUp
  BY DEF WatchInit, StampedWhileUp, Null

LEMMA DaemonsStepStamped ==
  ASSUME StampedWhileUp, DaemonsStep
  PROVE  StampedWhileUp'
  <1>1. clock' = clock
    BY DEF DaemonsStep
  <1>2. CASE \E d \in Daemons : At(d, "poll") /\ daemons'[d].pc = "snapshot"
    <2>1. \E d \in Daemons : InLoop(d)
      BY <1>2 DEF At, InLoop
    <2>2. seenAt' = clock /\ lastUp' = clock
      BY <1>2, <2>1 DEF DaemonsStep
    <2> QED
      BY <1>1, <2>2 DEF StampedWhileUp
  <1>3. CASE ~(\E d \in Daemons : At(d, "poll") /\ daemons'[d].pc = "snapshot")
    <2>1. seenAt' = seenAt /\ lastUp' \in {clock, lastUp}
      BY <1>3 DEF DaemonsStep
    <2> QED
      BY <1>1, <2>1 DEF StampedWhileUp
  <1> QED
    BY <1>2, <1>3

LEMMA StampsKeep == StampedWhileUp /\ [WatchNext]_<<vars, watchVars>> => StampedWhileUp'
  <1> SUFFICES ASSUME StampedWhileUp, [WatchNext]_<<vars, watchVars>>
               PROVE  StampedWhileUp'
    OBVIOUS
  <1>1. CASE DaemonsStep
    BY <1>1, DaemonsStepStamped
  <1>2. CASE Tick
    <2>1. clock' = clock + 1 /\ seenAt' = seenAt /\ lastUp' \in {clock + 1, lastUp}
      BY <1>2 DEF Tick
    <2> QED
      BY <2>1 DEF StampedWhileUp
  <1>3. CASE UNCHANGED <<clock, seenAt, lastUp>>
    BY <1>3 DEF StampedWhileUp
  <1>4. ASSUME NEW new, TasksStep(new)
        PROVE  UNCHANGED <<clock, seenAt, lastUp>>
    BY <1>4 DEF TasksStep
  <1>5. ASSUME NEW new, NEW inserts, WaitsStep(new, inserts)
        PROVE  UNCHANGED <<clock, seenAt, lastUp>>
    BY <1>5 DEF WaitsStep
  <1>6. New \/ ReadState \/ (\E t \in DOMAIN tasks :
          DispatchTask(t) \/ CommitTask(t) \/ Judge(t) \/ AbortTask(t))
          => UNCHANGED <<clock, seenAt, lastUp>>
    BY <1>4 DEF New, ReadState, DispatchTask, CommitTask, Judge, AbortTask
  <1>7. StartWait \/ InsertWait \/ KillWait \/ EndWait => UNCHANGED <<clock, seenAt, lastUp>>
    BY <1>5 DEF StartWait, InsertWait, KillWait, EndWait
  <1>8. UNCHANGED <<vars, watchVars>> => UNCHANGED <<clock, seenAt, lastUp>>
    BY DEF watchVars
  <1> QED
    BY <1>1, <1>2, <1>3, <1>6, <1>7, <1>8 DEF WatchNext

-----------------------------------------------------------------------------
\* However daemons are started, stopped and killed: once none has been up for
\* longer than a daemon may be silent, standing_warnings says so.
THEOREM AbsenceIsTold == WatchSpec => []DeadDaemonIsTold
  <1>1. StampedWhileUp => DeadDaemonIsTold
    <2> SUFFICES ASSUME StampedWhileUp, lastUp = Null \/ clock - lastUp > DaemonSilent
                 PROVE  <<"absent", 0>> \in Warnings
      BY DEF DeadDaemonIsTold
    <2>1. ~Within(seenAt, DaemonSilent)
      BY WatchkeepingAssumption DEF StampedWhileUp, Within, Null
    <2> QED
      BY <2>1 DEF Warnings
  <1> QED
    BY InitStamped, StampsKeep, <1>1, PTL DEF WatchSpec

\* With the clock, the tasks and the waits beside them the daemons do what they
\* do in DaemonRun, and nothing else: whatever holds of Spec holds of WatchSpec.
THEOREM ImplementsDaemonRun == WatchSpec => Spec
  <1>1. WatchInit => Init
    BY DEF WatchInit
  <1>2. [WatchNext]_<<vars, watchVars>> => [Next]_vars
    <2>1. DaemonsStep => Next
      BY DEF DaemonsStep
    <2>2. Tick \/ ReadState => UNCHANGED vars
      BY DEF Tick, ReadState
    <2>3. ASSUME NEW new, TasksStep(new)
          PROVE  UNCHANGED vars
      BY <2>3 DEF TasksStep
    <2>4. ASSUME NEW new, NEW inserts, WaitsStep(new, inserts)
          PROVE  UNCHANGED vars
      BY <2>4 DEF WaitsStep
    <2>5. New \/ (\E t \in DOMAIN tasks :
            DispatchTask(t) \/ CommitTask(t) \/ Judge(t) \/ AbortTask(t))
            => UNCHANGED vars
      BY <2>3 DEF New, DispatchTask, CommitTask, Judge, AbortTask
    <2>6. StartWait \/ InsertWait \/ KillWait \/ EndWait => UNCHANGED vars
      BY <2>4 DEF StartWait, InsertWait, KillWait, EndWait
    <2> QED
      BY <2>1, <2>2, <2>5, <2>6 DEF WatchNext
  <1> QED
    BY <1>1, <1>2, PTL DEF WatchSpec, Spec

-----------------------------------------------------------------------------
(* Sums of times.  Total is a loop; that its running sums exist and are      *)
(* unique is shown on the first position at which they would not be.          *)

\* The running sums of the first n of a list.
Runs(f, times, n) == f[0] = 0 /\ \A m \in 1..n : f[m] = f[m - 1] + times[m]

Sums(f, times, n) == f \in [0..n -> Nat] /\ Runs(f, times, n)

\* A loop over one more adds that one.
LEMMA SumsGrow ==
  ASSUME NEW times \in Seq(Nat), NEW n \in 1..Len(times), NEW f, Sums(f, times, n - 1)
  PROVE  \E g : Sums(g, times, n)
  <1> DEFINE g == [m \in 0..n |-> IF m = n THEN f[n - 1] + times[n] ELSE f[m]]
  <1>1. n \in Nat /\ n - 1 \in Nat /\ n # 0 /\ times[n] \in Nat
    OBVIOUS
  <1>2. f \in [0..(n - 1) -> Nat] /\ f[0] = 0
        /\ \A m \in 1..(n - 1) : f[m] = f[m - 1] + times[m]
    BY DEF Sums, Runs
  <1>3. f[n - 1] + times[n] \in Nat
    BY <1>1, <1>2
  <1>4. \A m \in 0..n : m # n => m \in 0..(n - 1)
    BY <1>1
  <1>5. g \in [0..n -> Nat]
    BY <1>2, <1>3, <1>4
  <1>6. g[0] = 0
    BY <1>1, <1>2
  <1>7. ASSUME NEW m \in 1..n PROVE g[m] = g[m - 1] + times[m]
    <2>1. m - 1 \in 0..n /\ m - 1 # n /\ m \in 0..n
      BY <1>1
    <2>2. CASE m = n
      BY <2>1, <2>2
    <2>3. CASE m # n
      <3>1. m \in 1..(n - 1)
        BY <1>1, <2>3
      <3>2. f[m] = f[m - 1] + times[m]
        BY <1>2, <3>1
      <3> QED
        BY <2>1, <2>3, <3>2
    <2> QED
      BY <2>2, <2>3
  <1>8. Sums(g, times, n)
    BY <1>5, <1>6, <1>7 DEF Sums, Runs
  <1> QED
    BY <1>8

LEMMA SumsThere ==
  ASSUME NEW times \in Seq(Nat)
  PROVE  \E f : Sums(f, times, Len(times))
  <1> DEFINE Without == {n \in Nat : n <= Len(times) /\ ~\E f : Sums(f, times, n)}
  <1>1. Len(times) \in Nat
    OBVIOUS
  <1>2. Without = {}
    <2> SUFFICES ASSUME Without # {} PROVE FALSE
      OBVIOUS
    <2>1. PICK n \in Without : \A m \in Without : ~(<<m, n>> \in OpToRel(<, Nat))
      BY NatLessThanWellFounded, WFMin
    <2>2. n \in Nat /\ n <= Len(times)
      OBVIOUS
    <2>3. CASE n = 0
      <3>1. Sums([m \in 0..0 |-> 0], times, 0)
        BY DEF Sums, Runs
      <3> QED
        BY <2>3, <3>1
    <2>4. CASE n # 0
      <3>1. n - 1 \in Nat /\ n - 1 < n /\ n - 1 <= Len(times) /\ n \in 1..Len(times)
        BY <2>2, <2>4, <1>1
      <3>2. n - 1 \notin Without
        BY <2>1, <3>1 DEF OpToRel
      <3>3. \E f : Sums(f, times, n - 1)
        BY <3>1, <3>2
      <3>4. \E f : Sums(f, times, n)
        BY <3>1, <3>3, SumsGrow
      <3> QED
        BY <3>4
    <2> QED
      BY <2>3, <2>4
  <1>3. Len(times) \notin Without
    BY <1>2
  <1> QED
    BY <1>1, <1>3


\* Two loops over the same items have the same sums.
LEMMA SumsAgree ==
  ASSUME NEW N \in Nat, NEW times, NEW f, NEW g, Runs(f, times, N), Runs(g, times, N)
  PROVE  \A n \in 0..N : f[n] = g[n]
  <1> DEFINE Apart == {m \in Nat : m <= N /\ f[m] # g[m]}
  <1>1. Apart = {}
    <2> SUFFICES ASSUME Apart # {} PROVE FALSE
      OBVIOUS
    <2>1. PICK m \in Apart : \A l \in Apart : ~(<<l, m>> \in OpToRel(<, Nat))
      BY NatLessThanWellFounded, WFMin
    <2>2. m \in Nat /\ m <= N /\ f[m] # g[m]
      OBVIOUS
    <2>3. m \in 1..N /\ m - 1 \in Nat /\ m - 1 < m /\ m - 1 <= N
      BY <2>2 DEF Runs
    <2>4. f[m - 1] = g[m - 1]
      BY <2>1, <2>3 DEF OpToRel
    <2>5. f[m] = f[m - 1] + times[m] /\ g[m] = g[m - 1] + times[m]
      BY <2>3 DEF Runs
    <2> QED
      BY <2>2, <2>4, <2>5
  <1> QED
    BY <1>1

\* The loop ends with the sum of all.
LEMMA TotalIsLast ==
  ASSUME NEW times \in Seq(Nat)
  PROVE  \E f : Sums(f, times, Len(times)) /\ Total(times) = f[Len(times)]
  <1> DEFINE Rec(f) == f = [n \in 0..Len(times) |-> IF n = 0 THEN 0 ELSE f[n - 1] + times[n]]
             sum == CHOOSE f : Rec(f)
  <1>0. Len(times) \in Nat
    OBVIOUS
  <1>1. PICK f : Sums(f, times, Len(times))
    BY SumsThere
  <1>2. Rec(f)
    <2>1. \A n \in 0..Len(times) : n # 0 => n \in 1..Len(times)
      BY <1>0
    <2> QED
      BY <1>1, <2>1 DEF Sums, Runs
  <1>3. Rec(sum)
    BY <1>2
  <1>4. Total(times) = sum[Len(times)]
    BY DEF Total
  <1> HIDE DEF sum
  <1>5. Runs(sum, times, Len(times))
    BY <1>0, <1>3 DEF Runs
  <1>6. Runs(f, times, Len(times))
    BY <1>1 DEF Sums
  <1>7. sum[Len(times)] = f[Len(times)]
    BY <1>0, <1>5, <1>6, SumsAgree
  <1> QED
    BY <1>1, <1>4, <1>7

LEMMA TotalIsNat ==
  ASSUME NEW times \in Seq(Nat)
  PROVE  Total(times) \in Nat
  <1>1. PICK f : Sums(f, times, Len(times)) /\ Total(times) = f[Len(times)]
    BY TotalIsLast
  <1>2. Len(times) \in Nat
    OBVIOUS
  <1> QED
    BY <1>1, <1>2 DEF Sums, Runs

\* One more item adds itself.
LEMMA TotalAppend ==
  ASSUME NEW times \in Seq(Nat), NEW more \in Nat
  PROVE  Total(Append(times, more)) = Total(times) + more
  <1> DEFINE N == Len(times)
             long == Append(times, more)
  <1>1. N \in Nat /\ long \in Seq(Nat) /\ Len(long) = N + 1
        /\ long[N + 1] = more /\ \A n \in 1..N : long[n] = times[n]
    OBVIOUS
  <1>2. PICK f : Sums(f, times, N) /\ Total(times) = f[N]
    BY TotalIsLast
  <1>3. PICK g : Sums(g, long, N + 1) /\ Total(long) = g[N + 1]
    BY <1>1, TotalIsLast
  <1> HIDE DEF N, long
  <1>4. f[0] = 0 /\ \A m \in 1..N : f[m] = f[m - 1] + times[m]
    BY <1>2 DEF Sums, Runs
  <1>5. g[0] = 0 /\ \A m \in 1..(N + 1) : g[m] = g[m - 1] + long[m]
    BY <1>3 DEF Sums, Runs
  <1>6. \A m \in 1..N : g[m] = g[m - 1] + times[m]
    BY <1>1, <1>5
  <1>7. N \in 0..N /\ N + 1 \in 1..(N + 1) /\ (N + 1) - 1 = N
    BY <1>1
  <1>8. f[N] = g[N]
    <2>1. Runs(f, times, N) /\ Runs(g, times, N)
      BY <1>4, <1>5, <1>6 DEF Runs
    <2> QED
      BY <1>1, <1>7, <2>1, SumsAgree
  <1>9. g[N + 1] = g[N] + more
    BY <1>1, <1>5, <1>7
  <1>10. Total(long) = Total(times) + more
    BY <1>2, <1>3, <1>8, <1>9
  <1> QED
    BY <1>10 DEF long

\* When no item grows but one, and that one by no more than 1, then neither
\* does the sum.
LEMMA TotalGrows ==
  ASSUME NEW early \in Seq(Nat), NEW late \in Seq(Nat), Len(late) = Len(early),
         NEW k \in Nat,
         \A n \in 1..Len(early) :
           late[n] <= early[n] \/ (n = k /\ late[n] <= early[n] + 1)
  PROVE  Total(late) <= Total(early) + 1
  <1> DEFINE N == Len(early)
  <1>1. PICK f : Sums(f, early, N) /\ Total(early) = f[N]
    BY TotalIsLast
  <1>2. PICK g : Sums(g, late, N) /\ Total(late) = g[N]
    BY TotalIsLast
  <1>3. N \in Nat /\ early \in [1..N -> Nat] /\ late \in [1..N -> Nat]
    OBVIOUS
  <1> HIDE DEF N
  <1>4. f \in [0..N -> Nat] /\ f[0] = 0 /\ \A m \in 1..N : f[m] = f[m - 1] + early[m]
    BY <1>1 DEF Sums, Runs
  <1>5. g \in [0..N -> Nat] /\ g[0] = 0 /\ \A m \in 1..N : g[m] = g[m - 1] + late[m]
    BY <1>2 DEF Sums, Runs
  <1>6. \A n \in 1..N : late[n] <= early[n] \/ (n = k /\ late[n] <= early[n] + 1)
    BY DEF N
  <1> DEFINE Fits(n) == g[n] <= f[n] \/ (k <= n /\ g[n] <= f[n] + 1)
             Unfit == {n \in Nat : n <= N /\ ~Fits(n)}
  <1>7. Unfit = {}
    <2> SUFFICES ASSUME Unfit # {} PROVE FALSE
      OBVIOUS
    <2>1. PICK m \in Unfit : \A l \in Unfit : ~(<<l, m>> \in OpToRel(<, Nat))
      BY NatLessThanWellFounded, WFMin
    <2>2. m \in Nat /\ m <= N /\ ~Fits(m)
      OBVIOUS
    <2>3. m # 0
      BY <1>4, <1>5, <2>2
    <2>4. m \in 1..N /\ m - 1 \in Nat /\ m - 1 < m /\ m - 1 <= N /\ m - 1 \in 0..N
      BY <1>3, <2>2, <2>3
    <2>5. Fits(m - 1)
      BY <2>1, <2>4 DEF OpToRel
    <2>6. f[m] = f[m - 1] + early[m] /\ g[m] = g[m - 1] + late[m]
      BY <1>4, <1>5, <2>4
    <2>7. f[m - 1] \in Nat /\ g[m - 1] \in Nat /\ early[m] \in Nat /\ late[m] \in Nat
      BY <1>3, <1>4, <1>5, <2>4
    <2>8. late[m] <= early[m] \/ (m = k /\ late[m] <= early[m] + 1)
      BY <1>6, <2>4
    <2>9. \A a, b, c, d \in Nat :
            (b <= a \/ (k <= m - 1 /\ b <= a + 1)) /\ (d <= c \/ (m = k /\ d <= c + 1))
            => b + d <= a + c \/ (k <= m /\ b + d <= a + c + 1)
      BY <2>2, <2>3
    <2> QED
      BY <2>2, <2>5, <2>6, <2>7, <2>8, <2>9
  <1>8. Fits(N)
    BY <1>3, <1>7
  <1>9. f[N] \in Nat /\ g[N] \in Nat
    BY <1>3, <1>4, <1>5
  <1> QED
    BY <1>1, <1>2, <1>8, <1>9

-----------------------------------------------------------------------------
(* The times of the tasks and of the waits *)

\* What a task, and a wait, adds at a time.
TaskTerm(task, now) ==
  IF task.dispatched = Null THEN 0
  ELSE (IF task.over # Null THEN task.over ELSE now) - task.dispatched

WaitTerm(wait, now) == (IF wait.ended # Null THEN wait.ended ELSE now) - wait.started

TaskTerms(ts, now) == [t \in 1..Len(ts) |-> TaskTerm(ts[t], now)]

WaitTerms(ws, now) == [w \in 1..Len(ws) |-> WaitTerm(ws[w], now)]

\* A task's stamps are in order, the first task is the oldest and one is out at
\* a time.
TasksInOrder(ts, now) ==
  /\ ts \in Seq(TaskTimes)
  /\ \A t \in 1..Len(ts) :
       /\ ts[1].drafted <= ts[t].drafted /\ ts[t].drafted <= now
       /\ ts[t].dispatched <= now /\ ts[t].over <= now
       /\ ts[t].over # Null => ts[t].dispatched <= ts[t].over
  /\ \A t, u \in 1..Len(ts) : IsOut(ts[t]) /\ IsOut(ts[u]) => t = u

\* One wait is open at a time.
WaitsInOrder(ws, now) ==
  /\ ws \in Seq(Wait)
  /\ \A w \in 1..Len(ws) :
       /\ ws[w].started <= now
       /\ ws[w].ended # Null => ws[w].started <= ws[w].ended
  /\ \A v, w \in 1..Len(ws) : IsOpen(ws[v]) /\ IsOpen(ws[w]) => v = w

LEMMA TimesAreNat == Time \subseteq Nat /\ Stamp \subseteq Nat
  BY WatchkeepingAssumption DEF Time, Stamp, Null

LEMMA TaskTermsNat ==
  ASSUME NEW now \in Nat, NEW ts, TasksInOrder(ts, now)
  PROVE  TaskTerms(ts, now) \in Seq(Nat) /\ Len(TaskTerms(ts, now)) = Len(ts)
  <1>1. ts \in Seq(TaskTimes) /\ Len(ts) \in Nat
    BY DEF TasksInOrder
  <1>2. ASSUME NEW t \in 1..Len(ts) PROVE TaskTerm(ts[t], now) \in Nat
    <2>1. PICK task : task = ts[t]
      OBVIOUS
    <2>2. task \in TaskTimes
      BY <1>1, <2>1
    <2>3. task.dispatched \in Nat /\ task.over \in Nat
      BY <2>2, TimesAreNat DEF TaskTimes
    <2>4. task.dispatched <= now /\ (task.over # Null => task.dispatched <= task.over)
      BY <2>1 DEF TasksInOrder
    <2> QED
      BY <2>1, <2>3, <2>4 DEF TaskTerm
  <1> QED
    BY <1>1, <1>2 DEF TaskTerms

LEMMA WaitTermsNat ==
  ASSUME NEW now \in Nat, NEW ws, WaitsInOrder(ws, now)
  PROVE  WaitTerms(ws, now) \in Seq(Nat) /\ Len(WaitTerms(ws, now)) = Len(ws)
  <1>1. ws \in Seq(Wait) /\ Len(ws) \in Nat
    BY DEF WaitsInOrder
  <1>2. ASSUME NEW w \in 1..Len(ws) PROVE WaitTerm(ws[w], now) \in Nat
    <2>1. PICK wait : wait = ws[w]
      OBVIOUS
    <2>2. wait \in Wait
      BY <1>1, <2>1
    <2>3. wait.started \in Nat /\ wait.ended \in Nat
      BY <2>2, TimesAreNat DEF Wait
    <2>4. wait.started <= now /\ (wait.ended # Null => wait.started <= wait.ended)
      BY <2>1 DEF WaitsInOrder
    <2> QED
      BY <2>1, <2>3, <2>4 DEF WaitTerm
  <1> QED
    BY <1>1, <1>2 DEF WaitTerms

\* A tick is added to the task that is out, if one is, and to no other.
LEMMA TickAddsOneToTasks ==
  ASSUME NEW now \in Nat, NEW ts, TasksInOrder(ts, now)
  PROVE  /\ TasksInOrder(ts, now + 1)
         /\ Total(TaskTerms(ts, now + 1)) <= Total(TaskTerms(ts, now)) + 1
  <1>1. ts \in Seq(TaskTimes) /\ Len(ts) \in Nat
    BY DEF TasksInOrder
  <1>2. TasksInOrder(ts, now + 1)
    <2>1. ASSUME NEW t \in 1..Len(ts)
          PROVE  ts[t].drafted <= now + 1 /\ ts[t].dispatched <= now + 1 /\ ts[t].over <= now + 1
      <3>1. PICK task : task = ts[t]
        OBVIOUS
      <3>2. task \in TaskTimes
        BY <1>1, <3>1
      <3>3. task.drafted \in Nat /\ task.dispatched \in Nat /\ task.over \in Nat
        BY <3>2, TimesAreNat DEF TaskTimes
      <3>4. task.drafted <= now /\ task.dispatched <= now /\ task.over <= now
        BY <3>1 DEF TasksInOrder
      <3> QED
        BY <3>1, <3>3, <3>4
    <2> QED
      BY <2>1 DEF TasksInOrder
  <1>3. PICK early \in Seq(Nat) : early = TaskTerms(ts, now) /\ Len(early) = Len(ts)
    BY TaskTermsNat
  <1>4. PICK late \in Seq(Nat) : late = TaskTerms(ts, now + 1) /\ Len(late) = Len(ts)
    BY <1>2, TaskTermsNat
  <1>5. \E k \in Nat : \A t \in 1..Len(ts) : IsOut(ts[t]) => t = k
    <2>1. CASE \E k \in 1..Len(ts) : IsOut(ts[k])
      <3>1. PICK k \in 1..Len(ts) : IsOut(ts[k])
        BY <2>1
      <3>2. k \in Nat /\ \A t \in 1..Len(ts) : IsOut(ts[t]) => t = k
        BY <3>1 DEF TasksInOrder
      <3> QED
        BY <3>2
    <2>2. CASE ~\E k \in 1..Len(ts) : IsOut(ts[k])
      <3>1. 0 \in Nat /\ \A t \in 1..Len(ts) : IsOut(ts[t]) => t = 0
        BY <2>2
      <3> QED
        BY <3>1
    <2> QED
      BY <2>1, <2>2
  <1>6. PICK k \in Nat : \A t \in 1..Len(ts) : IsOut(ts[t]) => t = k
    BY <1>5
  <1>7. ASSUME NEW t \in 1..Len(ts)
        PROVE  late[t] <= early[t] \/ (t = k /\ late[t] <= early[t] + 1)
    <2>1. PICK task : task = ts[t]
      OBVIOUS
    <2>2. task \in TaskTimes
      BY <1>1, <2>1
    <2>3. task.dispatched \in Nat /\ task.over \in Nat
      BY <2>2, TimesAreNat DEF TaskTimes
    <2>4. early[t] = TaskTerm(task, now) /\ late[t] = TaskTerm(task, now + 1)
      BY <1>3, <1>4, <2>1 DEF TaskTerms
    <2>5. early[t] \in Nat /\ late[t] \in Nat
      BY <1>3, <1>4
    <2>6. CASE IsOut(task)
      <3>1. t = k
        BY <1>6, <2>1, <2>6
      <3>2. TaskTerm(task, now + 1) = TaskTerm(task, now) + 1
        <4>1. /\ TaskTerm(task, now + 1) = (now + 1) - task.dispatched
              /\ TaskTerm(task, now) = now - task.dispatched
          BY <2>6 DEF TaskTerm, IsOut
        <4>2. \A a, b \in Nat : (a + 1) - b = (a - b) + 1
          OBVIOUS
        <4> QED
          BY <2>3, <4>1, <4>2
      <3> QED
        BY <2>4, <2>5, <3>1, <3>2
    <2>7. CASE ~IsOut(task)
      <3>1. TaskTerm(task, now + 1) = TaskTerm(task, now)
        BY <2>7 DEF TaskTerm, IsOut
      <3> QED
        BY <2>4, <2>5, <3>1
    <2> QED
      BY <2>6, <2>7
  <1>8. Total(late) <= Total(early) + 1
    BY <1>3, <1>4, <1>7, TotalGrows
  <1> QED
    BY <1>2, <1>3, <1>4, <1>8

\* ... and to the wait that is open.
LEMMA TickAddsOneToWaits ==
  ASSUME NEW now \in Nat, NEW ws, WaitsInOrder(ws, now)
  PROVE  /\ WaitsInOrder(ws, now + 1)
         /\ Total(WaitTerms(ws, now + 1)) <= Total(WaitTerms(ws, now)) + 1
  <1>1. ws \in Seq(Wait) /\ Len(ws) \in Nat
    BY DEF WaitsInOrder
  <1>2. WaitsInOrder(ws, now + 1)
    <2>1. ASSUME NEW w \in 1..Len(ws)
          PROVE  ws[w].started <= now + 1
      <3>1. PICK wait : wait = ws[w]
        OBVIOUS
      <3>2. wait \in Wait
        BY <1>1, <3>1
      <3>3. wait.started \in Nat
        BY <3>2, TimesAreNat DEF Wait
      <3>4. wait.started <= now
        BY <3>1 DEF WaitsInOrder
      <3> QED
        BY <3>1, <3>3, <3>4
    <2> QED
      BY <2>1 DEF WaitsInOrder
  <1>3. PICK early \in Seq(Nat) : early = WaitTerms(ws, now) /\ Len(early) = Len(ws)
    BY WaitTermsNat
  <1>4. PICK late \in Seq(Nat) : late = WaitTerms(ws, now + 1) /\ Len(late) = Len(ws)
    BY <1>2, WaitTermsNat
  <1>5. \E k \in Nat : \A w \in 1..Len(ws) : IsOpen(ws[w]) => w = k
    <2>1. CASE \E k \in 1..Len(ws) : IsOpen(ws[k])
      <3>1. PICK k \in 1..Len(ws) : IsOpen(ws[k])
        BY <2>1
      <3>2. k \in Nat /\ \A w \in 1..Len(ws) : IsOpen(ws[w]) => w = k
        BY <3>1 DEF WaitsInOrder
      <3> QED
        BY <3>2
    <2>2. CASE ~\E k \in 1..Len(ws) : IsOpen(ws[k])
      <3>1. 0 \in Nat /\ \A w \in 1..Len(ws) : IsOpen(ws[w]) => w = 0
        BY <2>2
      <3> QED
        BY <3>1
    <2> QED
      BY <2>1, <2>2
  <1>6. PICK k \in Nat : \A w \in 1..Len(ws) : IsOpen(ws[w]) => w = k
    BY <1>5
  <1>7. ASSUME NEW w \in 1..Len(ws)
        PROVE  late[w] <= early[w] \/ (w = k /\ late[w] <= early[w] + 1)
    <2>1. PICK wait : wait = ws[w]
      OBVIOUS
    <2>2. wait \in Wait
      BY <1>1, <2>1
    <2>3. wait.started \in Nat /\ wait.ended \in Nat
      BY <2>2, TimesAreNat DEF Wait
    <2>4. early[w] = WaitTerm(wait, now) /\ late[w] = WaitTerm(wait, now + 1)
      BY <1>3, <1>4, <2>1 DEF WaitTerms
    <2>5. early[w] \in Nat /\ late[w] \in Nat
      BY <1>3, <1>4
    <2>6. CASE IsOpen(wait)
      <3>1. w = k
        BY <1>6, <2>1, <2>6
      <3>2. WaitTerm(wait, now + 1) = WaitTerm(wait, now) + 1
        <4>1. /\ WaitTerm(wait, now + 1) = (now + 1) - wait.started
              /\ WaitTerm(wait, now) = now - wait.started
          BY <2>6 DEF WaitTerm, IsOpen
        <4>2. \A a, b \in Nat : (a + 1) - b = (a - b) + 1
          OBVIOUS
        <4> QED
          BY <2>3, <4>1, <4>2
      <3> QED
        BY <2>4, <2>5, <3>1, <3>2
    <2>7. CASE ~IsOpen(wait)
      <3>1. WaitTerm(wait, now + 1) = WaitTerm(wait, now)
        BY <2>7 DEF WaitTerm, IsOpen
      <3> QED
        BY <2>4, <2>5, <3>1
    <2> QED
      BY <2>6, <2>7
  <1>8. Total(late) <= Total(early) + 1
    BY <1>3, <1>4, <1>7, TotalGrows
  <1> QED
    BY <1>2, <1>3, <1>4, <1>8

\* A new task adds nothing yet.
LEMMA NewTaskAddsNothing ==
  ASSUME NEW now \in Time, NEW ts, TasksInOrder(ts, now), NEW task \in TaskTimes,
         task.drafted = now, task.dispatched = Null, task.over = Null
  PROVE  /\ TasksInOrder(Append(ts, task), now)
         /\ Total(TaskTerms(Append(ts, task), now)) = Total(TaskTerms(ts, now))
  <1>1. ts \in Seq(TaskTimes) /\ Len(ts) \in Nat /\ now \in Nat
    BY TimesAreNat DEF TasksInOrder
  <1>2. PICK more : more = Append(ts, task)
    OBVIOUS
  <1>3. /\ more \in Seq(TaskTimes) /\ Len(more) = Len(ts) + 1 /\ more[Len(ts) + 1] = task
        /\ \A t \in 1..Len(ts) : more[t] = ts[t]
    BY <1>1, <1>2
  <1>4. \A t \in 1..Len(more) : t \in 1..Len(ts) \/ t = Len(ts) + 1
    BY <1>1, <1>3
  <1>5. 1 \in 1..Len(more) /\ (ts # <<>> => 1 \in 1..Len(ts)) /\ (ts = <<>> => Len(ts) = 0)
    BY <1>1, <1>3
  <1>6. ASSUME NEW t \in 1..Len(more)
        PROVE  /\ more[1].drafted <= more[t].drafted /\ more[t].drafted <= now
               /\ more[t].dispatched <= now /\ more[t].over <= now
               /\ more[t].over # Null => more[t].dispatched <= more[t].over
    <2>1. CASE t \in 1..Len(ts)
      <3>1. more[t] = ts[t] /\ more[1] = ts[1]
        BY <1>1, <1>3, <2>1
      <3> QED
        BY <2>1, <3>1 DEF TasksInOrder
    <2>2. CASE t = Len(ts) + 1
      <3>1. more[t] = task
        BY <1>3, <2>2
      <3>2. task.dispatched <= now /\ task.over <= now /\ now <= now
        BY <1>1 DEF Null
      <3>3. more[1].drafted <= now
        <4>1. CASE ts = <<>>
          BY <1>1, <1>3, <1>5, <4>1
        <4>2. CASE ts # <<>>
          <5>1. more[1] = ts[1] /\ ts[1].drafted <= now
            BY <1>3, <1>5, <4>2 DEF TasksInOrder
          <5> QED
            BY <5>1
        <4> QED
          BY <4>1, <4>2
      <3> QED
        BY <3>1, <3>2, <3>3
    <2> QED
      BY <1>4, <2>1, <2>2
  <1>7. \A t \in 1..Len(more) : IsOut(more[t]) => t \in 1..Len(ts) /\ IsOut(ts[t])
    BY <1>3, <1>4 DEF IsOut
  <1>8. \A t, u \in 1..Len(more) : IsOut(more[t]) /\ IsOut(more[u]) => t = u
    BY <1>7 DEF TasksInOrder
  <1>9. TasksInOrder(more, now)
    BY <1>3, <1>6, <1>8 DEF TasksInOrder
  <1>10. PICK early \in Seq(Nat) : early = TaskTerms(ts, now) /\ Len(early) = Len(ts)
    BY <1>1, TaskTermsNat
  <1>11. TaskTerms(more, now) = Append(early, 0)
    <2>1. PICK late \in Seq(Nat) : late = TaskTerms(more, now) /\ Len(late) = Len(more)
      BY <1>1, <1>9, TaskTermsNat
    <2>2. \A t \in 1..Len(ts) : late[t] = early[t]
      BY <1>1, <1>3, <1>10, <2>1 DEF TaskTerms
    <2>3. late[Len(ts) + 1] = 0
      <3>1. Len(ts) + 1 \in 1..Len(more)
        BY <1>1, <1>3
      <3>2. late[Len(ts) + 1] = TaskTerm(task, now)
        BY <1>3, <2>1, <3>1 DEF TaskTerms
      <3> QED
        BY <3>2 DEF TaskTerm
    <2> QED
      BY <1>1, <1>3, <1>10, <2>1, <2>2, <2>3
  <1>12. Total(Append(early, 0)) = Total(early) + 0 /\ Total(early) \in Nat
    BY TotalAppend, TotalIsNat
  <1> QED
    BY <1>2, <1>9, <1>10, <1>11, <1>12

\* ... and neither does a new wait.
LEMMA NewWaitAddsNothing ==
  ASSUME NEW now \in Time, NEW ws, WaitsInOrder(ws, now), NEW wait \in Wait,
         wait.started = now, wait.ended = Null, \A w \in 1..Len(ws) : ~IsOpen(ws[w])
  PROVE  /\ WaitsInOrder(Append(ws, wait), now)
         /\ Total(WaitTerms(Append(ws, wait), now)) = Total(WaitTerms(ws, now))
  <1>1. ws \in Seq(Wait) /\ Len(ws) \in Nat /\ now \in Nat
    BY TimesAreNat DEF WaitsInOrder
  <1>2. PICK more : more = Append(ws, wait)
    OBVIOUS
  <1>3. /\ more \in Seq(Wait) /\ Len(more) = Len(ws) + 1 /\ more[Len(ws) + 1] = wait
        /\ \A w \in 1..Len(ws) : more[w] = ws[w]
    BY <1>1, <1>2
  <1>4. \A w \in 1..Len(more) : w \in 1..Len(ws) \/ w = Len(ws) + 1
    BY <1>1, <1>3
  <1>5. ASSUME NEW w \in 1..Len(more)
        PROVE  /\ more[w].started <= now
               /\ more[w].ended # Null => more[w].started <= more[w].ended
    <2>1. CASE w \in 1..Len(ws)
      BY <1>3, <2>1 DEF WaitsInOrder
    <2>2. CASE w = Len(ws) + 1
      BY <1>1, <1>3, <2>2
    <2> QED
      BY <1>4, <2>1, <2>2
  <1>6. \A v, w \in 1..Len(more) : IsOpen(more[v]) /\ IsOpen(more[w]) => v = w
    BY <1>3, <1>4
  <1>7. WaitsInOrder(more, now)
    BY <1>3, <1>5, <1>6 DEF WaitsInOrder
  <1>8. PICK early \in Seq(Nat) : early = WaitTerms(ws, now) /\ Len(early) = Len(ws)
    BY <1>1, WaitTermsNat
  <1>9. WaitTerms(more, now) = Append(early, 0)
    <2>1. PICK late \in Seq(Nat) : late = WaitTerms(more, now) /\ Len(late) = Len(more)
      BY <1>1, <1>7, WaitTermsNat
    <2>2. \A w \in 1..Len(ws) : late[w] = early[w]
      BY <1>1, <1>3, <1>8, <2>1 DEF WaitTerms
    <2>3. late[Len(ws) + 1] = 0
      <3>1. Len(ws) + 1 \in 1..Len(more)
        BY <1>1, <1>3
      <3>2. late[Len(ws) + 1] = WaitTerm(wait, now)
        BY <1>3, <2>1, <3>1 DEF WaitTerms
      <3> QED
        BY <1>1, <3>2 DEF WaitTerm
    <2> QED
      BY <1>1, <1>3, <1>8, <2>1, <2>2, <2>3
  <1>10. Total(Append(early, 0)) = Total(early) + 0 /\ Total(early) \in Nat
    BY TotalAppend, TotalIsNat
  <1> QED
    BY <1>2, <1>7, <1>8, <1>9, <1>10

LEMMA TotalOfNone ==
  ASSUME NEW times \in Seq(Nat), Len(times) = 0
  PROVE  Total(times) = 0
  BY TotalIsLast DEF Sums, Runs

\* A task whose stamps change adds what it added, unless it goes out beside
\* another.
LEMMA ChangedTaskAddsTheSame ==
  ASSUME NEW now \in Nat, NEW ts, TasksInOrder(ts, now), NEW t \in 1..Len(ts),
         NEW task \in TaskTimes,
         task.drafted = ts[t].drafted, task.dispatched <= now, task.over <= now,
         task.over # Null => task.dispatched <= task.over,
         IsOut(task) => \A u \in 1..Len(ts) : ~IsOut(ts[u]),
         TaskTerm(task, now) = TaskTerm(ts[t], now)
  PROVE  /\ TasksInOrder([ts EXCEPT ![t] = task], now)
         /\ TaskTerms([ts EXCEPT ![t] = task], now) = TaskTerms(ts, now)
  <1>1. ts \in Seq(TaskTimes) /\ Len(ts) \in Nat /\ 1 \in 1..Len(ts)
    BY DEF TasksInOrder
  <1>2. PICK new : new = [ts EXCEPT ![t] = task]
    OBVIOUS
  <1>3. /\ new \in Seq(TaskTimes) /\ Len(new) = Len(ts) /\ new[t] = task
        /\ \A u \in 1..Len(ts) : u # t => new[u] = ts[u]
    BY <1>1, <1>2
  <1>4. \A u \in 1..Len(ts) : new[u].drafted = ts[u].drafted
    BY <1>3
  <1>5. ASSUME NEW u \in 1..Len(ts)
        PROVE  /\ new[1].drafted <= new[u].drafted /\ new[u].drafted <= now
               /\ new[u].dispatched <= now /\ new[u].over <= now
               /\ new[u].over # Null => new[u].dispatched <= new[u].over
    <2>1. new[1].drafted <= new[u].drafted /\ new[u].drafted <= now
      BY <1>1, <1>4 DEF TasksInOrder
    <2>2. CASE u = t
      BY <1>3, <2>1, <2>2
    <2>3. CASE u # t
      <3>1. new[u] = ts[u]
        BY <1>3, <2>3
      <3> QED
        BY <2>1, <3>1 DEF TasksInOrder
    <2> QED
      BY <2>2, <2>3
  <1>6. \A u, v \in 1..Len(ts) : IsOut(new[u]) /\ IsOut(new[v]) => u = v
    <2>1. CASE IsOut(task)
      BY <1>3, <2>1
    <2>2. CASE ~IsOut(task)
      BY <1>3, <2>2 DEF TasksInOrder
    <2> QED
      BY <2>1, <2>2
  <1>7. TasksInOrder(new, now)
    BY <1>3, <1>5, <1>6 DEF TasksInOrder
  <1>8. \A u \in 1..Len(ts) : TaskTerm(new[u], now) = TaskTerm(ts[u], now)
    BY <1>3
  <1>9. TaskTerms(new, now) = TaskTerms(ts, now)
    BY <1>3, <1>8 DEF TaskTerms
  <1> QED
    BY <1>2, <1>7, <1>9

-----------------------------------------------------------------------------
\* What the tables hold at any time.
WatchTypes ==
  /\ subject \in {"daemons", "tasks", "waits"} /\ clock \in Time
  /\ {seenAt, readAt, lastUp} \subseteq 0..clock
  /\ waiting \in BOOLEAN

TasksFit ==
  /\ TasksInOrder(tasks, clock)
  /\ tasks # <<>> => Total(TaskTerms(tasks, clock)) <= clock - tasks[1].drafted

WaitsFit ==
  /\ WaitsInOrder(waits, clock)
  /\ waiting => \A w \in 1..Len(waits) : ~IsOpen(waits[w])
  /\ Total(WaitTerms(waits, clock)) < clock

TimesInv == WatchTypes /\ TasksFit /\ WaitsFit

\* The first of the run was the drafting of its first task.
LEMMA WallIs ==
  ASSUME TasksInOrder(tasks, clock), tasks # <<>>
  PROVE  Wall = clock - tasks[1].drafted
  <1> DEFINE S == {tasks[t].drafted : t \in DOMAIN tasks}
  <1>1. /\ tasks \in Seq(TaskTimes) /\ DOMAIN tasks = 1..Len(tasks) /\ 1 \in DOMAIN tasks
        /\ \A t \in DOMAIN tasks : tasks[t] \in TaskTimes
    BY DEF TasksInOrder
  <1>2. \A x \in S : x \in Nat /\ tasks[1].drafted <= x
    <2> SUFFICES ASSUME NEW t \in DOMAIN tasks
                 PROVE  tasks[t].drafted \in Nat /\ tasks[1].drafted <= tasks[t].drafted
      OBVIOUS
    <2>1. PICK task \in TaskTimes : task = tasks[t]
      BY <1>1
    <2>2. task.drafted \in Nat
      BY TimesAreNat DEF TaskTimes
    <2> QED
      BY <1>1, <2>1, <2>2 DEF TasksInOrder
  <1>3. tasks[1].drafted \in S
    BY <1>1
  <1> HIDE DEF S
  <1>4. PICK first : first = tasks[1].drafted
    OBVIOUS
  <1>5. \A x \in S : (\A y \in S : x <= y) => x = first
    BY <1>2, <1>3, <1>4
  <1>6. Min(S) = first
    BY <1>2, <1>3, <1>4, <1>5 DEF Min
  <1> QED
    BY <1>4, <1>6 DEF Wall, S

LEMMA BusyIs ==
  ASSUME tasks \in Seq(TaskTimes)
  PROVE  Busy = Total(TaskTerms(tasks, clock))
  <1>1. DOMAIN tasks = 1..Len(tasks)
    OBVIOUS
  <1>2. \A t \in DOMAIN tasks : TaskTerm(tasks[t], clock) =
          IF tasks[t].dispatched = Null THEN 0 ELSE BusyTime(tasks[t])
    BY DEF TaskTerm, BusyTime, Until
  <1>3. TaskTerms(tasks, clock) =
          [t \in DOMAIN tasks |-> IF tasks[t].dispatched = Null THEN 0 ELSE BusyTime(tasks[t])]
    BY <1>1, <1>2 DEF TaskTerms
  <1> QED
    BY <1>3 DEF Busy

LEMMA HumanIs ==
  ASSUME waits \in Seq(Wait)
  PROVE  Human = Total(WaitTerms(waits, clock))
  <1>1. DOMAIN waits = 1..Len(waits)
    OBVIOUS
  <1>2. \A w \in DOMAIN waits :
          WaitTerm(waits[w], clock) = Until(waits[w].ended) - waits[w].started
    BY DEF WaitTerm, Until
  <1>3. WaitTerms(waits, clock) =
          [w \in DOMAIN waits |-> Until(waits[w].ended) - waits[w].started]
    BY <1>1, <1>2 DEF WaitTerms
  <1> QED
    BY <1>3 DEF Human

LEMMA InitTimesFit == WatchInit => TimesInv
  <1> SUFFICES ASSUME WatchInit PROVE TimesInv
    OBVIOUS
  <1>1. /\ subject \in {"daemons", "tasks", "waits"}
        /\ clock = 1 /\ seenAt = 0 /\ readAt = 0 /\ lastUp = 0
        /\ tasks = <<>> /\ waits = <<>> /\ waiting = FALSE
    BY DEF WatchInit, Null
  <1>2. WatchTypes
    <2>1. clock \in Time
      BY <1>1, WatchkeepingAssumption DEF Time
    <2>2. seenAt \in 0..clock /\ readAt \in 0..clock /\ lastUp \in 0..clock
      BY <1>1
    <2>3. waiting \in BOOLEAN
      BY <1>1
    <2> QED
      BY <1>1, <2>1, <2>2, <2>3 DEF WatchTypes
  <1>3. TasksFit
    <2>1. tasks \in Seq(TaskTimes) /\ Len(tasks) = 0
      BY <1>1
    <2> QED
      BY <1>1, <2>1 DEF TasksFit, TasksInOrder
  <1>4. WaitsFit
    <2>1. waits \in Seq(Wait) /\ Len(waits) = 0
      BY <1>1
    <2>2. WaitsInOrder(waits, clock)
      BY <2>1 DEF WaitsInOrder
    <2>3. WaitTerms(waits, clock) \in Seq(Nat) /\ Len(WaitTerms(waits, clock)) = 0
      BY <1>1, <2>1, <2>2, WaitTermsNat
    <2>4. Total(WaitTerms(waits, clock)) = 0
      BY <2>3, TotalOfNone
    <2> QED
      BY <1>1, <2>1, <2>2, <2>4 DEF WaitsFit
  <1> QED
    BY <1>2, <1>3, <1>4 DEF TimesInv

LEMMA TickFits ==
  ASSUME TimesInv, Tick
  PROVE  TimesInv'
  <1>1. /\ clock < MaxClock /\ clock' = clock + 1 /\ lastUp' \in {clock + 1, lastUp}
        /\ UNCHANGED <<subject, seenAt, readAt, tasks, waits, waiting>>
    BY DEF Tick
  <1>2. clock \in Nat /\ clock \in Time
    BY TimesAreNat DEF TimesInv, WatchTypes
  <1>3. WatchTypes'
    <2>1. clock' \in Time
      BY <1>1, <1>2, WatchkeepingAssumption DEF Time
    <2>2. seenAt \in 0..clock /\ readAt \in 0..clock /\ lastUp \in 0..clock
      BY DEF TimesInv, WatchTypes
    <2>3. seenAt' \in 0..clock' /\ readAt' \in 0..clock' /\ lastUp' \in 0..clock'
      BY <1>1, <1>2, <2>2
    <2> QED
      BY <1>1, <2>1, <2>3 DEF TimesInv, WatchTypes
  <1>4. TasksFit'
    <2>1. TasksInOrder(tasks, clock)
      BY DEF TimesInv, TasksFit
    <2>2. /\ TasksInOrder(tasks, clock + 1)
          /\ Total(TaskTerms(tasks, clock + 1)) <= Total(TaskTerms(tasks, clock)) + 1
      BY <1>2, <2>1, TickAddsOneToTasks
    <2>3. TasksInOrder(tasks', clock')
      BY <1>1, <2>2
    <2>4. ASSUME tasks' # <<>>
          PROVE  Total(TaskTerms(tasks', clock')) <= clock' - tasks'[1].drafted
      <3>1. PICK early : early = Total(TaskTerms(tasks, clock))
        OBVIOUS
      <3>2. PICK late : late = Total(TaskTerms(tasks', clock'))
        OBVIOUS
      <3>3. PICK first : first = tasks[1].drafted
        OBVIOUS
      <3>4. early \in Nat /\ late \in Nat
        BY <1>1, <1>2, <2>1, <2>2, <3>1, <3>2, TaskTermsNat, TotalIsNat
      <3>5. first \in Nat
        <4>1. tasks \in Seq(TaskTimes) /\ 1 \in 1..Len(tasks)
          BY <1>1, <2>1, <2>4 DEF TasksInOrder
        <4>2. PICK task \in TaskTimes : task = tasks[1]
          BY <4>1
        <4> QED
          BY <3>3, <4>2, TimesAreNat DEF TaskTimes
      <3>6. late <= early + 1 /\ early <= clock - first
        BY <1>1, <2>2, <2>4, <3>1, <3>2, <3>3 DEF TimesInv, TasksFit
      <3>7. late <= (clock + 1) - first
        BY <1>2, <3>4, <3>5, <3>6
      <3> QED
        BY <1>1, <3>2, <3>3, <3>7
    <2> QED
      BY <2>3, <2>4 DEF TasksFit
  <1>5. WaitsFit'
    <2>1. WaitsInOrder(waits, clock)
      BY DEF TimesInv, WaitsFit
    <2>2. /\ WaitsInOrder(waits, clock + 1)
          /\ Total(WaitTerms(waits, clock + 1)) <= Total(WaitTerms(waits, clock)) + 1
      BY <1>2, <2>1, TickAddsOneToWaits
    <2>3. WaitsInOrder(waits', clock')
      BY <1>1, <2>2
    <2>4. Total(WaitTerms(waits', clock')) < clock'
      <3>1. PICK early : early = Total(WaitTerms(waits, clock))
        OBVIOUS
      <3>2. PICK late : late = Total(WaitTerms(waits', clock'))
        OBVIOUS
      <3>3. early \in Nat /\ late \in Nat
        BY <1>1, <1>2, <2>1, <2>2, <3>1, <3>2, WaitTermsNat, TotalIsNat
      <3>4. late <= early + 1 /\ early < clock
        BY <1>1, <2>2, <3>1, <3>2 DEF TimesInv, WaitsFit
      <3>5. late < clock + 1
        BY <1>2, <3>3, <3>4
      <3> QED
        BY <1>1, <3>2, <3>5
    <2> QED
      BY <1>1, <2>3, <2>4 DEF TimesInv, WaitsFit
  <1> QED
    BY <1>3, <1>4, <1>5 DEF TimesInv

\* A step of the daemons, and `state`, stamp the run's record.
LEMMA StampFits ==
  ASSUME TimesInv, UNCHANGED <<subject, clock, tasks, waits, waiting>>,
         seenAt' \in {seenAt, clock}, readAt' \in {readAt, clock}, lastUp' \in {lastUp, clock}
  PROVE  TimesInv'
  <1>1. clock \in Nat
    BY TimesAreNat DEF TimesInv, WatchTypes
  <1>2. clock \in 0..clock
    BY <1>1
  <1>3. WatchTypes'
    BY <1>2 DEF TimesInv, WatchTypes
  <1>4. TasksFit' /\ WaitsFit'
    BY DEF TimesInv, TasksFit, WaitsFit
  <1> QED
    BY <1>3, <1>4 DEF TimesInv

LEMMA NewFits ==
  ASSUME TimesInv, New
  PROVE  TimesInv'
  <1> DEFINE task == [drafted |-> clock, dispatched |-> Null, over |-> Null, judged |-> Null]
  <1>1. /\ tasks' = Append(tasks, task)
        /\ UNCHANGED <<subject, clock, seenAt, readAt, waits, waiting, lastUp>>
    BY DEF New, TasksStep
  <1>2. clock \in Time /\ clock \in Nat /\ TasksInOrder(tasks, clock)
    BY TimesAreNat DEF TimesInv, WatchTypes, TasksFit
  <1>3. /\ task \in TaskTimes /\ task.drafted = clock
        /\ task.dispatched = Null /\ task.over = Null
    BY <1>2 DEF TaskTimes, Stamp
  <1> HIDE DEF task
  <1>4. PICK late : late = Append(tasks, task)
    OBVIOUS
  <1>5. /\ TasksInOrder(late, clock)
        /\ Total(TaskTerms(late, clock)) = Total(TaskTerms(tasks, clock))
    BY <1>2, <1>3, <1>4, NewTaskAddsNothing
  <1>6. Total(TaskTerms(late, clock)) <= clock - late[1].drafted
    <2>1. tasks \in Seq(TaskTimes) /\ Len(tasks) \in Nat
      BY <1>2 DEF TasksInOrder
    <2>2. CASE tasks = <<>>
      <3>1. late[1] = task
        BY <1>4, <2>2
      <3>2. Len(tasks) = 0
        BY <2>2
      <3>3. Total(TaskTerms(tasks, clock)) = 0
        BY <1>2, <3>2, TaskTermsNat, TotalOfNone
      <3> QED
        BY <1>2, <1>3, <1>5, <3>1, <3>3
    <2>3. CASE tasks # <<>>
      <3>1. late[1] = tasks[1]
        BY <1>3, <1>4, <2>1, <2>3
      <3>2. Total(TaskTerms(tasks, clock)) <= clock - tasks[1].drafted
        BY <2>3 DEF TimesInv, TasksFit
      <3> QED
        BY <1>5, <3>1, <3>2
    <2> QED
      BY <2>2, <2>3
  <1>7. TasksFit'
    BY <1>1, <1>4, <1>5, <1>6 DEF TasksFit
  <1>8. WatchTypes' /\ WaitsFit'
    BY <1>1 DEF TimesInv, WatchTypes, WaitsFit
  <1> QED
    BY <1>7, <1>8 DEF TimesInv

\* A step that changes one task's stamps and not its drafting.
LEMMA ChangedTaskFits ==
  ASSUME TimesInv, NEW t \in DOMAIN tasks, NEW task \in TaskTimes,
         TasksStep([tasks EXCEPT ![t] = task]),
         task.drafted = tasks[t].drafted, task.dispatched <= clock, task.over <= clock,
         task.over # Null => task.dispatched <= task.over,
         IsOut(task) => \A u \in DOMAIN tasks : ~IsOut(tasks[u]),
         TaskTerm(task, clock) = TaskTerm(tasks[t], clock)
  PROVE  TimesInv'
  <1>1. /\ tasks' = [tasks EXCEPT ![t] = task]
        /\ UNCHANGED <<subject, clock, seenAt, readAt, waits, waiting, lastUp>>
    BY DEF TasksStep
  <1>2. clock \in Nat /\ TasksInOrder(tasks, clock) /\ tasks \in Seq(TaskTimes)
    BY TimesAreNat DEF TimesInv, WatchTypes, TasksFit, TasksInOrder
  <1>3. DOMAIN tasks = 1..Len(tasks) /\ Len(tasks) \in Nat
    BY <1>2
  <1>4. PICK late : late = [tasks EXCEPT ![t] = task]
    OBVIOUS
  <1>5. TasksInOrder(late, clock) /\ TaskTerms(late, clock) = TaskTerms(tasks, clock)
    BY <1>2, <1>3, <1>4, ChangedTaskAddsTheSame
  <1>6. tasks # <<>> /\ late[1].drafted = tasks[1].drafted
    BY <1>2, <1>3, <1>4
  <1>7. Total(TaskTerms(late, clock)) <= clock - late[1].drafted
    BY <1>5, <1>6 DEF TimesInv, TasksFit
  <1>8. TasksFit'
    BY <1>1, <1>4, <1>5, <1>7 DEF TasksFit
  <1>9. WatchTypes' /\ WaitsFit'
    BY <1>1 DEF TimesInv, WatchTypes, WaitsFit
  <1> QED
    BY <1>8, <1>9 DEF TimesInv

LEMMA TasksKeepTypes ==
  ASSUME TimesInv
  PROVE  /\ clock \in Time /\ clock \in Nat /\ clock # Null
         /\ \A t \in DOMAIN tasks :
              /\ tasks[t] \in TaskTimes
              /\ tasks[t].dispatched \in Nat /\ tasks[t].dispatched <= clock
              /\ tasks[t].over \in Nat /\ tasks[t].over <= clock
              /\ tasks[t].over # Null => tasks[t].dispatched <= tasks[t].over
  <1>1. clock \in Time /\ clock \in Nat
    BY TimesAreNat DEF TimesInv, WatchTypes
  <1>2. clock # Null
    BY <1>1, WatchkeepingAssumption DEF TimesInv, WatchTypes, Time, Null
  <1>3. ASSUME NEW t \in DOMAIN tasks
        PROVE  /\ tasks[t] \in TaskTimes
               /\ tasks[t].dispatched \in Nat /\ tasks[t].dispatched <= clock
               /\ tasks[t].over \in Nat /\ tasks[t].over <= clock
               /\ tasks[t].over # Null => tasks[t].dispatched <= tasks[t].over
    <2>1. TasksInOrder(tasks, clock) /\ tasks \in Seq(TaskTimes)
      BY DEF TimesInv, TasksFit, TasksInOrder
    <2>2. t \in 1..Len(tasks) /\ tasks[t] \in TaskTimes
      BY <2>1
    <2>3. PICK task \in TaskTimes : task = tasks[t]
      BY <2>2
    <2>4. task.dispatched \in Nat /\ task.over \in Nat
      BY <2>3, TimesAreNat DEF TaskTimes
    <2> QED
      BY <2>1, <2>2, <2>3, <2>4 DEF TasksInOrder
  <1> QED
    BY <1>1, <1>2, <1>3

LEMMA DispatchTaskFits ==
  ASSUME TimesInv, NEW t \in DOMAIN tasks, DispatchTask(t)
  PROVE  TimesInv'
  <1>1. /\ tasks[t].dispatched = Null /\ tasks[t].over = Null
        /\ \A u \in DOMAIN tasks : ~IsOut(tasks[u])
        /\ TasksStep([tasks EXCEPT ![t].dispatched = clock])
    BY DEF DispatchTask
  <1>2. PICK old : old = tasks[t]
    OBVIOUS
  <1>3. PICK new : new = [old EXCEPT !.dispatched = clock]
    OBVIOUS
  <1>4. old \in TaskTimes /\ clock \in Time /\ clock \in Nat
    BY <1>2, TasksKeepTypes
  <1>5. new \in TaskTimes
    BY <1>3, <1>4 DEF TaskTimes, Stamp
  <1>6. new.drafted = old.drafted /\ new.dispatched = clock /\ new.over = Null
    BY <1>1, <1>2, <1>3, <1>4 DEF TaskTimes
  <1>7. clock # Null /\ clock - clock = 0 /\ clock <= clock /\ 0 <= clock
    BY <1>4, TasksKeepTypes
  <1>8. TaskTerm(new, clock) = TaskTerm(old, clock)
    BY <1>1, <1>2, <1>6, <1>7 DEF TaskTerm
  <1>9. TasksStep([tasks EXCEPT ![t] = new])
    BY <1>1, <1>2, <1>3
  <1>10. new.over <= clock
    BY <1>6, <1>7 DEF Null
  <1> QED
    BY <1>1, <1>2, <1>5, <1>6, <1>7, <1>8, <1>9, <1>10, ChangedTaskFits

\* A task that is out, or was never out, is over now.
LEMMA EndedFits ==
  ASSUME TimesInv, NEW t \in DOMAIN tasks, tasks[t].over = Null, NEW task \in TaskTimes,
         task.drafted = tasks[t].drafted, task.dispatched = tasks[t].dispatched,
         task.over = clock, TasksStep([tasks EXCEPT ![t] = task])
  PROVE  TimesInv'
  <1>1. /\ clock \in Nat /\ clock # Null
        /\ tasks[t].dispatched <= clock /\ clock <= clock
    BY TasksKeepTypes
  <1>2. ~IsOut(task)
    BY <1>1 DEF IsOut
  <1>3. TaskTerm(task, clock) = TaskTerm(tasks[t], clock)
    BY <1>1 DEF TaskTerm
  <1> QED
    BY <1>1, <1>2, <1>3, ChangedTaskFits

LEMMA CommitTaskFits ==
  ASSUME TimesInv, NEW t \in DOMAIN tasks, CommitTask(t)
  PROVE  TimesInv'
  <1>1. tasks[t].over = Null /\ TasksStep([tasks EXCEPT ![t].over = clock])
    BY DEF CommitTask, IsOut
  <1>2. PICK old : old = tasks[t]
    OBVIOUS
  <1>3. PICK new : new = [old EXCEPT !.over = clock]
    OBVIOUS
  <1>4. old \in TaskTimes /\ clock \in Time
    BY <1>2, TasksKeepTypes
  <1>5. new \in TaskTimes
    BY <1>3, <1>4 DEF TaskTimes, Stamp
  <1>6. new.drafted = old.drafted /\ new.dispatched = old.dispatched /\ new.over = clock
    BY <1>3, <1>4 DEF TaskTimes
  <1>7. TasksStep([tasks EXCEPT ![t] = new])
    BY <1>1, <1>2, <1>3
  <1> QED
    BY <1>1, <1>2, <1>5, <1>6, <1>7, EndedFits

LEMMA AbortTaskFits ==
  ASSUME TimesInv, NEW t \in DOMAIN tasks, AbortTask(t)
  PROVE  TimesInv'
  <1>1. /\ tasks[t].over = Null
        /\ TasksStep([tasks EXCEPT ![t].over = clock, ![t].judged = clock])
    BY DEF AbortTask
  <1>2. PICK old : old = tasks[t]
    OBVIOUS
  <1>3. PICK new : new = [old EXCEPT !.over = clock, !.judged = clock]
    OBVIOUS
  <1>4. old \in TaskTimes /\ clock \in Time
    BY <1>2, TasksKeepTypes
  <1>5. new \in TaskTimes
    BY <1>3, <1>4 DEF TaskTimes, Stamp
  <1>6. new.drafted = old.drafted /\ new.dispatched = old.dispatched /\ new.over = clock
    BY <1>3, <1>4 DEF TaskTimes
  <1>7. [tasks EXCEPT ![t].over = clock, ![t].judged = clock] = [tasks EXCEPT ![t] = new]
    BY <1>2, <1>3
  <1>8. TasksStep([tasks EXCEPT ![t] = new])
    BY <1>1, <1>7
  <1> QED
    BY <1>1, <1>2, <1>5, <1>6, <1>8, EndedFits

LEMMA JudgeFits ==
  ASSUME TimesInv, NEW t \in DOMAIN tasks, Judge(t)
  PROVE  TimesInv'
  <1>1. tasks[t].over # Null /\ TasksStep([tasks EXCEPT ![t].judged = clock])
    BY DEF Judge
  <1>2. PICK old : old = tasks[t]
    OBVIOUS
  <1>3. PICK new : new = [old EXCEPT !.judged = clock]
    OBVIOUS
  <1>4. /\ old \in TaskTimes /\ clock \in Time
        /\ old.dispatched <= clock /\ old.over <= clock
        /\ old.over # Null => old.dispatched <= old.over
    BY <1>2, TasksKeepTypes
  <1>5. new \in TaskTimes
    BY <1>3, <1>4 DEF TaskTimes, Stamp
  <1>6. new.drafted = old.drafted /\ new.dispatched = old.dispatched /\ new.over = old.over
    BY <1>3, <1>4 DEF TaskTimes
  <1>7. TasksStep([tasks EXCEPT ![t] = new])
    BY <1>1, <1>2, <1>3
  <1>8. ~IsOut(new)
    BY <1>1, <1>2, <1>6 DEF IsOut
  <1>9. TaskTerm(new, clock) = TaskTerm(old, clock)
    BY <1>6 DEF TaskTerm
  <1> QED
    BY <1>2, <1>4, <1>5, <1>6, <1>7, <1>8, <1>9, ChangedTaskFits

-----------------------------------------------------------------------------
LEMMA WaitingFits ==
  ASSUME TimesInv, StartWait \/ KillWait
  PROVE  TimesInv'
  <1>1. /\ waits' = waits /\ waiting' \in BOOLEAN
        /\ waiting' => \A w \in DOMAIN waits : ~IsOpen(waits[w])
        /\ UNCHANGED <<subject, clock, seenAt, readAt, tasks, lastUp>>
    BY DEF StartWait, KillWait, WaitsStep
  <1>2. DOMAIN waits = 1..Len(waits)
    BY DEF TimesInv, WaitsFit, WaitsInOrder
  <1>3. WaitsFit'
    BY <1>1, <1>2 DEF TimesInv, WaitsFit
  <1>4. WatchTypes' /\ TasksFit'
    BY <1>1 DEF TimesInv, WatchTypes, TasksFit
  <1> QED
    BY <1>3, <1>4 DEF TimesInv

LEMMA InsertWaitFits ==
  ASSUME TimesInv, InsertWait
  PROVE  TimesInv'
  <1> DEFINE wait == [started |-> clock, ended |-> Null]
  <1>1. /\ waiting /\ waits' = Append(waits, wait) /\ waiting' = FALSE
        /\ UNCHANGED <<subject, clock, seenAt, readAt, tasks, lastUp>>
    BY DEF InsertWait, WaitsStep
  <1>2. /\ clock \in Time /\ WaitsInOrder(waits, clock)
        /\ \A w \in 1..Len(waits) : ~IsOpen(waits[w])
    BY <1>1 DEF TimesInv, WatchTypes, WaitsFit
  <1>3. wait \in Wait /\ wait.started = clock /\ wait.ended = Null
    BY <1>2 DEF Wait, Stamp
  <1> HIDE DEF wait
  <1>4. PICK late : late = Append(waits, wait)
    OBVIOUS
  <1>5. WaitsInOrder(late, clock) /\ Total(WaitTerms(late, clock)) = Total(WaitTerms(waits, clock))
    BY <1>2, <1>3, <1>4, NewWaitAddsNothing
  <1>6. Total(WaitTerms(waits, clock)) < clock
    BY DEF TimesInv, WaitsFit
  <1>7. WaitsFit'
    BY <1>1, <1>4, <1>5, <1>6 DEF WaitsFit
  <1>8. WatchTypes' /\ TasksFit'
    BY <1>1 DEF TimesInv, WatchTypes, TasksFit
  <1> QED
    BY <1>7, <1>8 DEF TimesInv

LEMMA EndWaitFits ==
  ASSUME TimesInv, EndWait
  PROVE  TimesInv'
  <1> DEFINE closed(w) ==
        IF IsOpen(waits[w]) THEN [waits[w] EXCEPT !.ended = clock] ELSE waits[w]
  <1>1. /\ waits' = [w \in DOMAIN waits |-> closed(w)] /\ waiting' = FALSE
        /\ UNCHANGED <<subject, clock, seenAt, readAt, tasks, lastUp>>
    BY DEF EndWait, WaitsStep
  <1>2. /\ clock \in Time /\ clock \in Nat /\ WaitsInOrder(waits, clock)
        /\ waits \in Seq(Wait) /\ DOMAIN waits = 1..Len(waits) /\ Len(waits) \in Nat
    BY TimesAreNat DEF TimesInv, WatchTypes, WaitsFit, WaitsInOrder
  <1>3. clock # Null
    BY TasksKeepTypes
  <1>4. PICK late : late = [w \in DOMAIN waits |-> closed(w)]
    OBVIOUS
  <1>5. ASSUME NEW w \in 1..Len(waits)
        PROVE  /\ late[w] \in Wait /\ ~IsOpen(late[w])
               /\ late[w].started <= clock
               /\ late[w].ended # Null => late[w].started <= late[w].ended
               /\ WaitTerm(late[w], clock) = WaitTerm(waits[w], clock)
    <2>1. PICK wait \in Wait : wait = waits[w]
      BY <1>2
    <2>2. /\ wait.started <= clock
          /\ wait.ended # Null => wait.started <= wait.ended
      BY <1>2, <2>1 DEF WaitsInOrder
    <2>3. CASE IsOpen(wait)
      <3>1. PICK new : new = [wait EXCEPT !.ended = clock]
        OBVIOUS
      <3>2. late[w] = new
        BY <1>2, <1>4, <2>1, <2>3, <3>1
      <3>3. new \in Wait
        BY <1>2, <3>1 DEF Wait, Stamp
      <3>4. new.started = wait.started /\ new.ended = clock
        BY <3>1 DEF Wait
      <3>5. ~IsOpen(new)
        BY <1>3, <3>4 DEF IsOpen
      <3>6. WaitTerm(new, clock) = WaitTerm(wait, clock)
        BY <2>3, <3>4 DEF WaitTerm, IsOpen
      <3> QED
        BY <2>1, <2>2, <3>2, <3>3, <3>4, <3>5, <3>6
    <2>4. CASE ~IsOpen(wait)
      <3>1. late[w] = wait
        BY <1>2, <1>4, <2>1, <2>4
      <3> QED
        BY <2>1, <2>2, <2>4, <3>1
    <2> QED
      BY <2>3, <2>4
  <1>6. late \in Seq(Wait) /\ Len(late) = Len(waits)
    <2>1. DOMAIN late = 1..Len(waits)
      BY <1>2, <1>4
    <2>2. late = [w \in 1..Len(waits) |-> late[w]]
      BY <1>2, <1>4
    <2>3. late \in [1..Len(waits) -> Wait]
      BY <1>5, <2>2
    <2> QED
      BY <1>2, <2>1, <2>3
  <1>7. WaitsInOrder(late, clock)
    BY <1>5, <1>6 DEF WaitsInOrder
  <1>8. WaitTerms(late, clock) = WaitTerms(waits, clock)
    BY <1>5, <1>6 DEF WaitTerms
  <1>9. Total(WaitTerms(waits, clock)) < clock
    BY DEF TimesInv, WaitsFit
  <1>10. WaitsFit'
    BY <1>1, <1>4, <1>7, <1>8, <1>9 DEF WaitsFit
  <1>11. WatchTypes' /\ TasksFit'
    BY <1>1 DEF TimesInv, WatchTypes, TasksFit
  <1> QED
    BY <1>10, <1>11 DEF TimesInv

-----------------------------------------------------------------------------
LEMMA TimesInductive == TimesInv /\ [WatchNext]_<<vars, watchVars>> => TimesInv'
  <1> SUFFICES ASSUME TimesInv, [WatchNext]_<<vars, watchVars>>
               PROVE  TimesInv'
    OBVIOUS
  <1>1. CASE DaemonsStep
    <2>1. /\ UNCHANGED <<subject, clock, readAt, tasks, waits, waiting>>
          /\ seenAt' \in {seenAt, clock} /\ lastUp' \in {lastUp, clock}
      BY <1>1 DEF DaemonsStep
    <2> QED
      BY <2>1, StampFits
  <1>2. CASE Tick
    BY <1>2, TickFits
  <1>3. CASE New
    BY <1>3, NewFits
  <1>4. CASE ReadState
    <2>1. /\ UNCHANGED <<subject, clock, seenAt, lastUp, tasks, waits, waiting>>
          /\ readAt' = clock
      BY <1>4 DEF ReadState
    <2> QED
      BY <2>1, StampFits
  <1>5. ASSUME NEW t \in DOMAIN tasks,
               DispatchTask(t) \/ CommitTask(t) \/ Judge(t) \/ AbortTask(t)
        PROVE  TimesInv'
    BY <1>5, DispatchTaskFits, CommitTaskFits, JudgeFits, AbortTaskFits
  <1>6. CASE StartWait \/ KillWait
    BY <1>6, WaitingFits
  <1>7. CASE InsertWait
    BY <1>7, InsertWaitFits
  <1>8. CASE EndWait
    BY <1>8, EndWaitFits
  <1>9. CASE UNCHANGED <<vars, watchVars>>
    <2>1. UNCHANGED <<subject, clock, seenAt, readAt, lastUp, tasks, waits, waiting>>
      BY <1>9 DEF watchVars
    <2> QED
      BY <2>1, StampFits
  <1> QED
    BY <1>1, <1>2, <1>3, <1>4, <1>5, <1>6, <1>7, <1>8, <1>9 DEF WatchNext

\* Whatever is drafted, dispatched, committed, judged and aborted when, and
\* whichever human waits are started, killed and ended: print_time_summary's
\* busy time is at most its wall time, and its human time less than there was.
THEOREM SummaryAddsUp == WatchSpec => []TimesAddUp
  <1>1. TimesInv => TimesAddUp
    <2> SUFFICES ASSUME TimesInv PROVE TimesAddUp
      OBVIOUS
    <2>1. TasksInOrder(tasks, clock) /\ tasks \in Seq(TaskTimes) /\ waits \in Seq(Wait)
      BY DEF TimesInv, TasksFit, WaitsFit, TasksInOrder, WaitsInOrder
    <2>2. tasks # <<>> => Busy <= Wall
      BY <2>1, BusyIs, WallIs DEF TimesInv, TasksFit
    <2>3. Human < clock
      BY <2>1, HumanIs DEF TimesInv, WaitsFit
    <2> QED
      BY <2>2, <2>3 DEF TimesAddUp
  <1> QED
    BY InitTimesFit, TimesInductive, <1>1, PTL DEF WatchSpec

\* The clock, the stamps, the tasks' times and the waits keep their types, and
\* no stamp is later than the clock.
THEOREM WatchTypeCorrect == WatchSpec => []WatchTypeOK
  <1>1. TypeOK /\ TimesInv => WatchTypeOK
    BY DEF TimesInv, WatchTypes, TasksFit, TasksInOrder, WaitsFit, WaitsInOrder, WatchTypeOK
  <1> QED
    BY InitTimesFit, TimesInductive, ImplementsDaemonRun, TypeCorrect, <1>1, PTL
      DEF WatchSpec
=============================================================================
