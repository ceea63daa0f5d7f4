------------------------------ MODULE DaemonRun ------------------------------
(***************************************************************************)
(* The run record, the lead's rows of the sessions table and the daemons   *)
(* that serve the run: starting one, its poll of the stop request, the     *)
(* latch on the lead's context, `stop`, and killing it                     *)
(* (src/coordinator.rs daemon, register_lead, observe_lead, cmd_stop).     *)
(*                                                                         *)
(* A lead starts its daemon in the background and nothing but the stop     *)
(* request ends it, so a daemon may outlive the lead that started it and   *)
(* run beside its successor.  What a daemon does with the other sessions   *)
(* is in Coordinator and SessionWatch.                                     *)
(***************************************************************************)
EXTENDS Naturals, Sequences, FiniteSets

CONSTANTS
  Daemons,    \* processes that may run as the daemon
  Leads,      \* external session ids of the leads, as each says of itself
  Overlap,    \* whether a daemon may be started while another one is up
  MaxEvents   \* run events of a kind are counted up to this number

ASSUME ConstantsAssumption ==
  /\ Overlap \in BOOLEAN
  /\ MaxEvents \in Nat /\ MaxEvents > 1

VARIABLES
  stopping,   \* whether run.stop_requested_at is set
  rows,       \* the rows of the lead's name, by started_at and id
  stopLeads,  \* [Leads -> the StopLead run events of the lead's row]
  context,    \* [Leads -> how the lead's context stands to LEAD_STOP_TOKENS]
  daemons,    \* [Daemons -> what each is doing]
  told        \* the daemons that were polling when `stop` was last printed

vars == <<stopping, rows, stopLeads, context, daemons, told>>

-----------------------------------------------------------------------------
\* over: whether over_limit_at is set.
LeadRow == [lead : Leads, live : BOOLEAN, over : BOOLEAN]

\* row: the row of the lead this poll's snapshot holds, by position, or 0.
\* latch: whether that snapshot lets the limit be latched.
Daemon == [pc : {"off", "registered", "refused", "poll", "snapshot", "read", "latch"},
           row : Nat, latch : BOOLEAN]

Off == [pc |-> "off", row |-> 0, latch |-> FALSE]

TypeOK ==
  /\ stopping \in BOOLEAN
  /\ rows \in Seq(LeadRow)
  /\ stopLeads \in [Leads -> 0..MaxEvents]
  /\ context \in [Leads -> {"unknown", "within", "over"}]
  /\ daemons \in [Daemons -> Daemon]
  /\ told \subseteq Daemons
  /\ \A d \in Daemons : daemons[d].row <= Len(rows)

Init ==
  /\ stopping = FALSE
  /\ rows = <<>>
  /\ stopLeads = [l \in Leads |-> 0]
  /\ context = [l \in Leads |-> "unknown"]
  /\ daemons = [d \in Daemons |-> Off]
  /\ told = {}

-----------------------------------------------------------------------------
At(d, pc) == daemons[d].pc = pc

Goto(d, pc) ==
  daemons' = [daemons EXCEPT ![d] = [pc |-> pc, row |-> 0, latch |-> FALSE]]

Up(d) == daemons[d].pc \notin {"off", "refused"}

InLoop(d) == daemons[d].pc \in {"poll", "snapshot", "read", "latch"}

Serves(row, l) == row.live /\ row.lead = l

\* Slip: the older rows of the name are left live.
NoneStopped == rows

\* stop_named: every live row of the name.
Stopped == [r \in DOMAIN rows |-> [rows[r] EXCEPT !.live = FALSE]]

\* The newest row of the lead's name is this lead's, and live.
Current(l) == rows # <<>> /\ Serves(rows[Len(rows)], l)

Recorded(l) == \E r \in DOMAIN rows : rows[r].lead = l

\* Slip: an external_session_id may be in the table twice.
RegisterAgain(d, l) ==
  /\ rows' = IF Current(l) THEN rows
             ELSE Append(Stopped, [lead |-> l, live |-> TRUE, over |-> FALSE])
  /\ Goto(d, "registered")

\* register_lead, one transaction.  The newest row is kept when it is this
\* lead's and live.  A lead with an older row cannot be inserted again:
\* external_session_id is unique, and the daemon ends with that error.
RegisterLead(d, l) ==
  \/ /\ Current(l)
     /\ Goto(d, "registered") /\ UNCHANGED rows
  \/ /\ ~Current(l)
     /\ \/ /\ ~Recorded(l)
           /\ rows' = Append(Stopped, [lead |-> l, live |-> TRUE, over |-> FALSE])
           /\ Goto(d, "registered")
        \/ /\ Recorded(l)
           /\ Goto(d, "refused") /\ UNCHANGED rows

Start(d, l) ==
  /\ At(d, "off")
  /\ Overlap \/ \A other \in Daemons : At(other, "off")
  /\ RegisterLead(d, l)
  /\ UNCHANGED <<stopping, stopLeads, context, told>>

\* The error is printed and the process ends.
ExitRefused(d) ==
  /\ At(d, "refused") /\ Goto(d, "off")
  /\ UNCHANGED <<stopping, rows, stopLeads, context, told>>

\* clear_stop_request, whoever the request was meant for.
ClearStop(d) ==
  /\ At(d, "registered") /\ Goto(d, "poll")
  /\ stopping' = FALSE
  /\ UNCHANGED <<rows, stopLeads, context, told>>

\* Slip: the poll is stamped and the stop request is not read.
PollUnasked(d) ==
  /\ At(d, "poll") /\ Goto(d, "snapshot")
  /\ UNCHANGED <<stopping, rows, stopLeads, context, told>>

\* One write transaction reads the request and, if there is none, stamps the
\* poll.
Poll(d) ==
  /\ At(d, "poll")
  /\ \/ stopping /\ Goto(d, "off") /\ told' = told \ {d}
     \/ ~stopping /\ Goto(d, "snapshot") /\ UNCHANGED told
  /\ UNCHANGED <<stopping, rows, stopLeads, context>>

\* Slip: the latch is not looked at.
CanLatchAgain(row) == row.live

\* Slip: once per run.
CanLatchOnce(row) == row.live /\ \A r \in DOMAIN rows : ~rows[r].over

CanLatch(row) == row.live /\ ~row.over

\* session_snapshots: the live row of the lead, as it is now.  There is one
\* once a daemon has registered, and only another lead stops it.
Snapshot(d) ==
  /\ At(d, "snapshot")
  /\ \E r \in DOMAIN rows :
       /\ rows[r].live
       /\ daemons' = [daemons EXCEPT ![d] =
            [pc |-> "read", row |-> r, latch |-> CanLatch(rows[r])]]
  /\ UNCHANGED <<stopping, rows, stopLeads, context, told>>

\* Slip: the poll does not end before the lead is over its limit.
ReadUntilOver(d) ==
  /\ At(d, "read") /\ context[rows[daemons[d].row].lead] = "over"
  /\ daemons' = [daemons EXCEPT ![d].pc = IF daemons[d].latch THEN "latch" ELSE "poll"]
  /\ UNCHANGED <<stopping, rows, stopLeads, context, told>>

\* The reading and observe_lead's test: the context is read now, the latch was
\* read with the snapshot.  A lead with no transcript yet is skipped.
Read(d) ==
  LET l == rows[daemons[d].row].lead IN
  /\ At(d, "read")
  /\ \/ /\ context[l] = "over" /\ daemons[d].latch
        /\ daemons' = [daemons EXCEPT ![d].pc = "latch"]
     \/ /\ context[l] # "over" \/ ~daemons[d].latch
        /\ Goto(d, "poll")
  /\ UNCHANGED <<stopping, rows, stopLeads, context, told>>

\* record_over_limit and its run event, one transaction.
Latch(d) ==
  LET r == daemons[d].row IN
  /\ At(d, "latch") /\ Goto(d, "poll")
  /\ rows' = [rows EXCEPT ![r].over = TRUE]
  /\ stopLeads' = [stopLeads EXCEPT ![rows[r].lead] =
                     IF @ < MaxEvents THEN @ + 1 ELSE @]
  /\ UNCHANGED <<stopping, context, told>>

\* The process is killed, with the terminal it runs in or by hand.
Kill(d) ==
  /\ Up(d) /\ Goto(d, "off")
  /\ told' = told \ {d}
  /\ UNCHANGED <<stopping, rows, stopLeads, context>>

\* cmd_stop.
Stop ==
  /\ stopping' = TRUE
  /\ told' = {d \in Daemons : InLoop(d)}
  /\ UNCHANGED <<rows, stopLeads, context, daemons>>

\* The lead's transcript says more, or says less after it was compacted.
ReadsContext(l) ==
  /\ \E c \in {"within", "over"} : context' = [context EXCEPT ![l] = c]
  /\ UNCHANGED <<stopping, rows, stopLeads, daemons, told>>

DaemonStep(d) ==
  ExitRefused(d) \/ ClearStop(d) \/ Poll(d) \/ Snapshot(d) \/ Read(d) \/ Latch(d)

Next ==
  \/ \E d \in Daemons : DaemonStep(d) \/ Kill(d) \/ \E l \in Leads : Start(d, l)
  \/ Stop
  \/ \E l \in Leads : ReadsContext(l)

Spec == Init /\ [][Next]_vars

\* A daemon loops for as long as it is up.
FairSpec == Spec /\ \A d \in Daemons : WF_vars(DaemonStep(d))

-----------------------------------------------------------------------------
(* Safety *)

\* The run has one lead: whoever registers last is the only one live, however
\* many daemons register and die (register_lead stops the others in the
\* transaction that inserts).
NewestLeadLives == \A r \in DOMAIN rows : rows[r].live => r = Len(rows)

\* "Records the lead crossing its stop threshold once per lead session"
\* (coordinator.rs:1927), over daemon restarts: one event exactly when the
\* row is latched.  Of daemons that overlap, each may have read the row before
\* the other latched it.
OverLimitOnce ==
  /\ \A r \in DOMAIN rows : stopLeads[rows[r].lead] = IF rows[r].over THEN 1 ELSE 0
  /\ \A l \in Leads : stopLeads[l] > 0 => Recorded(l)

\* "the daemon will exit on its next poll" (cmd_stop's answer,
\* coordinator.rs:1629): a daemon told to stop never polls and goes on, unless
\* another that is started beside it withdraws the request.
StopIsHeeded ==
  [][\A d \in told : At(d, "poll") => daemons'[d].pc \in {"poll", "off"}]_vars

\* "a different one is a new incarnation and stops the old row" (register_lead,
\* coordinator.rs:1753), for good: a lead that another one followed is not the
\* run's lead again, whatever it starts, since its row is still there and
\* external_session_id is unique.
FollowedForGood == [][\A l \in Leads : Recorded(l) /\ ~Current(l) => ~Current(l)']_vars

(* Liveness *)

\* A stop request that stands ends every daemon.
StopEndsDaemons ==
  \A d \in Daemons : (stopping /\ InLoop(d)) ~> (~stopping \/ ~InLoop(d))

Over(l) == context[l] = "over" /\ \E r \in DOMAIN rows : Serves(rows[r], l)

\* A live lead past its limit is latched by any daemon that watches for long
\* enough, unless its context falls or another lead follows; also when the
\* daemon was started after the limit was crossed, by another lead.
OverLimitIsSeen ==
  \A l \in Leads, d \in Daemons :
    (Over(l) /\ InLoop(d)) ~>
       \/ ~Over(l) \/ ~InLoop(d)
       \/ \E r \in DOMAIN rows : Serves(rows[r], l) /\ rows[r].over
=============================================================================
