-------------------------------- MODULE Audit --------------------------------
(***************************************************************************)
(* The consistency audit beside the registry: a thread that checks every   *)
(* record by itself under mutex_, looks the open ones up on the venue      *)
(* without it, compares under it again and only reports.  The module adds  *)
(* the auditor's state to Oms and lets the two run side by side.           *)
(*                                                                         *)
(* Two history variables say what a pass met: calm, that nothing was under *)
(* way from its start, and lossy, the orders with a call that the venue    *)
(* executed and that ended in a transport error all the same.              *)
(***************************************************************************)
EXTENDS Oms

CONSTANT kMaxDiscoveredLegNotes  \* 256 in the code

ASSUME AuditAssumption == kMaxDiscoveredLegNotes \in Nat \ {0}

VARIABLES
    notes,      \* discovered_leg_notes_: the order of each adopted leg
    audit,      \* the local state of the pass
    alerts,     \* the alerts of the pass so far
    calm,       \* history: nothing has been under way since the pass began
    lossy       \* history: orders with a lost answer

auditVars == <<notes, audit, alerts, calm, lossy>>

Checks == {"version_gap", "fill_state_mismatch", "unknown_leg_report", "state_mismatch",
           "fill_mismatch", "price_qty_mismatch", "lookup_failed", "venue_unknown"}

Alert == [id : Ids, check : Checks]

Alarm(id, checks) == {[id |-> id, check |-> k] : k \in checks}

IdleAudit == [pc |-> "idle", work |-> {}, item |-> None, found |-> {}]

AuditInit ==
    /\ Init
    /\ notes = <<>>
    /\ audit = IdleAudit
    /\ alerts = {}
    /\ calm = FALSE
    /\ lossy = {}

-----------------------------------------------------------------------------
(* What the auditor compares *)

\* The leg chain, and fills against the lifecycle state.
audit_record_local(r) ==
    {k \in {"version_gap", "fill_state_mismatch"} :
        \/ /\ k = "version_gap"
           /\ \/ \E i \in DOMAIN r.legs : r.legs[i].version # i
              \/ r.legs # <<>> /\ r.legs[Len(r.legs)].id # r.xid
        \/ /\ k = "fill_state_mismatch" /\ r.qty # 0
           /\ (r.state = "Filled") # (r.filled >= r.qty)}

audit_record_vs_snapshot(r, s) ==
    {k \in Checks :
        \/ k = "unknown_leg_report" /\ s.xid # 0 /\ leg_index_of(r, s.xid) = 0
        \/ k = "state_mismatch" /\ s.state # r.state
        \/ k = "fill_mismatch" /\ s.filled # r.filled
        \/ k = "price_qty_mismatch" /\ s.qty # r.qty}

-----------------------------------------------------------------------------
(* The auditing thread.  It starts after the startup reconcile.            *)

\* Faulty variant: orders whose place is unresolved are left out.
AuditWorklistWorking == {id \in Ids \ flying : Working(orders[id].state)}

AuditWorklist == {id \in Ids \ flying : known(orders[id]) /\ ~is_terminal(orders[id].state)}

Undisturbed == Quiet /\ \A t \in Recons : recon[t].pc = "idle"

\* Under the lock: the local checks of every record, the worklist, and the
\* notes, which are reported and cleared.
AuditStarts ==
    /\ up /\ lock = None
    /\ audit.pc = "idle"
    /\ audit' = [IdleAudit EXCEPT !.pc = "lookup", !.work = AuditWorklist]
    /\ alerts' = (UNION {Alarm(id, audit_record_local(orders[id])) : id \in {i \in Ids : known(orders[i])}})
                 \cup (UNION {Alarm(notes[i], {"unknown_leg_report"}) : i \in DOMAIN notes})
    /\ notes' = <<>>
    /\ calm' = Undisturbed
    /\ UNCHANGED <<vars, lossy>>

\* get_order without the lock: an order to compare ...
AuditLookup(id) ==
    /\ audit.pc = "lookup" /\ id \in audit.work
    /\ venue[id].state # "none"
    /\ audit' = [pc |-> "compare", work |-> audit.work \ {id}, item |-> id,
                 found |-> {SnapshotOf(id)}]
    /\ UNCHANGED <<vars, notes, alerts, calm, lossy>>

\* ... or an absence or an error, which is an alert whatever the record is.
AuditLookupFails(id) ==
    /\ audit.pc = "lookup" /\ id \in audit.work
    /\ \/ alerts' = alerts \cup Alarm(id, {"lookup_failed"})
       \/ /\ venue[id].state = "none"
          /\ alerts' = alerts \cup Alarm(id, {"venue_unknown"})
    /\ audit' = [audit EXCEPT !.work = @ \ {id}]
    /\ UNCHANGED <<vars, notes, calm, lossy>>

\* The record is the current one; raced_reports_ is not read again.
AuditCompare ==
    LET id == audit.item IN
    /\ audit.pc = "compare" /\ lock = None
    /\ \E s \in audit.found :
          alerts' = alerts \cup Alarm(id, audit_record_vs_snapshot(orders[id], s))
    /\ audit' = [IdleAudit EXCEPT !.pc = "lookup", !.work = audit.work]
    /\ UNCHANGED <<vars, notes, calm, lossy>>

\* The alerts go to the log and to the cache that GET /consistency serves.
AuditEnds ==
    /\ audit.pc = "lookup" /\ audit.work = {}
    /\ audit' = IdleAudit
    /\ alerts' = {}
    /\ calm' = FALSE
    /\ UNCHANGED <<vars, notes, lossy>>

-----------------------------------------------------------------------------
(* A step of Oms seen by the auditor *)

\* The steps in which the table grows by the leg that an answer names.
Acknowledged == \E c \in Clients : AmendAccepted(c) \/ CancelAccepted(c)

\* note_discovered_leg: a bounded queue, the newest notes survive.
note_discovered_leg(id) ==
    IF Len(notes) < kMaxDiscoveredLegNotes THEN Append(notes, id)
    ELSE Append(Tail(notes), id)

\* adopt_unknown_leg: an id that a non-empty leg table did not know.
Adopting == {id \in Ids : /\ orders[id].legs # <<>>
                          /\ Len(orders'[id].legs) > Len(orders[id].legs)}

LosesAnswer(c) ==
    /\ call[c].ack # 0
    /\ PlaceUnresolved(c) \/ CancelFailed(c) \/ AmendFailed(c)

Crashing == crashesLeft' # crashesLeft

OmsStep ==
    /\ Next
    /\ IF Crashing THEN notes' = <<>> /\ audit' = IdleAudit /\ alerts' = {}
       ELSE /\ notes' = IF Adopting = {} \/ Acknowledged THEN notes
                        ELSE note_discovered_leg(CHOOSE id \in Adopting : TRUE)
            /\ UNCHANGED <<audit, alerts>>
    /\ calm' = (calm /\ Undisturbed' /\ ~Crashing)
    /\ lossy' = lossy \cup {call[c].id : c \in {d \in Clients : LosesAnswer(d)}}

AuditNext ==
    \/ OmsStep
    \/ AuditStarts
    \/ \E id \in Ids : AuditLookup(id) \/ AuditLookupFails(id)
    \/ AuditCompare
    \/ AuditEnds

AuditSpec == AuditInit /\ [][AuditNext]_<<vars, auditVars>>

-----------------------------------------------------------------------------
(* Properties *)

\* The end of a pass during which nothing was under way.
CalmEnd == calm /\ audit.pc = "lookup" /\ audit.work = {}

Alerted(id) == \E a \in alerts : a.id = id

\* Such a pass reports every open order whose record is not what the venue
\* has: its state, its fills, its quantity or its exchange order id.
DriftReported ==
    CalmEnd => \A id \in Ids : known(orders[id]) /\ ~is_terminal(orders[id].state) =>
        \/ Alerted(id)
        \/ /\ venue[id].state = orders[id].state /\ venue[id].filled = orders[id].filled
           /\ venue[id].qty = orders[id].qty
           /\ leg_index_of(orders[id], venue[id].xid) # 0

\* An alarm of such a pass about an order's state, fills, leg chain or
\* existence means that something was lost: the order has a call whose answer
\* was lost, it is still Pending, or a replaced leg had fills, which the
\* replacement does not carry.  No race of calls, reports and reconciles
\* leaves such an alarm behind.  (The other checks have causes of their own: a
\* listing that an amend overtook leaves a stale quantity, and a lookup can
\* adopt the new leg of an amend before its answer does.)
AlarmsMeanLoss ==
    CalmEnd => \A a \in alerts :
        a.check \in {"state_mismatch", "fill_mismatch", "version_gap", "venue_unknown"} =>
            a.id \in lossy \/ orders[a.id].state = "Pending" \/ venue[a.id].prior > 0

\* As long as no answer of the order was lost, a terminal record has no live
\* order behind it on the venue.
NoZombieUnlessLost ==
    \A id \in Ids \ lossy : is_terminal(orders[id].state) => ~Working(venue[id].state)

=============================================================================
